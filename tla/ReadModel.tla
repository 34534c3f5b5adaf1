------------------------------ MODULE ReadModel ------------------------------
(***************************************************************************)
(* The read model as data: the fold of the log (projection.rs) and what a  *)
(* handler reads off it, statuses and receipts (receipt.rs).  The tasks     *)
(* around it are in Projection, HttpApi and Pipeline.                      *)
(*                                                                         *)
(* An entry is a record with its kind and its own fields (log.rs:41-82);   *)
(* an intent is a record with an id and a deadline_ms.  Hex text is left    *)
(* out: a receipt holds the bytes.                                         *)
(***************************************************************************)
EXTENDS Integers, Sequences, SequencesExt

CONSTANTS
  None,       \* Rust's None
  Window      \* GuaranteeConfig::window_size

-----------------------------------------------------------------------------
(* Rows.                                                                   *)

IntentRow(pos, e) ==
  [position |-> pos, received_at_ms |-> e.received_at,
   deadline_ms |-> e.intent.deadline_ms,
   slot |-> None, index |-> None, expired |-> None]

\* reason is the one of SlotStage::Failed.
SlotRow(e) ==
  [committed_at_ms |-> e.committed_at_ms, commitment |-> e.commitment,
   stage |-> "Committed", reason |-> None, preconf |-> None, proof |-> None]

Preconf(e) == [quote |-> e.quote, signature |-> e.signature]

ProvenRange(e) ==
  [from_slot |-> e.from_slot, to_slot |-> e.to_slot, handle |-> e.proof]

\* The rows over a set of data: times, commitments, quotes, signatures, proofs
\* and reasons, none of which the model looks into.
IntentRows(D) ==
  [position : Nat, received_at_ms : D, deadline_ms : D,
   slot : Nat \cup {None}, index : Nat \cup {None}, expired : (D \X D) \cup {None}]

Preconfs(D) == [quote : D, signature : D]
ProvenRanges(D) == [from_slot : Nat, to_slot : Nat, handle : D]

SlotRows(D) ==
  [committed_at_ms : D, commitment : D,
   stage : {"Committed", "Preconfirmed", "Proven", "Failed"},
   reason : D \cup {None}, preconf : Preconfs(D) \cup {None},
   proof : ProvenRanges(D) \cup {None}]

-----------------------------------------------------------------------------
(* apply.                                                                  *)

\* What an entry does to the row of an intent the model knows.
ChangedIntent(row, id, e) ==
  CASE e.kind = "IntentExpired" /\ e.id = id ->
         [row EXCEPT !.expired = <<e.guarantee_deadline_ms, e.at_ms>>]
    [] e.kind = "SlotCommitted" /\ Contains(e.intents, id) ->
         [row EXCEPT !.slot = e.slot,
            !.index = (CHOOSE k \in DOMAIN e.intents : e.intents[k] = id) - 1]
    [] OTHER -> row

\* Mutant of Fails: a failed batch fails its last slot only (the bug
\* projection.rs:165-167 tells of).
FailsLastOnly(e, s) ==
  \/ e.kind = "AttestFailed" /\ e.slot = s
  \/ e.kind = "ProveFailed" /\ s = e.to_slot

\* The entry fails slot s, whatever its stage.
Fails(e, s) ==
  \/ e.kind = "AttestFailed" /\ e.slot = s
  \/ e.kind = "ProveFailed" /\ s \in e.from_slot .. e.to_slot

\* Mutant of Proven: proving a slot discards its preconf (projection.rs:11-12).
ProofReplacesPreconf(row, e) ==
  [row EXCEPT !.stage = "Proven", !.preconf = None, !.proof = ProvenRange(e)]

\* The evidence of a proof comes beside the preconf.
Proven(row, e) == [row EXCEPT !.stage = "Proven", !.proof = ProvenRange(e)]

\* What an entry does to the row of a slot the model knows: a stage that does
\* not follow on the row's own is ignored.
ChangedSlot(row, s, e) ==
  CASE e.kind = "SlotAttested" /\ e.slot = s /\ row.stage = "Committed" ->
         [row EXCEPT !.stage = "Preconfirmed", !.preconf = Preconf(e)]
    [] e.kind = "SlotsProven" /\ s \in e.from_slot .. e.to_slot
         /\ row.stage = "Preconfirmed" -> Proven(row, e)
    [] Fails(e, s) -> [row EXCEPT !.stage = "Failed", !.reason = e.reason]
    [] OTHER -> row

\* The keys an entry inserts: an intent when the model has no row for it
\* (or_insert), a slot whether it has one or not (insert).
NewIntents(e) == IF e.kind = "IntentReceived" THEN {e.intent.id} ELSE {}
NewSlots(e)   == IF e.kind = "SlotCommitted" THEN {e.slot} ELSE {}

apply(m, pos, e) ==
  [intents |->
     [id \in DOMAIN m.intents \cup NewIntents(e) |->
        IF id \in DOMAIN m.intents THEN ChangedIntent(m.intents[id], id, e)
        ELSE IntentRow(pos, e)],
   slots |->
     [s \in DOMAIN m.slots \cup NewSlots(e) |->
        IF s \in NewSlots(e) THEN SlotRow(e)
        ELSE ChangedSlot(m.slots[s], s, e)],
   cursor |-> pos + 1]

Empty == [intents |-> <<>>, slots |-> <<>>, cursor |-> 0]

\* The loop over a batch: the model after the entries from its cursor to end.
Folded(m, entries, end) ==
  LET upTo[n \in m.cursor..end] ==
        IF n = m.cursor THEN m ELSE apply(upTo[n - 1], n - 1, entries[n])
  IN  upTo[end]

-----------------------------------------------------------------------------
(* What a handler makes of the model.                                      *)

\* Projections::cursor is behind the head: the projector has yet to catch up.
Lagging(m, head) == m.cursor < head

Statuses ==
  {"received", "sequenced", "preconfirmed", "final_proven", "expired", "failed"}

\* None when the slot of the row is not in the model.
lifecycle(m, row) ==
  IF row.expired # None THEN "expired"
  ELSE IF row.slot = None THEN "received"
  ELSE IF row.slot \notin DOMAIN m.slots THEN None
  ELSE CASE m.slots[row.slot].stage = "Committed"    -> "sequenced"
         [] m.slots[row.slot].stage = "Preconfirmed" -> "preconfirmed"
         [] m.slots[row.slot].stage = "Proven"       -> "final_proven"
         [] m.slots[row.slot].stage = "Failed"       -> "failed"

\* What Lifecycle::Failed carries, on the wire beside the lifecycle.
ReasonOf(m, row) ==
  IF lifecycle(m, row) = "failed" THEN m.slots[row.slot].reason ELSE None

StatusResponse(m, id, row) ==
  [intent_id |-> id, lifecycle |-> lifecycle(m, row), reason |-> ReasonOf(m, row),
   slot |-> row.slot]

status_of(m, id) ==
  IF id \notin DOMAIN m.intents \/ lifecycle(m, m.intents[id]) = None THEN None
  ELSE StatusResponse(m, id, m.intents[id])

\* The row of the slot an intent is in.
SlotRowOf(m, row) ==
  IF row.slot \in DOMAIN m.slots THEN m.slots[row.slot] ELSE None

SequencePosition(row, slotRow) ==
  [slot |-> row.slot, index |-> row.index, slot_commitment |-> slotRow.commitment]

deadline_for(now) == now + Window

GuaranteeState(row, slotRow, now) ==
  IF row.expired # None
  THEN [state |-> "missed", deadline_ms |-> row.expired[1],
        expired_at_ms |-> row.expired[2]]
  ELSE IF slotRow # None
  THEN [state |-> "met", slot |-> row.slot,
        committed_at_ms |-> slotRow.committed_at_ms]
  ELSE IF now > deadline_for(row.received_at_ms)
  THEN [state |-> "overdue"] ELSE [state |-> "pending"]

\* max_slots, which every receipt echoes, is left out.
InclusionGuarantee(row, slotRow, now) ==
  [received_at_ms |-> row.received_at_ms,
   deadline_ms |-> deadline_for(row.received_at_ms),
   intent_deadline_ms |-> row.deadline_ms,
   state |-> GuaranteeState(row, slotRow, now)]

PreconfRef(row, slotRow) ==
  [slot |-> row.slot, commitment |-> slotRow.commitment,
   quote |-> slotRow.preconf.quote, signature |-> slotRow.preconf.signature]

\* The handle's public inputs stay behind.
ProofRef(slotRow) ==
  LET range == slotRow.proof
  IN  [from_slot |-> range.from_slot, to_slot |-> range.to_slot,
       backend |-> range.handle.backend, vkey_hash |-> range.handle.vkey_hash,
       proof |-> range.handle.proof]

Receipt(m, id, row, slotRow, now) ==
  [intent_id    |-> id,
   lifecycle    |-> lifecycle(m, row),
   reason       |-> ReasonOf(m, row),
   log_position |-> row.position,
   sequence     |-> IF slotRow = None THEN None ELSE SequencePosition(row, slotRow),
   guarantee    |-> InclusionGuarantee(row, slotRow, now),
   preconf      |-> IF slotRow = None THEN None
                    ELSE IF slotRow.preconf = None THEN None
                    ELSE PreconfRef(row, slotRow),
   proof        |-> IF slotRow = None THEN None
                    ELSE IF slotRow.proof = None THEN None
                    ELSE ProofRef(slotRow)]

\* For an intent that has a status.
receipt_of(m, id, now) ==
  Receipt(m, id, m.intents[id], SlotRowOf(m, m.intents[id]), now)

\* None is not one of the values that an Option of a row or of a response holds,
\* with data from D and intents named from Names.
NoneIsDistinct(D, Names) ==
  /\ None \notin Nat
  /\ None \notin D
  /\ None \notin Statuses
  /\ None \notin D \X D
  /\ None \notin Preconfs(D)
  /\ None \notin ProvenRanges(D)
  /\ None \notin SlotRows(D)
  /\ None \notin [intent_id : Names, lifecycle : Statuses, reason : D \cup {None},
                  slot : Nat \cup {None}]
  /\ None \notin [slot : Nat, index : Nat, slot_commitment : D]
  /\ None \notin [slot : Nat, commitment : D, quote : D, signature : D]
  /\ None \notin [from_slot : Nat, to_slot : Nat, backend : D, vkey_hash : D,
                  proof : D]
=============================================================================
