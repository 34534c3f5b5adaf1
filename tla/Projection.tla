----------------------------- MODULE Projection -----------------------------
(***************************************************************************)
(* The read model (projection.rs), the task that folds the log into it and *)
(* a client that polls it through the API (api.rs:97-130).                 *)
(*                                                                         *)
(* The projector and the handlers share the model behind an RwLock.  The   *)
(* projector reads its cursor under a read guard, copies the log's tail    *)
(* with no guard, and applies the whole copy under one write guard.  A     *)
(* handler looks an intent up under a read guard and, on a miss, asks the  *)
(* log for its head with the guard still held.                             *)
(*                                                                         *)
(* The rest of the pipeline is whoever may append next: intents once each, *)
(* then in a slot or dropped (InclusionPromise), slots as in SlotLife.     *)
(* An append and its bell are one step here; Doorbell takes them apart.    *)
(* A client may poll from the moment its intent is in the log, which is    *)
(* before the answer to its submission.                                    *)
(***************************************************************************)
EXTENDS SlotEntries, ReadModel

CONSTANTS
  Ids,            \* ids of intents
  Polled,         \* those the client asks for
  MaxSlots,       \* bound: slots
  MaxEntries,     \* bound: entries in the log
  MaxFaults       \* bound: failed reads and restarts together

ASSUME ProjectionAssumption ==
  /\ Polled \subseteq Ids
  /\ MaxSlots \in Nat
  /\ MaxEntries \in Nat
  /\ MaxFaults \in Nat
  /\ Window \in Nat

\* What a proof handle is here, and all that rows hold and the model never looks
\* into.
Handle == [backend : {"mock"}, vkey_hash : Nat, proof : Nat, public_inputs : Nat]
Data == Nat \cup {"mock"} \cup Handle

ASSUME NoneAssumption == NoneIsDistinct(Data, Ids)

VARIABLES
  log,        \* the shared log
  model,      \* Projections: intents, slots, cursor
  rung,       \* the projector's receiver has an unseen bell
  projector,  \* "waiting" for the bell, "reading" or "applying" a batch
  batchEnd,   \* applying: the batch is the log from model.cursor to here
  client,     \* the query in flight, or how the last one missed
  shown,      \* per id, the last status the client was shown
  failures, restarts

proVars == <<rung, projector, batchEnd>>
vars    == <<log, model, proVars, client, shown, failures, restarts>>

-----------------------------------------------------------------------------
(* The entries.  What the read model copies and never looks into, times,   *)
(* commitments, quotes, signatures, proofs and reasons, is a stamp: the     *)
(* length of the log when the entry was made.                              *)

Stamp == Len(log)

IntentReceived(id) ==
  [kind |-> "IntentReceived", intent |-> [id |-> id, deadline_ms |-> Stamp + 2 * Window],
   received_at |-> Stamp]
IntentExpired(id) ==
  [kind |-> "IntentExpired", id |-> id, guarantee_deadline_ms |-> Stamp,
   at_ms |-> Stamp + 1]
SlotClosed(s, ids) ==
  [kind |-> "SlotCommitted", slot |-> s, intents |-> ids, commitment |-> Stamp,
   committed_at_ms |-> Stamp]
Attested(s) ==
  [kind |-> "SlotAttested", slot |-> s, quote |-> Stamp, signature |-> Stamp]
Refused(s) == [kind |-> "AttestFailed", slot |-> s, reason |-> Stamp]
ProvenWith(from, to) ==
  [kind |-> "SlotsProven", from_slot |-> from, to_slot |-> to,
   proof |-> [backend |-> "mock", vkey_hash |-> Stamp, proof |-> Stamp,
              public_inputs |-> Stamp]]
NotProven(from, to) ==
  [kind |-> "ProveFailed", from_slot |-> from, to_slot |-> to, reason |-> Stamp]

ReceivedIds(entries)  ==
  {entries[p].intent.id : p \in Of(entries, {"IntentReceived"})}
ExpiredIds(entries)   == {entries[p].id : p \in Of(entries, {"IntentExpired"})}
CommittedIds(entries) ==
  UNION {ToSet(entries[p].intents) : p \in Commits(entries)}

-----------------------------------------------------------------------------
(* The rest of the pipeline.                                               *)

Put(e) ==
  /\ Len(log) < MaxEntries
  /\ log' = Append(log, e)
  /\ rung' = TRUE
  /\ UNCHANGED <<model, projector, batchEnd, client, shown, failures, restarts>>

Submit ==
  \E id \in Ids \ ReceivedIds(log) : Put(IntentReceived(id))

\* A restart may have the same miss recorded again.
Drop ==
  \E id \in ReceivedIds(log) \ CommittedIds(log) :
    /\ Cardinality({p \in Of(log, {"IntentExpired"}) : log[p].id = id}) =< restarts
    /\ Put(IntentExpired(id))

CloseSlot ==
  LET open == ReceivedIds(log) \ (CommittedIds(log) \cup ExpiredIds(log))
      next == Cardinality(Commits(log))
  IN  /\ next < MaxSlots
      /\ \E ids \in SUBSET open : \E order \in SetToSeqs(ids) :
           Put(SlotClosed(next, order))

RuleOnSlot ==
  \E s \in CommittedSlots(log) \ RuledSlots(log) :
    Put(Attested(s)) \/ Put(Refused(s))

JudgeSlots ==
  \E from, to \in AttestedSlots(log) :
    /\ from =< to
    /\ from .. to \subseteq AttestedSlots(log) \ JudgedSlots(log)
    /\ Put(ProvenWith(from, to)) \/ Put(NotProven(from, to))

-----------------------------------------------------------------------------
(* The projector.                                                          *)

Wake ==
  /\ projector = "waiting"
  /\ rung
  /\ rung' = FALSE
  /\ projector' = "reading"
  /\ UNCHANGED <<log, model, batchEnd, client, shown, failures, restarts>>

\* read_from copies what there is; the log may grow before it is applied.
ReadTail ==
  /\ projector = "reading"
  /\ batchEnd' = Len(log)
  /\ projector' = "applying"
  /\ UNCHANGED <<log, model, rung, client, shown, failures, restarts>>

\* Err(_) => continue: the bell has been seen and the loop waits for another.
SkipRead ==
  /\ projector = "reading"
  /\ failures + restarts < MaxFaults
  /\ failures' = failures + 1
  /\ projector' = "waiting"
  /\ UNCHANGED <<log, model, rung, batchEnd, client, shown, restarts>>

\* Mutants of Apply: a lock per entry; no lock at all.
ApplyOne ==
  /\ projector = "applying"
  /\ client.phase # "missed"
  /\ IF model.cursor < batchEnd
     THEN model' = apply(model, model.cursor, log[model.cursor + 1])
     ELSE UNCHANGED model
  /\ projector' = IF model'.cursor = batchEnd THEN "waiting" ELSE "applying"
  /\ UNCHANGED <<log, rung, batchEnd, client, shown, failures, restarts>>

ApplyUnlocked ==
  /\ projector = "applying"
  /\ model' = Folded(model, log, batchEnd)
  /\ projector' = "waiting"
  /\ batchEnd' = 0
  /\ UNCHANGED <<log, rung, client, shown, failures, restarts>>

\* The whole batch, under a write guard: no handler holds a read guard.
Apply ==
  /\ projector = "applying"
  /\ client.phase # "missed"
  /\ model' = Folded(model, log, batchEnd)
  /\ projector' = "waiting"
  /\ batchEnd' = 0
  /\ UNCHANGED <<log, rung, client, shown, failures, restarts>>

-----------------------------------------------------------------------------
(* The client.                                                             *)

\* The lookup of status and of receipt.  known is set aside for NotFoundIsTrue.
Look(id) ==
  /\ client.phase # "missed"
  /\ LET status == status_of(model, id)
     IN  IF status # None
         THEN /\ client' = [phase |-> "idle"]
              /\ shown' = [shown EXCEPT ![id] = status.lifecycle]
         ELSE /\ client' = [phase |-> "missed", known |-> id \in ReceivedIds(log)]
              /\ UNCHANGED shown
  /\ UNCHANGED <<log, model, proVars, failures, restarts>>

\* miss, with the guard of the lookup still held: NotReady leaves the client
\* where it was, NotFound does not.
Miss ==
  /\ client.phase = "missed"
  /\ client' = IF Lagging(model, Len(log)) THEN [phase |-> "idle"]
               ELSE [phase |-> "not found", known |-> client.known]
  /\ UNCHANGED <<log, model, proVars, shown, failures, restarts>>

\* The process starts again on its log: the read model is empty and the first
\* tick is armed.  The client remembers what it was shown.
Restart ==
  /\ failures + restarts < MaxFaults
  /\ restarts' = restarts + 1
  /\ model' = Empty
  /\ rung' = TRUE
  /\ projector' = "waiting"
  /\ batchEnd' = 0
  /\ client' = [phase |-> "idle"]
  /\ UNCHANGED <<log, shown, failures>>

Init ==
  /\ log = <<>>
  /\ model = Empty
  /\ rung = TRUE
  /\ projector = "waiting"
  /\ batchEnd = 0
  /\ client = [phase |-> "idle"]
  /\ shown = [id \in Polled |-> None]
  /\ failures = 0
  /\ restarts = 0

Pipeline == Submit \/ Drop \/ CloseSlot \/ RuleOnSlot \/ JudgeSlots

Next ==
  \/ Pipeline
  \/ Wake \/ ReadTail \/ SkipRead \/ Apply
  \/ (\E id \in Polled : Look(id)) \/ Miss
  \/ Restart

Spec == Init /\ [][Next]_vars

-----------------------------------------------------------------------------
(* Properties.                                                             *)

\* What the first entries of a log say of an intent, in one reading.
StatusIn(entries, id) ==
  IF id \notin ReceivedIds(entries) THEN None
  ELSE IF id \in ExpiredIds(entries) THEN "expired"
  ELSE IF id \notin CommittedIds(entries) THEN "received"
  ELSE LET p == CHOOSE q \in Commits(entries) : Contains(entries[q].intents, id)
           stage == StageIn(entries, entries[p].slot)
       IN  CASE stage = "committed" -> "sequenced"
             [] stage = "attested"  -> "preconfirmed"
             [] stage = "proven"    -> "final_proven"
             [] OTHER               -> "failed"

\* Folded in any batches, over failed reads and restarts, the read model says
\* of every intent what the entries up to its cursor say: no stage is skipped,
\* applied twice or left out, and a failed batch fails every slot in it
\* (projection.rs:142-156, 165-179).
StatusesAreTheLogs ==
  \A id \in Ids :
    LET said   == StatusIn(SubSeq(log, 1, model.cursor), id)
        status == status_of(model, id)
    IN  \/ said = None /\ status = None
        \/ said # None /\ status # None /\ status.lifecycle = said

\* What may follow a status.  Dropped, failed and proven are for good.
After(status) ==
  CASE status = None           -> Statuses
    [] status = "received"     -> Statuses
    [] status = "sequenced"    -> {"preconfirmed", "final_proven", "failed"}
    [] status = "preconfirmed" -> {"final_proven", "failed"}
    [] OTHER                   -> {}

\* A client that polls sees its intent move forward only, though the model is
\* rebuilt from nothing on every start: a restarted projector applies what the
\* log holds before a handler sees any of it, and until then the answer is to
\* try again (projection.rs:280-296).
AnswersMoveForward ==
  [][\A id \in Polled : shown'[id] \in {shown[id]} \cup After(shown[id])]_shown

\* "One is terminal, the other is a retry" (api.rs:97-99): an intent the log
\* had when the client asked is never reported as not found.
NotFoundIsTrue ==
  client.phase = "not found" => ~ client.known

\* The parts of a receipt r against the entries it is folded from.
AdmissionIn(entries, r) ==
  LET e == entries[r.log_position + 1]
  IN  /\ e.kind = "IntentReceived"
      /\ e.intent.id = r.intent_id
      /\ r.guarantee.received_at_ms = e.received_at
      /\ r.guarantee.deadline_ms = e.received_at + Window
      /\ r.guarantee.intent_deadline_ms = e.intent.deadline_ms

PlaceIn(entries, r) ==
  r.sequence # None =>
    \E p \in Commits(entries) :
      /\ entries[p].slot = r.sequence.slot
      /\ entries[p].intents[r.sequence.index + 1] = r.intent_id
      /\ entries[p].commitment = r.sequence.slot_commitment
      /\ r.guarantee.state.state = "met" =>
           /\ r.guarantee.state.slot = r.sequence.slot
           /\ r.guarantee.state.committed_at_ms = entries[p].committed_at_ms

MissIn(entries, r) ==
  /\ r.guarantee.state.state = "missed" <=> r.lifecycle = "expired"
  /\ r.guarantee.state.state = "met" <=> r.sequence # None
  /\ r.guarantee.state.state = "missed" =>
       \E p \in Of(entries, {"IntentExpired"}) :
         /\ entries[p].id = r.intent_id
         /\ entries[p].guarantee_deadline_ms = r.guarantee.state.deadline_ms
         /\ entries[p].at_ms = r.guarantee.state.expired_at_ms

\* A promise neither kept nor missed is overdue from the end of its window on.
PromiseIn(entries, r, now) ==
  LET state == r.guarantee.state.state
  IN  state \notin {"met", "missed"} =>
        IF now > entries[r.log_position + 1].received_at + Window
        THEN state = "overdue" ELSE state = "pending"

\* A failure gives the reason of the stage that failed the slot.
ReasonIn(entries, r) ==
  /\ r.reason # None <=> r.lifecycle = "failed"
  /\ r.reason # None =>
       \/ \E p \in Of(entries, {"AttestFailed"}) :
            entries[p].slot = r.sequence.slot /\ entries[p].reason = r.reason
       \/ \E p \in Of(entries, {"ProveFailed"}) :
            r.sequence.slot \in Covers(entries, p) /\ entries[p].reason = r.reason

\* The commitment of the preconf is the one of the entry the quote answers.
PreconfIn(entries, r) ==
  /\ r.preconf # None <=>
       r.sequence # None /\ r.sequence.slot \in AttestedSlots(entries)
  /\ r.preconf # None =>
       /\ r.preconf.slot = r.sequence.slot
       /\ r.preconf.commitment = r.sequence.slot_commitment
       /\ \E p \in Of(entries, {"SlotAttested"}) :
            /\ entries[p].slot = r.preconf.slot
            /\ entries[p].quote = r.preconf.quote
            /\ entries[p].signature = r.preconf.signature

ProofIn(entries, r) ==
  /\ r.proof # None <=> r.lifecycle = "final_proven"
  /\ r.proof # None =>
       /\ r.preconf.slot \in r.proof.from_slot .. r.proof.to_slot
       /\ \E p \in Of(entries, {"SlotsProven"}) :
            /\ entries[p].from_slot = r.proof.from_slot
            /\ entries[p].to_slot = r.proof.to_slot
            /\ entries[p].proof.backend = r.proof.backend
            /\ entries[p].proof.vkey_hash = r.proof.vkey_hash
            /\ entries[p].proof.proof = r.proof.proof

\* A receipt's evidence is the log's: the position is that of the admission, the
\* place in the sequence is where the slot has the intent, the promise is met or
\* missed as an entry says and overdue when its window is over, a preconf is there
\* from the attestation on and stays, a proof covers the slot and is one the log
\* holds, a failure has the reason an entry gives, and all of it agrees with the
\* lifecycle beside it (projection.rs:211-275, receipt.rs:39-113).  The receipt is
\* asked for in the last moment of the window and in the one after it.
EvidenceIsInTheLog ==
  \A id \in DOMAIN model.intents :
    LET read == SubSeq(log, 1, model.cursor)
        end  == model.intents[id].received_at_ms + Window
    IN  \A now \in {end, end + 1} :
          LET r == receipt_of(model, id, now)
          IN  /\ AdmissionIn(read, r)
              /\ PlaceIn(read, r)
              /\ MissIn(read, r)
              /\ PromiseIn(read, r, now)
              /\ PreconfIn(read, r)
              /\ ProofIn(read, r)
              /\ ReasonIn(read, r)

\* "Rebuilt from the log on every start" (projection.rs:1): what the model says
\* is what the log says, in every lifecycle and every field of a receipt but
\* max_slots, which is the configuration's.
ReadModelIsTheLog == StatusesAreTheLogs /\ EvidenceIsInTheLog
=============================================================================
