------------------------------ MODULE Pipeline ------------------------------
(***************************************************************************)
(* The whole process (main.rs, lib.rs): gate, sequencer, attester, prover  *)
(* and projector on one log, with the evidence that ends up on a receipt.  *)
(*                                                                         *)
(* A stage is reduced to what it does to the log.  Sequencing and HttpApi   *)
(* take the gate and the sequencer apart; times are left out here, so the   *)
(* sequencer may drop any intent it has not committed.  SlotPipeline takes  *)
(* the attester and the prover apart and shows that they rule on slots in   *)
(* order and judge attested ones in order and in batches, through crashes,  *)
(* which is how they step here (LifeImplemented).  What they append carries *)
(* what the enclave and the backend made of it (Evidence).                  *)
(*                                                                         *)
(* So nothing but the read model is lost when the process stops.            *)
(***************************************************************************)
EXTENDS SlotEntries, SequencesExt, Evidence

CONSTANTS
  Bodies,         \* the intents clients may submit
  BatchSize,      \* BatchConfig::batch_size
  None,           \* Rust's None
  Faults,         \* what the enclave and the backend may be set up to fail
  MaxIdleSlots,   \* bound: from this slot on, only slots with an intent close
  MaxCrashes      \* bound: restarts of the process

ASSUME WiringAssumption ==
  /\ Bodies \subseteq Body
  /\ BatchSize \in Nat \ {0}
  /\ \A f \in Faults :
       /\ f.slots \subseteq Nat
       /\ f.ranges \subseteq Nat \X Nat
       /\ fail_slots(f.ranges)
  /\ MaxIdleSlots \in Nat
  /\ MaxCrashes \in Nat

VARIABLES
  log,
  failing,  \* MockEnclave::fail_slots and MockProver::fail_ranges
  folded,   \* entries the projector has applied
  crashes

vars == <<log, failing, folded, crashes>>

R == INSTANCE ReadModel WITH Window <- 0

\* The ids of the intents that may come.
Names == {id(i) : i \in Bodies}

\* What the read model copies from an entry: times, reasons and evidence.
Commitments == [keccak : Seq(Nat \cup Names)]
Quotes      == {"MOCKQUOTE"} \X {1} \X Nat \X Commitments \X {MOCK_MEASUREMENT}
Signatures  == [keccak : {"MOCKSIG"} \X Commitments]
Handles     == [backend : {"mock"}, proof : [keccak : Seq(Commitments)],
                public_inputs : Seq(Commitments), vkey_hash : {MOCK_VKEY_HASH}]
Data        == Nat \cup EnclaveError \cup ProveFailure \cup Commitments
                 \cup Quotes \cup Signatures \cup Handles
                 \cup {"mock", MOCK_VKEY_HASH} \cup [keccak : Seq(Commitments)]

ASSUME NoneAssumption == R!NoneIsDistinct(Data, Names)

-----------------------------------------------------------------------------
(* The log.                                                                *)

Received    == Of(log, {"IntentReceived"})
ReceivedIds == {log[p].intent.id : p \in Received}
DroppedIds  == {log[p].id : p \in Of(log, {"IntentExpired"})}
PlacedIds   == UNION {ToSet(log[p].intents) : p \in Commits(log)}

\* What the sequencer may still commit or drop.
Open == ReceivedIds \ (DroppedIds \cup PlacedIds)

\* Entry::SlotCommitted of slot s, as the attester and the prover hold it.
Committed(s) == log[CommitOf(log, s)]

\* Projections: what the applied entries make of an empty model, however they
\* were batched (ReadModelIsTheLog of Projection).
model == R!Folded(R!Empty, log, folded)

\* The batch a verdict is about.
Batch(from, to) == [k \in 1..(to - from + 1) |-> Committed(from + k - 1)]

-----------------------------------------------------------------------------
(* Gate and sequencer.                                                     *)

\* admit_and_append.  The entry keeps the intent it was made from.
Admit(i) ==
  /\ id(i) \notin ReceivedIds
  /\ \A p \in Received :
       log[p].intent.body.submitter = i.submitter
         => log[p].intent.body.nonce < i.nonce
  /\ log' = Append(log,
       [kind |-> "IntentReceived", received_at |-> 0,
        intent |-> [id |-> id(i), deadline_ms |-> i.deadline_ms, body |-> i]])
  /\ UNCHANGED <<failing, folded, crashes>>

Drop ==
  /\ \E i \in Open :
       log' = Append(log, [kind |-> "IntentExpired", id |-> i,
                           guarantee_deadline_ms |-> 0, at_ms |-> 0])
  /\ UNCHANGED <<failing, folded, crashes>>

\* What the sequencer may have in its buffer: it reads the log in order.
Buffers ==
  {{i \in Open : \E p \in Received : p =< read /\ log[p].intent.id = i} :
     read \in 0..Len(log)}

CloseWith(s, ids, commitment) ==
  log' = Append(log, [kind |-> "SlotCommitted", slot |-> s, intents |-> ids,
                      commitment |-> commitment, committed_at_ms |-> 0])

\* Mutant of CloseSlot: the commitment is taken before the order is settled.
CloseSlotUnsettled ==
  LET next == Cardinality(Commits(log))
  IN  /\ \E some \in Buffers : \E ids, other \in SetToSeqs(some) :
           /\ some # {} \/ next < MaxIdleSlots
           /\ CloseWith(next, ids, commit(next, other))
      /\ UNCHANGED <<failing, folded, crashes>>

\* The tick, with what was read by then, in whatever order the policy gives.
CloseSlot ==
  LET next == Cardinality(Commits(log))
  IN  /\ \E some \in Buffers : \E ids \in SetToSeqs(some) :
           /\ some # {} \/ next < MaxIdleSlots
           /\ CloseWith(next, ids, commit(next, ids))
      /\ UNCHANGED <<failing, folded, crashes>>

-----------------------------------------------------------------------------
(* Attester, prover and projector.                                         *)

\* The attester checks the commitment itself, then asks the enclave.
RulingOn(e) ==
  LET result == attest(MockEnclave(failing.slots), e.slot, e.intents, e.commitment)
      Refused(reason) ==
        [kind |-> "AttestFailed", slot |-> e.slot, reason |-> reason]
  IN  IF commit(e.slot, e.intents) # e.commitment THEN Refused("commitment mismatch")
      ELSE IF Succeeded(result)
      THEN [kind |-> "SlotAttested", slot |-> e.slot,
            quote |-> result.ok.quote, signature |-> result.ok.sig]
      ELSE Refused(result.err)

\* The attester comes to the first slot nobody has ruled on.
Attest ==
  LET next == Cardinality(Rulings(log))
  IN  /\ next \in CommittedSlots(log)
      /\ log' = Append(log, RulingOn(Committed(next)))
      /\ UNCHANGED <<failing, folded, crashes>>

\* flush: one proof for the whole batch, or one failure.
VerdictOn(slots) ==
  LET result == prove(MockProver(failing.ranges), slots)
      from == slots[1].slot
      to == slots[Len(slots)].slot
  IN  IF Succeeded(result)
      THEN [kind |-> "SlotsProven", from_slot |-> from, to_slot |-> to,
            proof |-> result.ok]
      ELSE [kind |-> "ProveFailed", from_slot |-> from, to_slot |-> to,
            reason |-> result.err]

\* Attested slots with no verdict.
Queued == AttestedSlots(log) \ JudgedSlots(log)

\* Mutant of Prove: only full batches are proven.
ProveFull ==
  \E from, to \in Queued :
    /\ \A s \in Queued : from =< s
    /\ from .. to \subseteq Queued
    /\ to - from = BatchSize - 1
    /\ log' = Append(log, VerdictOn(Batch(from, to)))
    /\ UNCHANGED <<failing, folded, crashes>>

\* The prover has read this much of what is queued when a batch is full, a
\* refusal closes it or the timer ticks.
Prove ==
  \E from, to \in Queued :
    /\ \A s \in Queued : from =< s
    /\ from .. to \subseteq Queued
    /\ to - from < BatchSize
    /\ from =< to
    /\ log' = Append(log, VerdictOn(Batch(from, to)))
    /\ UNCHANGED <<failing, folded, crashes>>

Project ==
  /\ folded < Len(log)
  /\ folded' = Len(log)
  /\ UNCHANGED <<log, failing, crashes>>

-----------------------------------------------------------------------------
\* "if one stops", the process exits non-zero and a supervisor restarts it.
Crash ==
  /\ crashes < MaxCrashes
  /\ crashes' = crashes + 1
  /\ folded' = 0
  /\ UNCHANGED <<log, failing>>

Init ==
  /\ log = <<>>
  /\ failing \in Faults
  /\ folded = 0
  /\ crashes = 0

Next ==
  \/ \E i \in Bodies : Admit(i)
  \/ Drop \/ CloseSlot \/ Attest \/ Prove \/ Project \/ Crash

Spec == Init /\ [][Next]_vars

\* The runtime polls every task, the slot timer and the flush timer keep firing,
\* the enclave and the backend answer.
FairSpec ==
  Spec /\ WF_vars(CloseSlot) /\ WF_vars(Attest) /\ WF_vars(Prove) /\ WF_vars(Project)

-----------------------------------------------------------------------------
(* Properties.                                                             *)

\* "Otherwise ("AB","C") and ("A","BC") hash alike" (intent.rs:65): what a client
\* reads under its intent's id is about that intent and no other.
StatusIsOfTheIntent ==
  LET m == model
  IN  \A i \in Bodies : id(i) \in DOMAIN m.intents =>
        log[m.intents[id(i)].position + 1].intent.body = i

\* The claim a holder reads off a receipt.
ClaimOf(receipt) ==
  PreconfClaim(receipt.preconf.slot, receipt.preconf.commitment,
               receipt.preconf.quote, receipt.preconf.signature)

\* "The evidence bundle" (README.md:128): the receipt of a preconfirmed intent
\* verifies against the contents of its slot, the intent at the index the
\* receipt gives; that of a proven one also has a proof that checks against
\* the slots of its range (attest.rs:127-153, prove/mod.rs:327-351).
EvidenceVerifies ==
  LET m == model
  IN  \A i \in DOMAIN m.intents :
        LET receipt == R!receipt_of(m, i, 0)
            slot == Committed(receipt.sequence.slot)
            range == receipt.proof
        IN  /\ receipt.preconf # None =>
                 /\ verify_preconf(MOCK_MEASUREMENT, ClaimOf(receipt),
                                   slot.intents) = "Ok"
                 /\ slot.intents[receipt.sequence.index + 1] = i
                 /\ receipt.sequence.slot_commitment = receipt.preconf.commitment
            /\ receipt.lifecycle = "final_proven" =>
                 /\ receipt.preconf # None
                 /\ slot.slot \in range.from_slot .. range.to_slot
                 /\ range.proof = chain(Batch(range.from_slot, range.to_slot))

\* The log's entries of slots the enclave signed.
Signed == Of(log, {"SlotAttested"})

\* Evidence put together from two slots, or looked at by a holder who trusts
\* another build, is told from the real thing, and by the error that names what
\* is wrong (attest.rs:66-80, 122-126), though slots may hold the same intents,
\* or none.
MixedEvidenceIsRejected ==
  \A p \in Signed : \A q \in Signed \ {p} :
    LET own == Committed(log[p].slot)
        more == Append(own.intents, id(CHOOSE i \in Bodies : TRUE))
        real == PreconfClaim(own.slot, own.commitment,
                             log[p].quote, log[p].signature)
        Verified(claim) == verify_preconf(MOCK_MEASUREMENT, claim, own.intents)
        answer ==
          [MalformedQuote |-> Verified([real EXCEPT !.quote = Front(@)]),
           SlotMismatch |-> Verified([real EXCEPT !.quote = log[q].quote]),
           BadSignature |-> Verified([real EXCEPT !.signature = log[q].signature]),
           ContentsMismatch |-> verify_preconf(MOCK_MEASUREMENT, real, more),
           CommitmentMismatch |->
             verify_preconf(MOCK_MEASUREMENT,
               [real EXCEPT !.commitment = commit(own.slot, more)], more),
           UntrustedMeasurement |->
             verify_preconf("another build", real, own.intents)]
    IN  \A e \in VerifyError : answer[e] = e

\* A proof checks against the slots of its range and no others, and a handle
\* with one field changed is refused for that field (prove/mod.rs:74-78: "a
\* prover cannot pass by proving something easier", 89-103; there is one backend
\* so far, and the mock's proof has no malformed form).
ProofsAreOfTheirSlots ==
  \A p \in Of(log, {"SlotsProven"}) :
    LET handle == log[p].proof
        own == Batch(log[p].from_slot, log[p].to_slot)
        answer ==
          [WrongVerifyingKey |-> verify([handle EXCEPT !.vkey_hash = "bb"], own),
           WrongStatement |->
             verify([handle EXCEPT !.public_inputs = Front(@)], own),
           Invalid |->
             verify([handle EXCEPT !.proof = Keccak256(statement(own) \o <<0>>)], own)]
    IN  /\ \A e \in VerifyFailure \ {"WrongBackend", "Malformed"} : answer[e] = e
        /\ \A from, to \in CommittedSlots(log) : from =< to =>
             ( verify(handle, Batch(from, to)) = "Ok"
                 <=> from = log[p].from_slot /\ to = log[p].to_slot )

\* Nothing fails but what the enclave or the backend was told to fail: no stage
\* finds fault with what another wrote (attest.rs:225-243, 332-345), and a
\* batch fails exactly when it meets a range (main.rs:14-24).
FailuresAreInjected ==
  /\ \A p \in Rulings(log) :
       log[p].kind = "AttestFailed" <=> log[p].slot \in failing.slots
  /\ \A p \in Of(log, {"AttestFailed"}) : log[p].reason \in EnclaveError
  /\ \A p \in Of(log, {"ProveFailed"}) : log[p].reason \in ProveFailure
  /\ \A p \in Verdicts(log) :
       log[p].kind = "ProveFailed" <=>
         \E range \in failing.ranges : (range[1] .. range[2]) \cap Covers(log, p) # {}

\* What await_proven waits for (testkit.rs:82-98).
await_proven(m, i) == R!receipt_of(m, i, 0).lifecycle = "final_proven"

\* An intent admitted is in the read model m, at rest, and where it should be.
Settled(m, i) ==
  /\ R!status_of(m, i) # None
  /\ IF i \in DroppedIds THEN R!status_of(m, i).lifecycle = "expired"
     ELSE \/ await_proven(m, i)
          \/ /\ failing.slots # {} \/ failing.ranges # {}
             /\ R!status_of(m, i).lifecycle = "failed"

\* From end to end: every intent admitted comes to rest in the read model, as
\* expired when it was dropped, and otherwise as final_proven, unless the
\* enclave or the backend was told to fail (README.md:143-147), through a
\* restart at any point.
EveryIntentSettles ==
  []<>(LET m == model IN \A i \in ReceivedIds : Settled(m, i))
=============================================================================
