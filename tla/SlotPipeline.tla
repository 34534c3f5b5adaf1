---------------------------- MODULE SlotPipeline ----------------------------
(***************************************************************************)
(* The attester and the prover behind the sequencer, on one log, each with *)
(* crashes and restarts of its own.                                        *)
(*                                                                         *)
(* The sequencer and the gate are reduced to what they do to the log here: *)
(* slots are committed one after the other (SlotsAreDense of Sequencing),  *)
(* and other entries come between.                                         *)
(*                                                                         *)
(* Both stages recover in two reads of the log, a pass over it and, when   *)
(* the pass did not find where to resume, head().  QuietRecovery = FALSE   *)
(* is the code: anything may be appended between the two.  TRUE leaves out *)
(* the schedules in which something is.                                    *)
(***************************************************************************)
EXTENDS SlotEntries

CONSTANTS
  BatchSize,      \* BatchConfig::batch_size
  QuietRecovery,  \* nothing is appended between a recovery's two reads
  MaxSlots,       \* bound: slots the sequencer commits
  MaxOther,       \* bound: entries of other kinds
  MaxCrashes      \* bound: crashes of the two stages together

\* With a batch size of 0 the first entry would flush an empty batch and
\* `first().unwrap()` would panic (prove/mod.rs:194, 210); main.rs:84-87 passes 10.
ASSUME PipelineAssumption ==
  /\ BatchSize \in Nat \ {0}
  /\ QuietRecovery \in BOOLEAN
  /\ MaxSlots \in Nat
  /\ MaxOther \in Nat
  /\ MaxCrashes \in Nat

VARIABLES
  log,
  attester, attCursor, batchEnd,
  prover, proCursor, at, proNext, awaiting, pending, flushing, error,
  crashes

A == INSTANCE Attester
P == INSTANCE Prover

attVars == <<attester, attCursor, batchEnd>>
proVars ==
  <<prover, proCursor, at, proNext, awaiting, pending, flushing, error>>
vars == <<log, attVars, proVars, crashes>>

-----------------------------------------------------------------------------
Undisturbed ==
  QuietRecovery => attester # "recovering" /\ prover # "recovering"

\* The sequencer closes the next slot.
CommitNext ==
  /\ Undisturbed
  /\ Cardinality(Commits(log)) < MaxSlots
  /\ log' = Append(log, SlotCommitted(Cardinality(Commits(log))))
  /\ UNCHANGED <<attVars, proVars, crashes>>

\* The gate admits an intent or the sequencer drops one.
AppendOther ==
  /\ Undisturbed
  /\ Cardinality(Of(log, {"Other"})) < MaxOther
  /\ log' = Append(log, Other)
  /\ UNCHANGED <<attVars, proVars, crashes>>

Attest ==
  /\ prover = "recovering" => ~ QuietRecovery
  /\ A!AttStep
  /\ UNCHANGED <<proVars, crashes>>

Prove ==
  /\ attester = "recovering" => ~ QuietRecovery
  /\ P!ProStep
  /\ UNCHANGED <<attVars, crashes>>

\* A prover that returned an error is restarted like one that was killed.
Crash ==
  /\ crashes < MaxCrashes
  /\ crashes' = crashes + 1
  /\ \/ A!CrashAttester /\ UNCHANGED proVars
     \/ P!CrashProver /\ UNCHANGED attVars

Init == log = <<>> /\ crashes = 0 /\ A!AttInit /\ P!ProInit

Next == CommitNext \/ AppendOther \/ Attest \/ Prove \/ Crash

Spec == Init /\ [][Next]_vars

\* The runtime polls both stages, the enclave and the backend answer, and the
\* flush timer keeps firing.  The sequencer's slot timer does too.  A stage is
\* never kept from taking its next step, so weak fairness is enough.
FairSpec == Spec /\ WF_vars(Attest) /\ WF_vars(Prove) /\ WF_vars(CommitNext)

-----------------------------------------------------------------------------
(* Properties.                                                             *)

TypeOK ==
  /\ log \in Seq(SlotEntry)
  /\ attester \in {"down", "recovering", "waiting", "working"}
  /\ attCursor \in 0..Len(log)
  /\ batchEnd \in 0..Len(log)
  /\ prover \in {"down", "recovering", "waiting", "working", "failed"}
  /\ proCursor \in 0..Len(log)
  /\ at \in 0..proCursor
  /\ proNext \in Nat
  /\ awaiting \subseteq Nat
  /\ pending \in Seq(Nat)
  /\ flushing \in BOOLEAN
  /\ error \in P!ProveError \cup {"none"}
  /\ crashes \in Nat

\* SlotPipeline implements the life of a slot that SlotLife promises: what the
\* stages append, in their own time and through their own crashes, takes every
\* slot one stage on, in turn, and never back (log.rs:55-81).
Life == INSTANCE SlotLife WITH
          Slots <- 0..MaxSlots-1,
          stage <- [s \in 0..MaxSlots-1 |-> StageIn(log, s)]

LifeImplemented == Life!Spec

\* A slot is ruled on once, after it was committed: a restart in the middle of
\* a batch, or entries in between, must not have the enclave rule again
\* (attest.rs:206-211, 244-245).
OneRulingPerSlot ==
  \A p \in Rulings(log) :
    /\ \E q \in Commits(log) : q < p /\ log[q].slot = log[p].slot
    /\ \A q \in Rulings(log) : log[p].slot = log[q].slot => p = q

\* "Slots committed before the attester started must still be attested, in
\* order" (attest.rs:996): rulings leave no slot out.
RulingsInOrder ==
  \A p \in Rulings(log) :
    log[p].slot = Cardinality({q \in Rulings(log) : q < p})

\* SlotsProven claims a contiguous range, and every slot of it was attested
\* before (prove/mod.rs:176-188); nothing is judged twice, whatever the prover
\* forgot in a crash (prove/mod.rs:230-252).
VerdictsCoverAttestedOnce ==
  \A p \in Verdicts(log) :
    /\ log[p].from_slot =< log[p].to_slot
    /\ \A s \in Covers(log, p) :
         /\ \E q \in Of(log, {"SlotAttested"}) : q < p /\ log[q].slot = s
         /\ \A q \in Of(log, {"AttestFailed"}) : log[q].slot # s
         /\ \A q \in Verdicts(log) \ {p} : s \notin Covers(log, q)

\* The prover's two maps mirror the log it has read: what is queued is the
\* run of attested slots without a verdict that ends at next_slot, and what
\* waits is what was committed and not ruled on (prove/mod.rs:117-122).
QueueMirrorsTheLog ==
  prover \in {"waiting", "working"} =>
    LET read == SubSeq(log, 1, at)
    IN  /\ pending = [k \in 1..Len(pending) |-> pending[1] + k - 1]
        /\ Len(pending) > 0 => pending[Len(pending)] < proNext
        /\ {pending[k] : k \in DOMAIN pending}
             = {s \in AttestedSlots(read) : s < proNext} \ JudgedSlots(log)
        /\ {s \in CommittedSlots(read) : s >= proNext} \subseteq awaiting
        /\ \A s \in awaiting : s >= proNext

\* The prover runs strictly behind the attester, in order, so it never meets a
\* gap (README.md:59-61).
ProverNeverFails == prover # "failed"

\* "Slot {slot} was attested but never committed" (prove/mod.rs:111): the
\* prover says so only of a slot the log has no commitment of.
MissingCommitIsTrue ==
  error = "MissingCommit" => proNext \notin CommittedSlots(log)

\* Every slot committed is refused, or attested and then judged, through the
\* crashes of either stage, a batch that never fills included
\* (attest.rs:201-246, prove/mod.rs:199-203).
EverySlotSettles ==
  \A s \in 0..MaxSlots-1 :
    s \in CommittedSlots(log) ~> StageIn(log, s) \in Life!Final
=============================================================================
