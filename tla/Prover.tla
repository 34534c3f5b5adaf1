------------------------------- MODULE Prover -------------------------------
(***************************************************************************)
(* The prover (prove/mod.rs:115-252): collects attested slots into batches *)
(* and appends a verdict on each batch.                                    *)
(*                                                                         *)
(* The doorbell branch moves the cursor past the whole batch and then goes *)
(* through a copy of it; as in Attester the copy is a range of the log, up *)
(* to cursor.  A flush takes the pending slots, awaits the backend and     *)
(* appends: nothing of the prover's is read or written during the await,   *)
(* so it is one step.                                                      *)
(***************************************************************************)
EXTENDS SlotEntries

CONSTANT BatchSize   \* BatchConfig::batch_size

VARIABLES
  log,         \* the shared log
  prover,      \* "down", "recovering", "waiting", "working" or "failed"
  proCursor,   \* entries read
  at,          \* the batch still to go through is log[at + 1 .. proCursor]
  proNext,     \* next_slot: the first slot not yet seen ruled on
  awaiting,    \* slots committed whose ruling has not been read
  pending,     \* attested slots queued for the next proof, in order
  flushing,    \* a flush is due before anything else happens
  error        \* why the prover returned, "none" while it has not

proVars ==
  <<prover, proCursor, at, proNext, awaiting, pending, flushing, error>>

\* Why the prover returns, reads of the log that fail aside.
ProveError == {"SlotGap", "MissingCommit"}

ProInit ==
  /\ prover = "down"
  /\ proCursor = 0
  /\ at = 0
  /\ proNext = 0
  /\ awaiting = {}
  /\ pending = <<>>
  /\ flushing = FALSE
  /\ error = "none"

\* Mutant of FirstUnjudged: past the newest slot attested.
FirstUnattested(entries) ==
  LET tops == AttestedSlots(entries)
  IN  IF tops = {} THEN 0
      ELSE (CHOOSE t \in tops : \A u \in tops : u =< t) + 1

\* next_slot in recover_prover: past the newest slot any verdict covers.
FirstUnjudged(entries) ==
  LET tops == {entries[p].to_slot : p \in Verdicts(entries)}
  IN  IF tops = {} THEN 0
      ELSE (CHOOSE t \in tops : \A u \in tops : u =< t) + 1

\* Mutant of RecoverProver: resume after the commitment.
RecoverPastCommit ==
  /\ prover = "down"
  /\ proNext' = FirstUnjudged(log)
  /\ \/ /\ FirstUnjudged(log) \in CommittedSlots(log)
        /\ prover' = "waiting"
        /\ proCursor' = CommitOf(log, FirstUnjudged(log))
        /\ at' = proCursor'
     \/ /\ FirstUnjudged(log) \notin CommittedSlots(log)
        /\ prover' = "recovering"
        /\ UNCHANGED <<proCursor, at>>
  /\ UNCHANGED <<log, awaiting, pending, flushing, error>>

\* recover_prover, its pass over the log.
RecoverProver ==
  /\ prover = "down"
  /\ proNext' = FirstUnjudged(log)
  /\ \/ /\ FirstUnjudged(log) \in CommittedSlots(log)
        /\ prover' = "waiting"
        /\ proCursor' = CommitOf(log, FirstUnjudged(log)) - 1
        /\ at' = proCursor'
     \/ /\ FirstUnjudged(log) \notin CommittedSlots(log)
        /\ prover' = "recovering"
        /\ UNCHANGED <<proCursor, at>>
  /\ UNCHANGED <<log, awaiting, pending, flushing, error>>

\* `unwrap_or_else(|| log.head())`, read after the pass.
ResumeProverAtHead ==
  /\ prover = "recovering"
  /\ prover' = "waiting"
  /\ proCursor' = Len(log)
  /\ at' = Len(log)
  /\ UNCHANGED <<log, proNext, awaiting, pending, flushing, error>>

\* Mutant of CollectBatch: the cursor overshoots.
CollectBeyond ==
  /\ prover = "waiting"
  /\ ~ flushing
  /\ proCursor < Len(log)
  /\ prover' = "working"
  /\ proCursor' = Len(log) + 1
  /\ UNCHANGED <<log, at, proNext, awaiting, pending, flushing, error>>

\* The doorbell branch of select!, up to its loop.
CollectBatch ==
  /\ prover = "waiting"
  /\ ~ flushing
  /\ proCursor < Len(log)
  /\ prover' = "working"
  /\ proCursor' = Len(log)
  /\ UNCHANGED <<log, at, proNext, awaiting, pending, flushing, error>>

\* One turn of the loop is over: on to the next entry, or back to select!.
NextEntry ==
  /\ at' = at + 1
  /\ prover' = IF at + 1 = proCursor THEN "waiting" ELSE "working"
  /\ UNCHANGED <<log, proCursor, error>>

Taking(kind) ==
  prover = "working" /\ ~ flushing /\ log[at + 1].kind = kind

\* A commitment waits for its ruling.
TakeCommit ==
  /\ Taking("SlotCommitted")
  /\ awaiting' = awaiting \cup {log[at + 1].slot}
  /\ NextEntry
  /\ UNCHANGED <<proNext, pending>>
  /\ flushing' = (Len(pending) >= BatchSize)

\* A ruling on a slot before next_slot comes round again after recovery: the
\* loop continues, without the check at its end.
TakeOldRuling ==
  /\ Taking("SlotAttested") \/ Taking("AttestFailed")
  /\ log[at + 1].slot < proNext
  /\ NextEntry
  /\ UNCHANGED <<proNext, awaiting, pending, flushing>>

\* Mutant of TakeAttested: the slot goes on waiting.
TakeAttestedKept ==
  /\ Taking("SlotAttested")
  /\ log[at + 1].slot = proNext
  /\ proNext \in awaiting
  /\ pending' = Append(pending, proNext)
  /\ proNext' = proNext + 1
  /\ flushing' = (Len(pending') >= BatchSize)
  /\ NextEntry
  /\ UNCHANGED awaiting

\* An attestation releases its slot for proving.
TakeAttested ==
  /\ Taking("SlotAttested")
  /\ log[at + 1].slot = proNext
  /\ proNext \in awaiting
  /\ awaiting' = awaiting \ {proNext}
  /\ pending' = Append(pending, proNext)
  /\ proNext' = proNext + 1
  /\ flushing' = (Len(pending') >= BatchSize)
  /\ NextEntry

\* Mutant of TakeAttestFailed: the batch stays open.
TakeAttestFailedOpen ==
  /\ Taking("AttestFailed")
  /\ log[at + 1].slot = proNext
  /\ awaiting' = awaiting \ {proNext}
  /\ proNext' = proNext + 1
  /\ flushing' = FALSE
  /\ NextEntry
  /\ UNCHANGED pending

\* A slot that failed attestation is never proven, and closes the batch.
TakeAttestFailed ==
  /\ Taking("AttestFailed")
  /\ log[at + 1].slot = proNext
  /\ awaiting' = awaiting \ {proNext}
  /\ proNext' = proNext + 1
  /\ flushing' = (pending # <<>>)
  /\ NextEntry
  /\ UNCHANGED pending

\* Verdicts and intents pass by.
TakeOther ==
  /\ prover = "working" /\ ~ flushing
  /\ log[at + 1].kind \notin {"SlotCommitted", "SlotAttested", "AttestFailed"}
  /\ NextEntry
  /\ UNCHANGED <<proNext, awaiting, pending>>
  /\ flushing' = (Len(pending) >= BatchSize)

\* ProveError::SlotGap and ProveError::MissingCommit end the task.
Fail ==
  /\ \/ /\ Taking("SlotAttested") \/ Taking("AttestFailed")
        /\ log[at + 1].slot > proNext
        /\ error' = "SlotGap"
     \/ /\ Taking("SlotAttested")
        /\ log[at + 1].slot = proNext
        /\ proNext \notin awaiting
        /\ error' = "MissingCommit"
  /\ prover' = "failed"
  /\ UNCHANGED <<log, proCursor, at, proNext, awaiting, pending, flushing>>

\* Mutant of FlushTimer: only full batches are proven.
FlushTimerOff == FALSE

\* flush_timer ticked.
FlushTimer ==
  /\ prover = "waiting"
  /\ ~ flushing
  /\ pending # <<>>
  /\ flushing' = TRUE
  /\ UNCHANGED <<log, prover, proCursor, at, proNext, awaiting, pending, error>>

\* The backend answered for the whole batch, from first to last.
Flush(verdict) ==
  /\ flushing
  /\ prover \in {"waiting", "working"}
  /\ log' = Append(log, verdict)
  /\ pending' = <<>>
  /\ flushing' = FALSE
  /\ UNCHANGED <<prover, proCursor, at, proNext, awaiting, error>>

Proves       == Flush(SlotsProven(pending[1], pending[Len(pending)]))
FailsToProve == Flush(ProveFailed(pending[1], pending[Len(pending)]))

ProStep ==
  \/ RecoverProver \/ ResumeProverAtHead \/ CollectBatch
  \/ TakeCommit \/ TakeOldRuling \/ TakeAttested \/ TakeAttestFailed \/ TakeOther
  \/ Fail \/ FlushTimer \/ Proves \/ FailsToProve

\* The task is gone, and what it held with it.
CrashProver ==
  /\ prover # "down"
  /\ prover' = "down"
  /\ proCursor' = 0
  /\ at' = 0
  /\ proNext' = 0
  /\ awaiting' = {}
  /\ pending' = <<>>
  /\ flushing' = FALSE
  /\ error' = "none"
  /\ UNCHANGED log
=============================================================================
