------------------------------ MODULE Attester ------------------------------
(***************************************************************************)
(* The attester (attest.rs:193-274): follows the log, has the enclave rule *)
(* on each committed slot and appends the ruling.                          *)
(*                                                                         *)
(* A batch is the tail that was in the log when the attester read it.  The *)
(* log only grows, so the copy is the range up to batchEnd.  The enclave's *)
(* await reads and writes nothing of the attester's: other tasks' steps    *)
(* during it are their steps before Rule, and a crash during it is a crash *)
(* before Rule.                                                            *)
(***************************************************************************)
EXTENDS SlotEntries

VARIABLES
  log,        \* the shared log
  attester,   \* "down", "recovering", "waiting" or "working"
  attCursor,  \* entries dealt with
  batchEnd    \* the batch is log[attCursor + 1 .. batchEnd]

attVars == <<attester, attCursor, batchEnd>>

AttInit ==
  /\ attester = "down"
  /\ attCursor = 0
  /\ batchEnd = 0

\* Mutant of RecoverAttester: resume at the newest slot ruled on.
RecoverAtNewest ==
  /\ attester = "down"
  /\ LET newest == CHOOSE s \in RuledSlots(log) : \A r \in RuledSlots(log) : r =< s
     IN  attCursor' = IF RuledSlots(log) = {} THEN 0 ELSE CommitOf(log, newest) - 1
  /\ attester' = "waiting"
  /\ UNCHANGED <<log, batchEnd>>

\* recover_attester, its pass over the log: resume at the commitment of the
\* first slot nobody has ruled on.
RecoverAttester ==
  /\ attester = "down"
  /\ LET newest == CHOOSE s \in RuledSlots(log) : \A r \in RuledSlots(log) : r =< s
         next == newest + 1
     IN  \/ /\ RuledSlots(log) = {}
            /\ attester' = "waiting"
            /\ attCursor' = 0
         \/ /\ RuledSlots(log) # {}
            /\ next \in CommittedSlots(log)
            /\ attester' = "waiting"
            /\ attCursor' = CommitOf(log, next) - 1
         \/ /\ RuledSlots(log) # {}
            /\ next \notin CommittedSlots(log)
            /\ attester' = "recovering"
            /\ UNCHANGED attCursor
  /\ UNCHANGED <<log, batchEnd>>

\* `unwrap_or_else(|| log.head())`: "nothing newer committed yet", read anew.
ResumeAtHead ==
  /\ attester = "recovering"
  /\ attester' = "waiting"
  /\ attCursor' = Len(log)
  /\ UNCHANGED <<log, batchEnd>>

\* The doorbell rang: collect the tail.
ReadBatch ==
  /\ attester = "waiting"
  /\ attCursor < Len(log)
  /\ attester' = "working"
  /\ batchEnd' = Len(log)
  /\ UNCHANGED <<log, attCursor>>

\* Moves past the entry just dealt with; the batch ends with its last entry.
Advance ==
  /\ attCursor' = attCursor + 1
  /\ attester' = IF attCursor + 1 = batchEnd THEN "waiting" ELSE "working"
  /\ UNCHANGED batchEnd

\* Any entry but a commitment only moves the cursor.
Skip ==
  /\ attester = "working"
  /\ log[attCursor + 1].kind # "SlotCommitted"
  /\ Advance
  /\ UNCHANGED log

\* The ruling is appended, then the cursor moves.  The slot fails when its
\* commitment does not match its contents or when the enclave returns an error.
Rule(ruling) ==
  /\ attester = "working"
  /\ log[attCursor + 1].kind = "SlotCommitted"
  /\ log' = Append(log, ruling)
  /\ Advance

Attests == Rule(SlotAttested(log[attCursor + 1].slot))
Refuses == Rule(AttestFailed(log[attCursor + 1].slot))

AttStep == RecoverAttester \/ ResumeAtHead \/ ReadBatch \/ Skip \/ Attests \/ Refuses

\* The task is gone, and what it held with it.
CrashAttester ==
  /\ attester # "down"
  /\ attester' = "down"
  /\ attCursor' = 0
  /\ batchEnd' = 0
  /\ UNCHANGED log
=============================================================================
