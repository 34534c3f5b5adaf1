------------------------------ MODULE Doorbell ------------------------------
(***************************************************************************)
(* How a task that reads the log learns that there is more of it: MemLog's *)
(* append and append_batch push under the write lock and ring the doorbell *)
(* after dropping it (log.rs:140-165); every stage subscribes, arms its    *)
(* first wake-up, recovers a cursor and then loops: wait for the bell,     *)
(* read what is past the cursor (sequencer.rs:187-207, attest.rs:193-211,  *)
(* prove/mod.rs:138-154, projection.rs:279-297).                           *)
(*                                                                         *)
(* The entries do not matter here, only how many there are.  The doorbell  *)
(* is a tokio watch channel: a receiver knows whether it has seen the      *)
(* newest value, and never looks at the value itself.                      *)
(***************************************************************************)
EXTENDS Integers, FiniteSets

CONSTANTS
  Appenders,    \* tasks that append: clients' submissions and the stages
  Readers,      \* stages that follow the log
  Fallible,     \* readers that carry on when read_from fails
  MaxBatch,     \* bound: entries in one append_batch
  MaxHead       \* bound: entries in the log

ASSUME DoorbellAssumption ==
  /\ Fallible \subseteq Readers
  /\ MaxBatch \in Nat \ {0}
  /\ MaxHead \in Nat

VARIABLES
  head,       \* entries in the log
  appender,   \* per appender: "idle", or "pushed" with the bell still to ring
  reader,     \* per reader: "off", "waiting" for the bell or "reading"
  unseen,     \* per reader: the channel holds a value it has not seen
  cursor,     \* per reader: entries read
  skipped     \* per reader: its last read failed and was passed over

vars == <<head, appender, reader, unseen, cursor, skipped>>

-----------------------------------------------------------------------------
(* The log.                                                                *)

\* Mutant of Push: a batch rings nothing (log.rs:154-157 tells of this bug).
PushBatchSilently(a, n) ==
  /\ appender[a] = "idle"
  /\ head + n =< MaxHead
  /\ head' = head + n
  /\ appender' = [appender EXCEPT ![a] = IF n = 1 THEN "pushed" ELSE "idle"]
  /\ UNCHANGED <<reader, unseen, cursor, skipped>>

\* The write lock is held while n entries are pushed: 1 for append.
Push(a, n) ==
  /\ appender[a] = "idle"
  /\ head + n =< MaxHead
  /\ head' = head + n
  /\ appender' = [appender EXCEPT ![a] = "pushed"]
  /\ UNCHANGED <<reader, unseen, cursor, skipped>>

\* send_replace, after the lock is dropped: every receiver has news.
Ring(a) ==
  /\ appender[a] = "pushed"
  /\ appender' = [appender EXCEPT ![a] = "idle"]
  /\ unseen' = [r \in Readers |-> TRUE]
  /\ UNCHANGED <<head, reader, cursor, skipped>>

-----------------------------------------------------------------------------
(* A reader.                                                               *)

\* Mutant of Start: no mark_changed.
StartUnmarked(r) ==
  /\ reader[r] = "off"
  /\ reader' = [reader EXCEPT ![r] = "waiting"]
  /\ unseen' = [unseen EXCEPT ![r] = FALSE]
  /\ \E c \in 0..head : cursor' = [cursor EXCEPT ![r] = c]
  /\ skipped' = [skipped EXCEPT ![r] = FALSE]
  /\ UNCHANGED <<head, appender>>

\* subscribe, then mark_changed, then recover.  Where a stage resumes depends on
\* its own entries; the projector always starts at the beginning.
Start(r) ==
  /\ reader[r] = "off"
  /\ reader' = [reader EXCEPT ![r] = "waiting"]
  /\ unseen' = [unseen EXCEPT ![r] = TRUE]
  /\ \E c \in 0..head : cursor' = [cursor EXCEPT ![r] = c]
  /\ skipped' = [skipped EXCEPT ![r] = FALSE]
  /\ UNCHANGED <<head, appender>>

\* changed() returns and marks the value as seen before the log is read.
Wake(r) ==
  /\ reader[r] = "waiting"
  /\ unseen[r]
  /\ unseen' = [unseen EXCEPT ![r] = FALSE]
  /\ reader' = [reader EXCEPT ![r] = "reading"]
  /\ UNCHANGED <<head, appender, cursor, skipped>>

\* read_from copies the tail under the read lock.
Read(r) ==
  /\ reader[r] = "reading"
  /\ cursor' = [cursor EXCEPT ![r] = head]
  /\ skipped' = [skipped EXCEPT ![r] = FALSE]
  /\ reader' = [reader EXCEPT ![r] = "waiting"]
  /\ UNCHANGED <<head, appender, unseen>>

\* The projector's `Err(_) => continue` (projection.rs:288-291).
SkipRead(r) ==
  /\ r \in Fallible
  /\ reader[r] = "reading"
  /\ skipped' = [skipped EXCEPT ![r] = TRUE]
  /\ reader' = [reader EXCEPT ![r] = "waiting"]
  /\ UNCHANGED <<head, appender, unseen, cursor>>

\* The other stages return the error, and any stage may be restarted.
Stop(r) ==
  /\ reader[r] # "off"
  /\ reader' = [reader EXCEPT ![r] = "off"]
  /\ UNCHANGED <<head, appender, unseen, cursor, skipped>>

Init ==
  /\ head = 0
  /\ appender = [a \in Appenders |-> "idle"]
  /\ reader = [r \in Readers |-> "off"]
  /\ unseen = [r \in Readers |-> FALSE]
  /\ cursor = [r \in Readers |-> 0]
  /\ skipped = [r \in Readers |-> FALSE]

Next ==
  \/ \E a \in Appenders : (\E n \in 1..MaxBatch : Push(a, n)) \/ Ring(a)
  \/ \E r \in Readers : Start(r) \/ Wake(r) \/ Read(r) \/ SkipRead(r) \/ Stop(r)

Spec == Init /\ [][Next]_vars

\* An append is not interrupted between push and ring, and the runtime keeps
\* polling a stage that can make progress.  Nothing makes anyone append.
Fairness ==
  /\ \A a \in Appenders : WF_vars(Ring(a))
  /\ \A r \in Readers : WF_vars(Start(r)) /\ WF_vars(Wake(r)) /\ WF_vars(Read(r))

FairSpec == Spec /\ Fairness

-----------------------------------------------------------------------------
(* Properties.                                                             *)

\* No wake-up is lost: a reader asleep with entries unread has the bell ringing,
\* or an append is about to ring it, though bells coalesce, two appenders may
\* ring in the other order than they pushed, and the bell is marked as seen
\* before the log is read.  The one exception is a reader that passed over a
\* failed read.
NoLostWakeup ==
  \A r \in Readers :
    /\ reader[r] = "waiting"
    /\ cursor[r] < head
    /\ ~ skipped[r]
    => unseen[r] \/ \E a \in Appenders : appender[a] = "pushed"

\* Every entry reaches every reader that keeps running, whether or not anything
\* is appended after it ("a task started against a non-empty log would sit idle
\* on its backlog until the next append", sequencer.rs:189-192).
EveryEntryIsRead ==
  \A r \in Readers \ Fallible : \A n \in 1..MaxHead :
    head >= n ~> (cursor[r] >= n \/ []<>(reader[r] = "off"))
=============================================================================
