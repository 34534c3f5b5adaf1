--------------------------- MODULE DoorbellProofs ---------------------------
(***************************************************************************)
(* No wake-up is lost (Doorbell), for any number of appenders and readers, *)
(* batches of any length and a log of any length.  Fairness has no part in *)
(* it: it is what EveryEntryIsRead rests on.                               *)
(***************************************************************************)
EXTENDS Doorbell, TLAPS

\* What NoLostWakeup needs to be inductive: the tables are tables over every
\* appender and reader, and no cursor is ahead of the log.
DoorbellType ==
  /\ head \in Nat
  /\ appender \in [Appenders -> {"idle", "pushed"}]
  /\ reader \in [Readers -> {"off", "waiting", "reading"}]
  /\ unseen \in [Readers -> BOOLEAN]
  /\ cursor \in [Readers -> Int]
  /\ \A r \in Readers : 0 =< cursor[r] /\ cursor[r] =< head
  /\ skipped \in [Readers -> BOOLEAN]

\* An appender's step keeps the tables and loses no wake-up: whoever pushed
\* is about to ring, and whoever rang has told every reader.
LEMMA AppenderKeeps ==
  ASSUME DoorbellType, NoLostWakeup, NEW a \in Appenders,
         (\E n \in 1..MaxBatch : Push(a, n)) \/ Ring(a)
  PROVE  DoorbellType' /\ NoLostWakeup'
<1>1. ASSUME NEW n \in 1..MaxBatch, Push(a, n)
      PROVE  DoorbellType' /\ NoLostWakeup'
  <2>1. /\ head' = head + n
        /\ appender' = [appender EXCEPT ![a] = "pushed"]
        /\ UNCHANGED <<reader, unseen, cursor, skipped>>
    BY <1>1 DEF Push
  <2>2. n \in Nat
    BY DoorbellAssumption
  <2>3. DoorbellType'
    BY <2>1, <2>2 DEF DoorbellType
  <2>4. appender'[a] = "pushed"
    BY <2>1 DEF DoorbellType
  <2>5. NoLostWakeup'
    BY <2>4 DEF NoLostWakeup
  <2>6. QED
    BY <2>3, <2>5
<1>2. CASE Ring(a)
  <2>1. /\ appender' = [appender EXCEPT ![a] = "idle"]
        /\ unseen' = [r \in Readers |-> TRUE]
        /\ UNCHANGED <<head, reader, cursor, skipped>>
    BY <1>2 DEF Ring
  <2>2. DoorbellType'
    BY <2>1 DEF DoorbellType
  <2>3. NoLostWakeup'
    BY <2>1 DEF NoLostWakeup
  <2>4. QED
    BY <2>2, <2>3
<1>3. QED
  BY <1>1, <1>2

\* A reader's step keeps the tables and loses no wake-up: it only goes to
\* sleep with nothing left to read, or with its first wake-up armed, or after
\* passing over a failed read.
LEMMA ReaderKeeps ==
  ASSUME DoorbellType, NoLostWakeup, NEW r \in Readers,
         Start(r) \/ Wake(r) \/ Read(r) \/ SkipRead(r) \/ Stop(r)
  PROVE  DoorbellType' /\ NoLostWakeup'
<1>1. CASE Start(r)
  <2>1. PICK c \in 0..head : cursor' = [cursor EXCEPT ![r] = c]
    BY <1>1 DEF Start
  <2>2. DoorbellType'
    BY <1>1, <2>1 DEF Start, DoorbellType
  <2>3. NoLostWakeup'
    BY <1>1, <2>1 DEF Start, DoorbellType, NoLostWakeup
  <2>4. QED
    BY <2>2, <2>3
<1>2. CASE Wake(r)
  BY <1>2 DEF Wake, DoorbellType, NoLostWakeup
<1>3. CASE Read(r)
  BY <1>3 DEF Read, DoorbellType, NoLostWakeup
<1>4. CASE SkipRead(r)
  BY <1>4 DEF SkipRead, DoorbellType, NoLostWakeup
<1>5. CASE Stop(r)
  BY <1>5 DEF Stop, DoorbellType, NoLostWakeup
<1>6. QED
  BY <1>1, <1>2, <1>3, <1>4, <1>5

\* A reader asleep with entries unread has the bell ringing or about to ring,
\* whatever the interleaving of pushes, rings, wakes and restarts, because
\* every stage marks the bell as seen before it reads and arms it before it
\* recovers (log.rs:140-165, sequencer.rs:187-207).
THEOREM WakeupsAreKept == Spec => []NoLostWakeup
<1>1. Init => DoorbellType /\ NoLostWakeup
  BY DEF Init, DoorbellType, NoLostWakeup
<1>2. DoorbellType /\ NoLostWakeup /\ [Next]_vars => DoorbellType' /\ NoLostWakeup'
  <2> SUFFICES ASSUME DoorbellType, NoLostWakeup, [Next]_vars
               PROVE  DoorbellType' /\ NoLostWakeup'
    OBVIOUS
  <2>1. ASSUME NEW a \in Appenders,
               (\E n \in 1..MaxBatch : Push(a, n)) \/ Ring(a)
        PROVE  DoorbellType' /\ NoLostWakeup'
    BY <2>1, AppenderKeeps
  <2>2. ASSUME NEW r \in Readers,
               Start(r) \/ Wake(r) \/ Read(r) \/ SkipRead(r) \/ Stop(r)
        PROVE  DoorbellType' /\ NoLostWakeup'
    BY <2>2, ReaderKeeps
  <2>3. CASE UNCHANGED vars
    BY <2>3 DEF vars, DoorbellType, NoLostWakeup
  <2>4. QED
    BY <2>1, <2>2, <2>3 DEF Next
<1>3. QED
  BY <1>1, <1>2, PTL DEF Spec
=============================================================================
