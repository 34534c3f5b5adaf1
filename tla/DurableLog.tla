----------------------------- MODULE DurableLog -----------------------------
(***************************************************************************)
(* RedbLog (log.rs:191-322): the log as a table on disk, whose writers     *)
(* allocate a position, write, commit, store the head and ring the         *)
(* doorbell, one writer at a time, and whose readers take snapshots of the *)
(* table without asking the writers.  The process may crash between any    *)
(* two of these steps; open() then finds the head in the table, or, when   *)
(* it cannot open the table, takes the log for a new one: that process is  *)
(* blind to the rows there are, and writes over them.                      *)
(*                                                                         *)
(* redb itself is external.  What the code needs of it: a transaction is   *)
(* all or nothing, a snapshot is what was committed when it was taken, a   *)
(* commit that returned Ok survives a crash, and one that returned an      *)
(* error changes nothing that this process sees but may be found in the    *)
(* file when it is opened again.                                           *)
(***************************************************************************)
EXTENDS Integers, Sequences, FiniteSets, SequencesExt

CONSTANTS
  Entries,      \* payloads
  Writers,      \* tasks that append
  Readers,      \* tasks that follow the log
  Patient,      \* readers that carry on when read_from fails (the projector)
  MaxBatch,     \* bound: entries in one append_batch
  MaxRows,      \* bound: rows in the table
  MaxLegacy,    \* bound: rows another build has left in the file
  MaxCrashes,   \* bound: crashes
  MaxFaults     \* bound: commits, reads, rows and opens of the table that fail,
                \* together

ASSUME DurableLogAssumption ==
  /\ "nobody" \notin Writers
  /\ Patient \subseteq Readers
  /\ MaxBatch \in Nat \ {0}
  /\ {MaxRows, MaxLegacy, MaxCrashes, MaxFaults} \subseteq Nat

VARIABLES
  table,      \* ENTRIES as committed: position -> bytes
  doubt,      \* the table a failed commit may have left in the file
  up,         \* open() has returned
  blind,      \* the last open() put the head at 0 with rows in the table
  overwritten,\* positions of rows written over since then
  head,       \* the atomic
  appending,  \* who holds the mutex, or Nobody
  writer,     \* per writer, the append it is in
  reader,     \* per reader: "off", "waiting" for the bell or "reading"
  unseen,     \* per reader: the channel holds a value it has not seen
  cursor,     \* per reader: the next position it asks for
  skipped,    \* per reader: its last read failed and was passed over
  missed,     \* per reader: positions its cursor passed that it was not given
  known,      \* what callers and readers were told: <<position, entry>>
  crashes, faults, lostRows

writerVars == <<table, doubt, head, appending, writer>>
readerVars == <<reader, unseen, cursor, skipped, missed>>
openVars   == <<up, blind, overwritten>>
vars == <<writerVars, readerVars, openVars, known, crashes, faults, lostRows>>

Nobody == "nobody"
Idle   == [pc |-> "idle"]

-----------------------------------------------------------------------------
(* Rows.                                                                   *)

SCHEMA_VERSION == 1

\* The version, then the postcard bytes, which decode to the entry they encode.
encode(e) == [version |-> SCHEMA_VERSION, entry |-> e]

decodes(row) == row.version = SCHEMA_VERSION

Positions(t) == DOMAIN t

\* Position::next of the last key, or zero.
NextPosition(t) ==
  IF Positions(t) = {} THEN 0
  ELSE (CHOOSE p \in Positions(t) : \A q \in Positions(t) : q =< p) + 1

\* insert: one row per entry from start on, over what is there.
Inserted(t, start, batch) ==
  [p \in Positions(t) \cup start .. start + Len(batch) - 1 |->
     IF p \in start .. start + Len(batch) - 1
     THEN encode(batch[p - start + 1]) ELSE t[p]]

-----------------------------------------------------------------------------
(* append and append_batch; append is a batch of one.                      *)

\* Mutant of Begin: no mutex.
BeginUnlocked(w, batch) ==
  /\ up
  /\ writer[w] = Idle
  /\ batch # <<>>
  /\ NextPosition(table) + Len(batch) =< MaxRows
  /\ appending' = w
  /\ writer' = [writer EXCEPT ![w] = [pc |-> "writing", start |-> head, batch |-> batch]]
  /\ UNCHANGED <<table, doubt, head, readerVars, openVars, known, crashes, faults, lostRows>>

\* The mutex is taken and the start position read.  Before that an empty batch
\* is refused with EmptyBatch, which changes nothing.
Begin(w, batch) ==
  /\ up
  /\ writer[w] = Idle
  /\ batch # <<>>
  /\ appending = Nobody
  /\ NextPosition(table) + Len(batch) =< MaxRows
  /\ appending' = w
  /\ writer' = [writer EXCEPT ![w] = [pc |-> "writing", start |-> head, batch |-> batch]]
  /\ UNCHANGED <<table, doubt, head, readerVars, openVars, known, crashes, faults, lostRows>>

\* The positions an append writes.
Taken(a) == a.start .. a.start + Len(a.batch) - 1

\* tx.commit() returns Ok: the rows are durable and in every later snapshot.
Commit(w) ==
  /\ writer[w].pc = "writing"
  /\ table' = Inserted(table, writer[w].start, writer[w].batch)
  /\ doubt' = table'
  /\ overwritten' = overwritten \cup (Taken(writer[w]) \cap Positions(table))
  /\ writer' = [writer EXCEPT ![w].pc = "committed"]
  /\ UNCHANGED <<head, appending, readerVars, up, blind, known,
                 crashes, faults, lostRows>>

\* Any step of the transaction fails and `?` returns: before the commit the
\* transaction is dropped, in the commit its rows are in doubt.
AppendFails(w) ==
  /\ writer[w].pc = "writing"
  /\ faults < MaxFaults
  /\ faults' = faults + 1
  /\ doubt' \in {doubt, Inserted(table, writer[w].start, writer[w].batch)}
  /\ appending' = Nobody
  /\ writer' = [writer EXCEPT ![w] = Idle]
  /\ UNCHANGED <<table, head, readerVars, openVars, known, crashes, lostRows>>

\* head.store(pos).
Publish(w) ==
  /\ writer[w].pc = "committed"
  /\ head' = writer[w].start + Len(writer[w].batch)
  /\ writer' = [writer EXCEPT ![w].pc = "published"]
  /\ UNCHANGED <<table, doubt, appending, readerVars, openVars, known, crashes, faults, lostRows>>

\* Mutant of Ring: the bell is left out.
RingNot(w) ==
  /\ writer[w].pc = "published"
  /\ known' = known \cup {<<writer[w].start + k - 1, writer[w].batch[k]>> :
                            k \in DOMAIN writer[w].batch}
  /\ appending' = Nobody
  /\ writer' = [writer EXCEPT ![w] = Idle]
  /\ UNCHANGED <<table, doubt, head, readerVars, openVars, crashes, faults, lostRows>>

\* send_replace, the answer, and the guard drops.  The answer is the last
\* position, from which the caller of append_batch knows them all.
Ring(w) ==
  /\ writer[w].pc = "published"
  /\ unseen' = [r \in Readers |-> TRUE]
  /\ known' = known \cup {<<writer[w].start + k - 1, writer[w].batch[k]>> :
                            k \in DOMAIN writer[w].batch}
  /\ appending' = Nobody
  /\ writer' = [writer EXCEPT ![w] = Idle]
  /\ UNCHANGED <<table, doubt, head, reader, cursor, skipped, missed, openVars,
                 crashes, faults, lostRows>>

-----------------------------------------------------------------------------
(* subscribe and read_from, as the stages use them (Doorbell has the same   *)
(* loop on the log in memory).                                             *)

\* subscribe and mark_changed; every stage's first read is from Position::ZERO.
Start(r) ==
  /\ up
  /\ reader[r] = "off"
  /\ reader' = [reader EXCEPT ![r] = "waiting"]
  /\ unseen' = [unseen EXCEPT ![r] = TRUE]
  /\ cursor' = [cursor EXCEPT ![r] = 0]
  /\ skipped' = [skipped EXCEPT ![r] = FALSE]
  /\ missed' = [missed EXCEPT ![r] = {}]
  /\ UNCHANGED <<writerVars, openVars, known, crashes, faults, lostRows>>

Wake(r) ==
  /\ reader[r] = "waiting"
  /\ unseen[r]
  /\ unseen' = [unseen EXCEPT ![r] = FALSE]
  /\ reader' = [reader EXCEPT ![r] = "reading"]
  /\ UNCHANGED <<writerVars, cursor, skipped, missed, openVars, known, crashes, faults, lostRows>>

\* The rows a snapshot has for r.
Ahead(r) == {p \in Positions(table) : p >= cursor[r]}

\* Mutant of Read: a row that does not decode is left out like one that cannot
\* be read.
ReadWhatDecodes(r) ==
  /\ reader[r] = "reading"
  /\ LET given == {p \in Ahead(r) : decodes(table[p])}
         next  == IF given = {} THEN cursor[r]
                  ELSE (CHOOSE p \in given : \A q \in given : q =< p) + 1
     IN  /\ cursor' = [cursor EXCEPT ![r] = next]
         /\ missed' = [missed EXCEPT ![r] = @ \cup {p \in Ahead(r) \ given : p < next}]
         /\ known' = known \cup {<<p, table[p].entry>> : p \in given}
  /\ skipped' = [skipped EXCEPT ![r] = FALSE]
  /\ reader' = [reader EXCEPT ![r] = "waiting"]
  /\ UNCHANGED <<writerVars, unseen, openVars, crashes, faults, lostRows>>

\* A row that cannot be read is left out (filter_map(|r| r.ok())), one that
\* does not decode fails the read, and the rest is what the reader gets.
Read(r) ==
  /\ reader[r] = "reading"
  /\ \E lost \in SUBSET Ahead(r) :
       LET given == Ahead(r) \ lost
           next  == IF given = {} THEN cursor[r]
                    ELSE (CHOOSE p \in given : \A q \in given : q =< p) + 1
       IN  /\ lost # {} => faults < MaxFaults
           /\ faults' = IF lost = {} THEN faults ELSE faults + 1
           /\ lostRows' = (lostRows \/ lost # {})
           /\ \A p \in given : decodes(table[p])
           /\ cursor' = [cursor EXCEPT ![r] = next]
           /\ missed' = [missed EXCEPT ![r] = @ \cup {p \in lost : p < next}]
           /\ known' = known \cup {<<p, table[p].entry>> : p \in given}
  /\ skipped' = [skipped EXCEPT ![r] = FALSE]
  /\ reader' = [reader EXCEPT ![r] = "waiting"]
  /\ UNCHANGED <<writerVars, unseen, openVars, crashes>>

\* read_from returns an error: a row does not decode (LogError::Decode), or the
\* transaction or the table cannot be opened.  The projector goes back to
\* waiting, any other stage ends.
ReadFails(r) ==
  /\ reader[r] = "reading"
  /\ \/ /\ \E p \in Ahead(r) : ~ decodes(table[p])
        /\ UNCHANGED faults
     \/ /\ faults < MaxFaults
        /\ faults' = faults + 1
  /\ reader' = [reader EXCEPT ![r] = IF r \in Patient THEN "waiting" ELSE "off"]
  /\ skipped' = [skipped EXCEPT ![r] = TRUE]
  /\ UNCHANGED <<writerVars, unseen, cursor, missed, openVars, known, crashes, lostRows>>

-----------------------------------------------------------------------------
(* Crash and open.                                                         *)

Crash ==
  /\ up
  /\ crashes < MaxCrashes
  /\ crashes' = crashes + 1
  /\ up' = FALSE
  /\ head' = 0
  /\ appending' = Nobody
  /\ writer' = [w \in Writers |-> Idle]
  /\ reader' = [r \in Readers |-> "off"]
  /\ unseen' = [r \in Readers |-> FALSE]
  /\ cursor' = [r \in Readers |-> 0]
  /\ skipped' = [r \in Readers |-> FALSE]
  /\ missed' = [r \in Readers |-> {}]
  /\ UNCHANGED <<table, doubt, blind, overwritten, known, faults, lostRows>>

\* Mutant of Open: the head is the last key, and not the one after it.
OpenAtLast ==
  /\ ~ up
  /\ up' = TRUE
  /\ table' \in {table, doubt}
  /\ doubt' = table'
  /\ head' = IF Positions(table') = {} THEN 0 ELSE NextPosition(table') - 1
  /\ blind' = FALSE
  /\ overwritten' = {}
  /\ UNCHANGED <<appending, writer, readerVars, known, crashes, faults, lostRows>>

\* The file is opened: a commit in doubt is there or not, and from now on that is
\* settled.  The head is recovered from the last key; the doorbell is new.  A
\* table that cannot be opened is taken for one that does not exist yet, whatever
\* the error (Err(_) => 0).  Any other failure is returned and nothing is up.
Open ==
  /\ ~ up
  /\ up' = TRUE
  /\ table' \in {table, doubt}
  /\ doubt' = table'
  /\ overwritten' = {}
  /\ \/ /\ head' = NextPosition(table')
        /\ blind' = FALSE
        /\ UNCHANGED faults
     \/ /\ Positions(table') # {}
        /\ faults < MaxFaults
        /\ faults' = faults + 1
        /\ head' = 0
        /\ blind' = TRUE
  /\ UNCHANGED <<appending, writer, readerVars, known, crashes, lostRows>>

\* The file may hold rows of a build with another schema.
Init ==
  /\ \E n \in 0..MaxLegacy :
       table = [p \in 0..n-1 |-> [version |-> 0, entry |-> "legacy"]]
  /\ doubt = table
  /\ up = FALSE
  /\ blind = FALSE
  /\ overwritten = {}
  /\ head = 0
  /\ appending = Nobody
  /\ writer = [w \in Writers |-> Idle]
  /\ reader = [r \in Readers |-> "off"]
  /\ unseen = [r \in Readers |-> FALSE]
  /\ cursor = [r \in Readers |-> 0]
  /\ skipped = [r \in Readers |-> FALSE]
  /\ missed = [r \in Readers |-> {}]
  /\ known = {}
  /\ crashes = 0
  /\ faults = 0
  /\ lostRows = FALSE

Batches == BoundedSeq(Entries, MaxBatch)

Next ==
  \/ \E w \in Writers :
       \/ \E batch \in Batches : Begin(w, batch)
       \/ Commit(w) \/ AppendFails(w) \/ Publish(w) \/ Ring(w)
  \/ \E r \in Readers : Start(r) \/ Wake(r) \/ Read(r) \/ ReadFails(r)
  \/ Crash \/ Open

Spec == Init /\ [][Next]_vars

\* append_batch has no await: once it holds the mutex it goes through.  Readers
\* are polled.  Nobody need append, and nothing makes a crashed process start.
Fairness ==
  /\ \A w \in Writers :
       WF_vars(Commit(w)) /\ WF_vars(Publish(w)) /\ WF_vars(Ring(w))
  /\ \A r \in Readers :
       WF_vars(Start(r)) /\ WF_vars(Wake(r)) /\ WF_vars(Read(r) \/ ReadFails(r))

FairSpec == Spec /\ Fairness

-----------------------------------------------------------------------------
(* Properties.                                                             *)

\* RedbLog is a shared log: through crashes, failed transactions, a head that
\* lags and a commit that turns up at the next start, the table only ever grows
\* at its end, and what an append returned or a reader was given stays at its
\* position (log.rs:197-202, 240-269).  Without the mutex "the second silently
\* overwrites the first".  Only the appends of a process whose open() was blind
\* overwrite anything, and nobody is ever told of an entry that is not there.
Log ==
  INSTANCE SharedLog
    WITH entries <- [k \in 1..Cardinality(Positions(table)) |-> table[k - 1].entry],
         Entries <- Entries \cup {"legacy"}

SharedLogImplemented == Log!Spec

\* The head and the rows agree whenever no append is under way, whichever way
\* the last one ended and whatever open() found, unless it was blind; the head
\* may lag, never lead (log.rs:200-201, 210-223, 244-245, 266).
HeadFollowsTheRows ==
  up =>
    /\ head =< NextPosition(table)
    /\ appending = Nobody => head = NextPosition(table) \/ blind

\* A reader is given every position its cursor passes, the last of one read and
\* the first of the next included, unless a row failed to read (log.rs:291) or
\* a blind process has written over the row that it was given.  Nothing else
\* drops an entry: before a row of another build, which it cannot decode, it
\* stops for good (log.rs:292-297).
NothingIsPassedOver ==
  \A r \in Readers : \A p \in Positions(table) :
    p < cursor[r] =>
      \/ decodes(table[p]) /\ <<p, table[p].entry>> \in known /\ p \notin missed[r]
      \/ p \in missed[r] /\ lostRows
      \/ p \in overwritten /\ blind

\* Every row committed reaches every reader that stays up.
EveryRowIsRead ==
  \A r \in Readers \ Patient : \A n \in 1..MaxRows :
    (up /\ NextPosition(table) >= n)
      ~> (cursor[r] >= n \/ lostRows \/ ~ up \/ []<>(reader[r] = "off"))

\* What an append answered, or a reader was given, is what a read of its position
\* returns ever after: the log is append-only, and open() recovers the head
\* "from the table's last key" (log.rs:210).  It is not so: log.rs:221.
WhatWasToldStays ==
  \A k \in known : k[1] \in Positions(table) /\ table[k[1]].entry = k[2]
=============================================================================
