-------------------------- MODULE DurableLogProofs --------------------------
(***************************************************************************)
(* RedbLog is a shared log (DurableLog), for any payloads, writers and     *)
(* readers, batches of any length, and any number of crashes and faults.   *)
(*                                                                         *)
(* The three properties the runs check are parts of one story: the mutex   *)
(* and the phase of the one append under way say what head and rows are    *)
(* to each other (AppendInv), so no cursor passes a row (ReadInv), and the *)
(* table only grows at its end, unless open() was blind to it.             *)
(***************************************************************************)
EXTENDS DurableLog, Greatest, FiniteSetTheorems, SequenceTheorems, TLAPS

\* A row as some build wrote it.
Row == [version : {0, SCHEMA_VERSION}, entry : Entries \cup {"legacy"}]

\* The rows are where append put them, one after the other from zero.
IsTable(t) == \E n \in Nat : t \in [0..n-1 -> Row]

\* u is t or has grown at its end.
Grown(t, u) ==
  /\ Positions(t) \subseteq Positions(u)
  /\ \A p \in Positions(t) : u[p] = t[p]

UnderWay ==
  [pc : {"writing", "committed", "published"}, start : Nat,
   batch : Seq(Entries) \ {<<>>}]

DurableType ==
  /\ IsTable(table) /\ IsTable(doubt)
  /\ up \in BOOLEAN /\ blind \in BOOLEAN
  /\ head \in Nat
  /\ appending \in Writers \cup {Nobody}
  /\ writer \in [Writers -> {Idle} \cup UnderWay]
  /\ reader \in [Readers -> {"off", "waiting", "reading"}]
  /\ unseen \in [Readers -> BOOLEAN]
  /\ cursor \in [Readers -> Nat]
  /\ skipped \in [Readers -> BOOLEAN]
  /\ missed \in [Readers -> SUBSET Nat]

\* A position is the end of the table; a blind process may be before it.
AtTheEnd(n) ==
  /\ n =< NextPosition(table)
  /\ n = NextPosition(table) \/ blind

\* The rows of append a are in the table, at its end.
Written(a) ==
  /\ AtTheEnd(a.start + Len(a.batch))
  /\ \A k \in 1..Len(a.batch) : table[a.start + k - 1] = encode(a.batch[k])

\* What each phase of an append knows of head and rows.
PhaseInv(w) ==
  /\ writer[w].pc = "writing" => head = writer[w].start /\ AtTheEnd(head)
  /\ writer[w].pc = "committed" =>
       head = writer[w].start /\ head =< NextPosition(table) /\ Written(writer[w])
  /\ writer[w].pc = "published" =>
       head = writer[w].start + Len(writer[w].batch) /\ Written(writer[w])

\* One append at a time; when there is none the head is that of the rows.
AppendInv ==
  /\ ~ blind => Grown(table, doubt) /\ overwritten = {}
  /\ \A w \in Writers : appending = w <=> writer[w] # Idle
  /\ appending # Nobody => up
  /\ up /\ appending = Nobody => AtTheEnd(head)
  /\ \A w \in Writers : PhaseInv(w)

\* How far the readers are.
ReadInv ==
  /\ \A r \in Readers :
       /\ ~ up => reader[r] = "off" /\ cursor[r] = 0
       /\ cursor[r] =< NextPosition(table)
       /\ \A p \in missed[r] : p < cursor[r]
  /\ NothingIsPassedOver

DurableInv == DurableType /\ AppendInv /\ ReadInv

-----------------------------------------------------------------------------
(* Tables.                                                                 *)

\* A table ends where its last row is.
LEMMA TableFacts ==
  ASSUME NEW n \in Nat, NEW t \in [0..n-1 -> Row]
  PROVE  Positions(t) = 0..n-1 /\ NextPosition(t) = n
<1>1. Positions(t) = 0..n-1
  BY DEF Positions
<1>2. CASE n = 0
  <2>1. Positions(t) = {}
    BY <1>1, <1>2
  <2>2. QED
    BY <1>1, <1>2, <2>1 DEF NextPosition
<1>3. CASE n # 0
  <2>1. n - 1 \in Positions(t) /\ \A q \in Positions(t) : q =< n - 1
    BY <1>1, <1>3
  <2>2. Positions(t) \subseteq Int /\ Positions(t) # {}
    BY <1>1, <2>1
  <2>3. (CHOOSE p \in Positions(t) : \A q \in Positions(t) : q =< p) = n - 1
    BY <2>1, <2>2, GreatestOf
  <2>4. NextPosition(t) = (n - 1) + 1
    BY <2>2, <2>3 DEF NextPosition
  <2>5. QED
    BY <1>1, <2>4
<1>4. QED
  BY <1>2, <1>3

\* The positions of a table are those below the next one.
LEMMA TableShape ==
  ASSUME NEW t, IsTable(t)
  PROVE  /\ NextPosition(t) \in Nat
         /\ Positions(t) = 0 .. NextPosition(t) - 1
         /\ t \in [0 .. NextPosition(t) - 1 -> Row]
         /\ \A p \in Positions(t) : t[p] \in Row
<1>1. PICK n \in Nat : t \in [0..n-1 -> Row]
  BY DEF IsTable
<1>2. Positions(t) = 0..n-1 /\ NextPosition(t) = n
  BY <1>1, TableFacts
<1>3. QED
  BY <1>1, <1>2

\* A table that has grown is no shorter.
LEMMA GrownIsLonger ==
  ASSUME NEW t, NEW u, IsTable(t), IsTable(u), Grown(t, u)
  PROVE  NextPosition(t) =< NextPosition(u)
<1>1. 0 .. NextPosition(t) - 1 \subseteq 0 .. NextPosition(u) - 1
  BY TableShape DEF Grown
<1>2. NextPosition(t) \in Nat /\ NextPosition(u) \in Nat
  BY TableShape
<1>3. CASE NextPosition(t) = 0
  BY <1>2, <1>3
<1>4. CASE NextPosition(t) # 0
  <2>1. NextPosition(t) - 1 \in 0 .. NextPosition(u) - 1
    BY <1>1, <1>2, <1>4
  <2>2. QED
    BY <1>2, <2>1
<1>5. QED
  BY <1>3, <1>4

\* insert at the next position appends the batch; before it, it writes over rows.
LEMMA InsertedRows ==
  ASSUME NEW t, IsTable(t), NEW batch \in Seq(Entries),
         NEW start \in Nat, start =< NextPosition(t)
  PROVE  LET u == Inserted(t, start, batch)
         IN  /\ IsTable(u)
             /\ NextPosition(t) =< NextPosition(u)
             /\ start + Len(batch) =< NextPosition(u)
             /\ \A k \in 1..Len(batch) : u[start + k - 1] = encode(batch[k])
             /\ \A p \in Positions(t) :
                  p \notin start .. start + Len(batch) - 1 => u[p] = t[p]
             /\ start = NextPosition(t) =>
                  Grown(t, u) /\ NextPosition(u) = start + Len(batch)
<1> DEFINE n == NextPosition(t)
           e == start + Len(batch)
           m == IF e > n THEN e ELSE n
           u == Inserted(t, start, batch)
<1>1. /\ n \in Nat /\ Positions(t) = 0..n-1 /\ \A p \in Positions(t) : t[p] \in Row
      /\ Len(batch) \in Nat
      /\ \A k \in 1..Len(batch) : batch[k] \in Entries
  BY TableShape
<1>2. /\ m \in Nat /\ e \in Nat /\ n =< m /\ e =< m
      /\ (0..n-1) \cup (start..e-1) = 0..m-1
  BY <1>1
<1>3. u = [p \in 0..m-1 |-> IF p \in start..e-1 THEN encode(batch[p - start + 1]) ELSE t[p]]
  BY <1>1, <1>2 DEF Inserted
<1>4. ASSUME NEW k \in 1..Len(batch)
      PROVE  /\ encode(batch[k]) \in Row
             /\ start + k - 1 \in start..e-1 /\ start + k - 1 \in 0..m-1
             /\ (start + k - 1) - start + 1 = k
  <2>1. encode(batch[k]) \in Row
    BY <1>1 DEF encode, Row
  <2>2. QED
    BY <1>1, <1>2, <2>1
<1>5. \A p \in start..e-1 : encode(batch[p - start + 1]) \in Row
  <2>1. \A p \in start..e-1 : p - start + 1 \in 1..Len(batch)
    BY <1>1
  <2>2. QED
    BY <2>1, <1>4
<1>6. u \in [0..m-1 -> Row]
  <2>1. ASSUME NEW p \in 0..m-1, p \notin start..e-1
        PROVE  t[p] \in Row
    BY <1>1, <2>1
  <2>2. QED
    BY <1>3, <1>5, <2>1
<1>7. IsTable(u) /\ Positions(u) = 0..m-1 /\ NextPosition(u) = m
  BY <1>2, <1>6, TableFacts DEF IsTable
<1>8. \A p \in Positions(t) : p \in Positions(u) /\ (p \notin start..e-1 => u[p] = t[p])
  <2>1. Positions(t) \subseteq 0..m-1
    BY <1>1, <1>2
  <2>2. QED
    BY <1>3, <1>7, <2>1
<1>9. \A k \in 1..Len(batch) : u[start + k - 1] = encode(batch[k])
  BY <1>3, <1>4
<1>10. start = n => Grown(t, u) /\ m = e
  <2>1. start = n => \A p \in Positions(t) : p \notin start..e-1
    BY <1>1
  <2>2. QED
    BY <1>1, <1>8, <2>1 DEF Grown
<1>11. QED
  BY <1>2, <1>7, <1>8, <1>9, <1>10
-----------------------------------------------------------------------------
(* The four parts of the invariant, under the steps that change little.    *)

\* A step that changes no row keeps what readers were given, when it moves no
\* cursor.
LEMMA ReadersFrame ==
  ASSUME DurableType, ReadInv, up => up',
         UNCHANGED <<table, reader, cursor, missed, lostRows, blind, overwritten>>,
         known \subseteq known'
  PROVE  ReadInv'
<1>1. NothingIsPassedOver'
  BY DEF ReadInv, NothingIsPassedOver
<1>2. QED
  BY <1>1 DEF ReadInv

\* What the record of an append holds.
LEMMA AppendRecord ==
  ASSUME DurableType, NEW w \in Writers, writer[w].pc # "idle"
  PROVE  /\ writer[w] \in UnderWay
         /\ writer[w] # Idle
         /\ writer[w].start \in Nat
         /\ writer[w].batch \in Seq(Entries)
         /\ writer[w].batch # <<>>
<1>1. writer[w] \in UnderWay
  BY DEF DurableType, Idle
<1>2. QED
  BY <1>1 DEF UnderWay, Idle

-----------------------------------------------------------------------------
(* A writer's steps.                                                       *)

\* The mutex was free: nobody's rows are between the head and the end of the
\* table, so the start position read is the one to write at.
LEMMA BeginKeeps ==
  ASSUME DurableInv, NEW w \in Writers, NEW batch \in Batches, Begin(w, batch)
  PROVE  DurableInv'
<1> USE DEF DurableInv
<1> DEFINE a == [pc |-> "writing", start |-> head, batch |-> batch]
<1>1. /\ up /\ writer[w] = Idle /\ appending = Nobody /\ batch # <<>>
      /\ appending' = w
      /\ writer' = [writer EXCEPT ![w] = a]
      /\ UNCHANGED <<table, doubt, head, up, blind, overwritten, known, lostRows>>
      /\ UNCHANGED <<reader, unseen, cursor, skipped, missed>>
  BY DEF Begin, readerVars, openVars
<1>2. batch \in Seq(Entries)
  BY DEF Batches, BoundedSeq, SeqOf
<1>3. a \in UnderWay
  BY <1>1, <1>2 DEF UnderWay, DurableType
<1>4. DurableType'
  BY <1>1, <1>3 DEF DurableType
<1>5. \A v \in Writers : writer[v] = Idle
  BY <1>1, DurableLogAssumption DEF AppendInv, Nobody
<1>6. AppendInv'
  <2>1. w # Nobody
    BY DurableLogAssumption DEF Nobody
  <2>2. writer'[w] = a /\ \A v \in Writers \ {w} : writer'[v] = Idle
    BY <1>1, <1>5 DEF DurableType
  <2>3. a.pc = "writing" /\ a.start = head /\ a # Idle
    BY DEF Idle
  <2>4. AtTheEnd(head)
    BY <1>1 DEF AppendInv
  <2>5. \A v \in Writers : PhaseInv(v)'
    BY <1>1, <2>2, <2>3, <2>4 DEF PhaseInv, Idle, AtTheEnd
  <2>6. QED
    BY <1>1, <2>1, <2>2, <2>3, <2>5 DEF AppendInv
<1>8. ReadInv'
  BY <1>1, ReadersFrame
<1>9. QED
  BY <1>4, <1>6, <1>8

\* The rows go where the writer that holds the mutex read the head to be: past
\* every row, or, in a blind process, over those it records.
LEMMA CommitKeeps ==
  ASSUME DurableInv, NEW w \in Writers, Commit(w)
  PROVE  DurableInv'
<1> USE DEF DurableInv
<1> DEFINE a == writer[w]
           b == [a EXCEPT !.pc = "committed"]
<1>1. /\ a.pc = "writing"
      /\ table' = Inserted(table, a.start, a.batch)
      /\ doubt' = table'
      /\ overwritten' = overwritten \cup (Taken(a) \cap Positions(table))
      /\ writer' = [writer EXCEPT ![w] = b]
      /\ UNCHANGED <<head, appending, up, blind, known, lostRows>>
      /\ UNCHANGED <<reader, unseen, cursor, skipped, missed>>
  BY DEF Commit, readerVars
<1>2. a \in UnderWay /\ a # Idle /\ a.batch \in Seq(Entries) /\ a.start \in Nat
  BY <1>1, AppendRecord
<1>3. /\ head = a.start /\ up /\ appending = w
      /\ a.start =< NextPosition(table)
      /\ a.start = NextPosition(table) \/ blind
  BY <1>1, <1>2, DurableLogAssumption DEF AppendInv, PhaseInv, Nobody, AtTheEnd
<1>4. /\ IsTable(table')
      /\ NextPosition(table) =< NextPosition(table')
      /\ a.start + Len(a.batch) =< NextPosition(table')
      /\ \A k \in 1..Len(a.batch) : table'[a.start + k - 1] = encode(a.batch[k])
      /\ \A p \in Positions(table) : p \notin Taken(a) => table'[p] = table[p]
      /\ a.start = NextPosition(table) =>
           Grown(table, table') /\ NextPosition(table') = a.start + Len(a.batch)
  BY <1>1, <1>2, <1>3, InsertedRows DEF DurableType, Taken
<1>5. /\ b \in UnderWay /\ b # Idle
      /\ b.pc = "committed" /\ b.start = a.start /\ b.batch = a.batch
  BY <1>2 DEF UnderWay, Idle
<1>6. DurableType'
  BY <1>1, <1>4, <1>5 DEF DurableType
<1>7. /\ NextPosition(table) \in Nat /\ Positions(table) = 0 .. NextPosition(table) - 1
      /\ NextPosition(table') \in Nat
      /\ Positions(table') = 0 .. NextPosition(table') - 1
      /\ Len(a.batch) \in Nat
  BY <1>2, <1>4, TableShape DEF DurableType
<1>8. \A p \in Positions(table) : p \in Taken(a) => blind
  BY <1>2, <1>3, <1>7 DEF Taken
<1>9. AppendInv'
  <2>1. writer'[w] = b /\ \A v \in Writers \ {w} : writer'[v] = writer[v]
    BY <1>1 DEF DurableType
  <2>2. \A v \in Writers \ {w} : writer[v] = Idle
    BY <1>3 DEF AppendInv
  <2>3. PhaseInv(w)'
    <3>1. /\ writer'[w].pc = "committed"
          /\ writer'[w].start = a.start
          /\ writer'[w].batch = a.batch
          /\ head' = a.start
      BY <1>1, <1>3, <1>5, <2>1
    <3>2. AtTheEnd(a.start + Len(a.batch))'
      BY <1>1, <1>3, <1>4, <3>1 DEF AtTheEnd
    <3>3. Written(writer[w])'
      BY <1>4, <3>1, <3>2 DEF Written, AtTheEnd
    <3>4. head' =< NextPosition(table')
      BY <1>2, <1>3, <1>4, <1>7, <3>1
    <3>5. QED
      BY <3>1, <3>3, <3>4 DEF PhaseInv
  <2>4. ~ blind' => Grown(table', doubt') /\ overwritten' = {}
    BY <1>1, <1>8 DEF Grown, AppendInv
  <2>5. \A v \in Writers \ {w} : PhaseInv(v)'
    BY <2>1, <2>2 DEF PhaseInv, Idle
  <2>6. w # Nobody
    BY DurableLogAssumption DEF Nobody
  <2>7. QED
    BY <1>1, <1>3, <1>5, <2>1, <2>2, <2>3, <2>4, <2>5, <2>6 DEF AppendInv
<1>10. ASSUME NEW r \in Readers, NEW p \in Positions(table'), p < cursor[r]
       PROVE  \/ p \in overwritten' /\ blind
              \/ p \in Positions(table) /\ table'[p] = table[p]
  <2>1. cursor[r] \in Nat /\ cursor[r] =< NextPosition(table)
    BY DEF DurableType, ReadInv
  <2>2. p \in Positions(table)
    BY <1>7, <1>10, <2>1
  <2>3. QED
    BY <1>1, <1>4, <1>8, <2>2
<1>11. NothingIsPassedOver'
  <2> SUFFICES ASSUME NEW r \in Readers, NEW p \in Positions(table'), p < cursor[r]
               PROVE  \/ /\ decodes(table'[p]) /\ <<p, table'[p].entry>> \in known
                         /\ p \notin missed[r]
                      \/ p \in missed[r] /\ lostRows
                      \/ p \in overwritten' /\ blind
    BY <1>1 DEF NothingIsPassedOver
  <2>1. CASE p \in Positions(table) /\ table'[p] = table[p]
    BY <1>1, <2>1 DEF ReadInv, NothingIsPassedOver
  <2>2. QED
    BY <1>10, <2>1
<1>12. ReadInv'
  <2>1. \A r \in Readers : cursor'[r] =< NextPosition(table')
    <3>1. \A r \in Readers : cursor[r] \in Nat /\ cursor[r] =< NextPosition(table)
      BY DEF DurableType, ReadInv
    <3>2. QED
      BY <1>1, <1>4, <1>7, <3>1
  <2>2. QED
    BY <1>1, <1>11, <2>1 DEF ReadInv
<1>13. QED
  BY <1>6, <1>9, <1>12

\* A step after which no append is under way and the head is that of the rows.
LEMMA NobodyAppends ==
  ASSUME DurableType, AppendInv, NEW w \in Writers, appending = w,
         appending' = Nobody, writer' = [writer EXCEPT ![w] = Idle],
         ~ blind' => Grown(table', doubt') /\ overwritten' = {},
         up' => AtTheEnd(head)'
  PROVE  AppendInv'
<1>1. \A v \in Writers : writer'[v] = Idle
  BY DEF AppendInv, DurableType
<1>2. \A v \in Writers : v # Nobody
  BY DurableLogAssumption DEF Nobody
<1>3. \A v \in Writers : PhaseInv(v)'
  BY <1>1 DEF PhaseInv, Idle
<1>4. QED
  BY <1>1, <1>2, <1>3 DEF AppendInv

\* Nothing was inserted that a reader can see; what is in doubt is in line with
\* the rows until the next open says.
LEMMA AppendFailsKeeps ==
  ASSUME DurableInv, NEW w \in Writers, AppendFails(w)
  PROVE  DurableInv'
<1> USE DEF DurableInv
<1> DEFINE a == writer[w]
           u == Inserted(table, a.start, a.batch)
<1>1. /\ a.pc = "writing"
      /\ doubt' \in {doubt, u}
      /\ appending' = Nobody
      /\ writer' = [writer EXCEPT ![w] = Idle]
      /\ UNCHANGED <<table, head, up, blind, overwritten, known, lostRows>>
      /\ UNCHANGED <<reader, unseen, cursor, skipped, missed>>
  BY DEF AppendFails, readerVars, openVars
<1>2. a # Idle /\ a.batch \in Seq(Entries) /\ a.start \in Nat
  BY <1>1, AppendRecord
<1>3. head = a.start /\ AtTheEnd(head) /\ appending = w
  BY <1>1, <1>2 DEF AppendInv, PhaseInv
<1>4. IsTable(u) /\ (~ blind => Grown(table, u))
  BY <1>2, <1>3, InsertedRows DEF DurableType, AtTheEnd
<1>5. IsTable(doubt') /\ (~ blind' => Grown(table', doubt') /\ overwritten' = {})
  BY <1>1, <1>4 DEF DurableType, AppendInv
<1>6. DurableType'
  BY <1>1, <1>5 DEF DurableType
<1>7. AppendInv'
  <2>1. AtTheEnd(head)'
    BY <1>1, <1>3 DEF AtTheEnd
  <2>2. QED
    BY <1>1, <1>3, <1>5, <2>1, NobodyAppends
<1>9. ReadInv'
  BY <1>1, ReadersFrame
<1>10. QED
  BY <1>6, <1>7, <1>9

\* The head is stored past the rows just committed.
LEMMA PublishKeeps ==
  ASSUME DurableInv, NEW w \in Writers, Publish(w)
  PROVE  DurableInv'
<1> USE DEF DurableInv
<1> DEFINE a == writer[w]
           b == [a EXCEPT !.pc = "published"]
<1>1. /\ a.pc = "committed"
      /\ head' = a.start + Len(a.batch)
      /\ writer' = [writer EXCEPT ![w] = b]
      /\ UNCHANGED <<table, doubt, appending, up, blind, overwritten, known, lostRows>>
      /\ UNCHANGED <<reader, unseen, cursor, skipped, missed>>
  BY DEF Publish, readerVars, openVars
<1>2. a \in UnderWay /\ a # Idle
  BY <1>1, AppendRecord
<1>3. Written(a) /\ appending = w /\ up
  BY <1>1, <1>2, DurableLogAssumption DEF AppendInv, PhaseInv, Nobody
<1>4. head' = a.start + Len(a.batch) /\ head' \in Nat
  BY <1>1, <1>2 DEF UnderWay
<1>5. /\ b \in UnderWay /\ b # Idle
      /\ b.pc = "published" /\ b.start = a.start /\ b.batch = a.batch
  BY <1>2 DEF UnderWay, Idle
<1>6. DurableType'
  BY <1>1, <1>4, <1>5 DEF DurableType
<1>7. AppendInv'
  <2>1. writer'[w] = b /\ \A v \in Writers \ {w} : writer'[v] = writer[v]
    BY <1>1 DEF DurableType
  <2>2. \A v \in Writers \ {w} : writer[v] = Idle
    BY <1>3 DEF AppendInv
  <2>3. PhaseInv(w)'
    <3>1. /\ writer'[w].pc = "published"
          /\ writer'[w].start = a.start
          /\ writer'[w].batch = a.batch
      BY <1>5, <2>1
    <3>2. Written(writer[w])'
      BY <1>1, <1>3, <3>1 DEF Written, AtTheEnd
    <3>3. QED
      BY <1>1, <1>4, <3>1, <3>2 DEF PhaseInv
  <2>4. \A v \in Writers \ {w} : PhaseInv(v)'
    BY <2>1, <2>2 DEF PhaseInv, Idle
  <2>5. w # Nobody
    BY DurableLogAssumption DEF Nobody
  <2>6. ~ blind' => Grown(table', doubt') /\ overwritten' = {}
    BY <1>1 DEF AppendInv
  <2>7. QED
    BY <1>1, <1>3, <1>5, <2>1, <2>2, <2>3, <2>4, <2>5, <2>6 DEF AppendInv
<1>9. ReadInv'
  BY <1>1, ReadersFrame
<1>10. QED
  BY <1>6, <1>7, <1>9

\* The answer is of rows that are in the table, and every reader is told.
LEMMA RingKeeps ==
  ASSUME DurableInv, NEW w \in Writers, Ring(w)
  PROVE  DurableInv'
<1> USE DEF DurableInv
<1>1. /\ writer[w].pc = "published"
      /\ unseen' = [r \in Readers |-> TRUE]
      /\ known \subseteq known'
      /\ appending' = Nobody
      /\ writer' = [writer EXCEPT ![w] = Idle]
      /\ UNCHANGED <<table, doubt, head, reader, cursor, skipped, missed, up, blind,
                     overwritten, lostRows>>
  BY DEF Ring, openVars
<1>2. writer[w] # Idle
  BY <1>1, AppendRecord
<1>3. AtTheEnd(head) /\ appending = w
  BY <1>1, <1>2 DEF AppendInv, PhaseInv, Written
<1>4. DurableType'
  BY <1>1 DEF DurableType
<1>5. AppendInv'
  <2>1. AtTheEnd(head)' /\ (~ blind' => Grown(table', doubt') /\ overwritten' = {})
    BY <1>1, <1>3 DEF AtTheEnd, AppendInv
  <2>2. QED
    BY <1>1, <1>3, <2>1, NobodyAppends
<1>6. ReadInv'
  BY <1>1, ReadersFrame
<1>7. QED
  BY <1>4, <1>5, <1>6

-----------------------------------------------------------------------------
(* A reader's steps.                                                       *)

\* A reader's step leaves the writers' invariant alone.
LEMMA WritersFrame ==
  ASSUME AppendInv, UNCHANGED <<table, doubt, head, appending, writer, up, blind, overwritten>>
  PROVE  AppendInv'
BY DEF AppendInv, PhaseInv, Written, AtTheEnd

\* A reader that starts has everything to see.
LEMMA StartKeeps ==
  ASSUME DurableInv, NEW r \in Readers, Start(r)
  PROVE  DurableInv'
<1> USE DEF DurableInv
<1>1. /\ up
      /\ reader' = [reader EXCEPT ![r] = "waiting"]
      /\ unseen' = [unseen EXCEPT ![r] = TRUE]
      /\ cursor' = [cursor EXCEPT ![r] = 0]
      /\ skipped' = [skipped EXCEPT ![r] = FALSE]
      /\ missed' = [missed EXCEPT ![r] = {}]
      /\ UNCHANGED <<table, doubt, head, appending, writer, up, blind, overwritten, known, lostRows>>
  BY DEF Start, writerVars, openVars
<1>2. DurableType'
  BY <1>1 DEF DurableType
<1>3. AppendInv'
  BY <1>1, WritersFrame
<1>5. ReadInv'
  <2>1. NextPosition(table) \in Nat /\ \A p \in Positions(table) : p \in Nat
    BY TableShape DEF DurableType
  <2>2. NothingIsPassedOver'
    BY <1>1, <2>1 DEF DurableType, ReadInv, NothingIsPassedOver
  <2>3. QED
    BY <1>1, <2>1, <2>2 DEF DurableType, ReadInv
<1>6. QED
  BY <1>2, <1>3, <1>5

\* A reader that saw the bell reads next.
LEMMA WakeKeeps ==
  ASSUME DurableInv, NEW r \in Readers, Wake(r)
  PROVE  DurableInv'
<1> USE DEF DurableInv
<1>1. /\ reader[r] = "waiting"
      /\ unseen' = [unseen EXCEPT ![r] = FALSE]
      /\ reader' = [reader EXCEPT ![r] = "reading"]
      /\ UNCHANGED <<table, doubt, head, appending, writer, up, blind, overwritten, known, lostRows>>
      /\ UNCHANGED <<cursor, skipped, missed>>
  BY DEF Wake, writerVars, openVars
<1>2. DurableType'
  BY <1>1 DEF DurableType
<1>3. AppendInv'
  BY <1>1, WritersFrame
<1>5. ReadInv'
  BY <1>1 DEF DurableType, ReadInv, NothingIsPassedOver
<1>6. QED
  BY <1>2, <1>3, <1>5

\* A failed read gives no rows and leaves the cursor where it was.
LEMMA ReadFailsKeeps ==
  ASSUME DurableInv, NEW r \in Readers, ReadFails(r)
  PROVE  DurableInv'
<1> USE DEF DurableInv
<1>1. /\ reader[r] = "reading"
      /\ reader' = [reader EXCEPT ![r] = IF r \in Patient THEN "waiting" ELSE "off"]
      /\ skipped' = [skipped EXCEPT ![r] = TRUE]
      /\ UNCHANGED <<table, doubt, head, appending, writer, up, blind, overwritten, known, lostRows>>
      /\ UNCHANGED <<unseen, cursor, missed>>
  BY DEF ReadFails, writerVars, openVars
<1>2. DurableType'
  BY <1>1 DEF DurableType
<1>3. AppendInv'
  BY <1>1, WritersFrame
<1>5. ReadInv'
  BY <1>1 DEF DurableType, ReadInv, NothingIsPassedOver
<1>6. QED
  BY <1>2, <1>3, <1>5

\* A read gives every row up to its next cursor, or records the row as missed.
LEMMA ReadKeeps ==
  ASSUME DurableInv, NEW r \in Readers, Read(r)
  PROVE  DurableInv'
<1> USE DEF DurableInv
<1>1. PICK lost \in SUBSET Ahead(r) :
        LET given == Ahead(r) \ lost
            next  == IF given = {} THEN cursor[r]
                     ELSE (CHOOSE p \in given : \A q \in given : q =< p) + 1
        IN  /\ lostRows' = (lostRows \/ lost # {})
            /\ \A p \in given : decodes(table[p])
            /\ cursor' = [cursor EXCEPT ![r] = next]
            /\ missed' = [missed EXCEPT ![r] = @ \cup {p \in lost : p < next}]
            /\ known' = known \cup {<<p, table[p].entry>> : p \in given}
  BY DEF Read
<1> DEFINE given == Ahead(r) \ lost
           next  == IF given = {} THEN cursor[r]
                    ELSE (CHOOSE p \in given : \A q \in given : q =< p) + 1
<1>2. /\ reader[r] = "reading"
      /\ skipped' = [skipped EXCEPT ![r] = FALSE]
      /\ reader' = [reader EXCEPT ![r] = "waiting"]
      /\ UNCHANGED <<table, doubt, head, appending, writer, unseen, up, blind, overwritten>>
  BY DEF Read, writerVars, openVars
<1>3. /\ NextPosition(table) \in Nat
      /\ Positions(table) = 0 .. NextPosition(table) - 1
      /\ cursor[r] \in Nat /\ cursor[r] =< NextPosition(table)
  BY TableShape DEF DurableType, ReadInv
<1>4. Ahead(r) = cursor[r] .. NextPosition(table) - 1
  BY <1>3 DEF Ahead
<1>5. /\ next \in Nat /\ cursor[r] =< next /\ next =< NextPosition(table)
      /\ \A p \in given : p < next
  <2>1. CASE given = {}
    BY <1>3, <2>1
  <2>2. CASE given # {}
    <3>1. given \subseteq cursor[r] .. NextPosition(table) - 1
      BY <1>4
    <3>2. PICK m \in given : \A q \in given : q =< m
      <4>1. cursor[r] \in Int /\ NextPosition(table) - 1 \in Int
        BY <1>3
      <4>2. QED
        BY <2>2, <3>1, <4>1, GreatestInRange
    <3>3. next = m + 1
      BY <1>3, <2>2, <3>1, <3>2, GreatestOf
    <3>4. QED
      BY <1>3, <3>1, <3>2, <3>3
  <2>3. QED
    BY <2>1, <2>2
<1>6. /\ cursor' = [cursor EXCEPT ![r] = next]
      /\ missed' = [missed EXCEPT ![r] = @ \cup {p \in lost : p < next}]
      /\ known' = known \cup {<<p, table[p].entry>> : p \in given}
      /\ \A p \in given : decodes(table[p])
      /\ lostRows' = (lostRows \/ lost # {})
  BY <1>1
<1> HIDE DEF given, next
<1>7. DurableType'
  <2>1. lost \subseteq Nat
    BY <1>3, <1>4
  <2>2. QED
    BY <1>2, <1>5, <1>6, <2>1 DEF DurableType
<1>8. AppendInv'
  BY <1>2, WritersFrame
<1>9. ASSUME NEW p \in Positions(table), p < next
      PROVE  \/ decodes(table[p]) /\ <<p, table[p].entry>> \in known' /\ p \notin missed'[r]
             \/ p \in missed'[r] /\ lostRows'
             \/ p \in overwritten /\ blind
  <2>1. missed'[r] = missed[r] \cup {q \in lost : q < next}
    BY <1>6 DEF DurableType
  <2>2. CASE p < cursor[r]
    <3>1. p \notin lost
      BY <1>3, <1>4, <2>2
    <3>2. QED
      BY <1>6, <2>1, <2>2, <3>1 DEF ReadInv, NothingIsPassedOver
  <2>3. CASE ~ (p < cursor[r])
    <3>1. p \in Ahead(r)
      BY <1>3, <1>4, <2>3
    <3>2. p \notin missed[r]
      BY <1>3, <2>3 DEF ReadInv
    <3>3. CASE p \in lost
      BY <1>6, <1>9, <2>1, <3>3
    <3>4. CASE p \notin lost
      BY <1>6, <2>1, <3>1, <3>2, <3>4 DEF given
    <3>5. QED
      BY <3>3, <3>4
  <2>4. QED
    BY <2>2, <2>3
<1>10. ReadInv'
  <2>1. cursor'[r] = next /\ \A s \in Readers \ {r} : cursor'[s] = cursor[s]
    BY <1>6 DEF DurableType
  <2>2. /\ missed'[r] = missed[r] \cup {p \in lost : p < next}
        /\ \A s \in Readers \ {r} : missed'[s] = missed[s]
    BY <1>6 DEF DurableType
  <2>3. NothingIsPassedOver'
    <3> SUFFICES ASSUME NEW s \in Readers, NEW p \in Positions(table), p < cursor'[s]
                 PROVE  \/ /\ decodes(table[p]) /\ <<p, table[p].entry>> \in known'
                           /\ p \notin missed'[s]
                        \/ p \in missed'[s] /\ lostRows'
                        \/ p \in overwritten /\ blind
      BY <1>2 DEF NothingIsPassedOver
    <3>1. CASE s = r
      BY <1>9, <2>1, <3>1
    <3>2. CASE s # r
      BY <1>6, <2>1, <2>2, <3>2 DEF ReadInv, NothingIsPassedOver
    <3>3. QED
      BY <3>1, <3>2
  <2>4. \A p \in missed'[r] : p < next
    <3>1. \A p \in missed[r] : p \in Nat /\ p < cursor[r]
      BY DEF DurableType, ReadInv
    <3>2. QED
      BY <1>3, <1>5, <2>2, <3>1
  <2>5. up
    BY <1>2 DEF DurableType, ReadInv
  <2>6. QED
    BY <1>2, <1>5, <2>1, <2>2, <2>3, <2>4, <2>5 DEF ReadInv
<1>11. QED
  BY <1>7, <1>8, <1>10

-----------------------------------------------------------------------------
(* Crash and open.                                                         *)

\* What is in memory is lost: the rows stay, those in doubt too.
LEMMA CrashKeeps ==
  ASSUME DurableInv, Crash
  PROVE  DurableInv'
<1> USE DEF DurableInv
<1>1. /\ up' = FALSE
      /\ head' = 0
      /\ appending' = Nobody
      /\ writer' = [w \in Writers |-> Idle]
      /\ reader' = [r \in Readers |-> "off"]
      /\ unseen' = [r \in Readers |-> FALSE]
      /\ cursor' = [r \in Readers |-> 0]
      /\ skipped' = [r \in Readers |-> FALSE]
      /\ missed' = [r \in Readers |-> {}]
      /\ UNCHANGED <<table, doubt, blind, overwritten, known, lostRows>>
  BY DEF Crash
<1>2. DurableType'
  BY <1>1 DEF DurableType
<1>3. AppendInv'
  <2>1. \A w \in Writers : PhaseInv(w)'
    BY <1>1 DEF PhaseInv, Idle
  <2>2. QED
    BY <1>1, <2>1, DurableLogAssumption DEF AppendInv, Nobody
<1>5. ReadInv'
  <2>1. NextPosition(table) \in Nat /\ \A p \in Positions(table) : p \in Nat
    BY TableShape DEF DurableType
  <2>2. QED
    BY <1>1, <2>1 DEF ReadInv, NothingIsPassedOver
<1>6. QED
  BY <1>2, <1>3, <1>5

\* The head is recovered from the rows that a crash left, or the process is
\* blind; either way the process has written over nothing yet.
LEMMA OpenKeeps ==
  ASSUME DurableInv, Open
  PROVE  DurableInv'
<1> USE DEF DurableInv
<1>1. /\ ~ up /\ up' = TRUE
      /\ table' \in {table, doubt}
      /\ doubt' = table'
      /\ overwritten' = {}
      /\ \/ head' = NextPosition(table') /\ blind' = FALSE
         \/ head' = 0 /\ blind' = TRUE
      /\ UNCHANGED <<appending, writer, known, lostRows>>
      /\ UNCHANGED <<reader, unseen, cursor, skipped, missed>>
  BY DEF Open, readerVars
<1>2. IsTable(table')
  BY <1>1 DEF DurableType
<1>3. /\ NextPosition(table') \in Nat
      /\ \A p \in Positions(table') : p \in Nat
  BY <1>2, TableShape
<1>4. DurableType'
  <2>1. up' \in BOOLEAN /\ blind' \in BOOLEAN /\ head' \in Nat
    <3>1. head' = NextPosition(table') \/ head' = 0
      BY <1>1
    <3>2. head' \in Nat
      BY <1>3, <3>1
    <3>3. up' \in BOOLEAN /\ blind' \in BOOLEAN
      BY <1>1
    <3>4. QED
      BY <3>2, <3>3
  <2>2. IsTable(table') /\ IsTable(doubt')
    BY <1>1, <1>2
  <2>3. QED
    BY <1>1, <2>1, <2>2 DEF DurableType
<1>5. AppendInv'
  <2>1. \A w \in Writers : writer[w] = Idle
    BY <1>1, DurableLogAssumption DEF AppendInv, Nobody, DurableType
  <2>2. \A w \in Writers : PhaseInv(w)'
    BY <1>1, <2>1 DEF PhaseInv, Idle
  <2>3. AtTheEnd(head)'
    BY <1>1, <1>3 DEF AtTheEnd
  <2>4. Grown(table', doubt')
    BY <1>1 DEF Grown
  <2>5. QED
    BY <1>1, <2>1, <2>2, <2>3, <2>4 DEF AppendInv
<1>6. ReadInv'
  <2>1. \A r \in Readers : reader'[r] = "off" /\ cursor'[r] = 0
    BY <1>1 DEF ReadInv
  <2>2. NothingIsPassedOver'
    BY <1>3, <2>1 DEF NothingIsPassedOver
  <2>3. QED
    BY <1>1, <1>3, <2>1, <2>2 DEF ReadInv
<1>7. QED
  BY <1>4, <1>5, <1>6

-----------------------------------------------------------------------------

\* A log that was just created has no rows.
LEMMA InitEstablishes == Init => DurableInv
<1> SUFFICES ASSUME Init PROVE DurableInv
  OBVIOUS
<1>1. IsTable(table)
  <2>1. PICK n \in 0..MaxLegacy :
          table = [p \in 0..n-1 |-> [version |-> 0, entry |-> "legacy"]]
    BY DEF Init
  <2>2. n \in Nat /\ [version |-> 0, entry |-> "legacy"] \in Row
    BY DurableLogAssumption DEF Row
  <2>3. QED
    BY <2>1, <2>2 DEF IsTable
<1>2. NextPosition(table) \in Nat /\ \A p \in Positions(table) : p \in Nat
  BY <1>1, TableShape
<1>3. DurableType
  BY <1>1 DEF Init, DurableType
<1>4. AppendInv
  <2>1. \A w \in Writers : PhaseInv(w)
    BY DEF Init, PhaseInv, Idle
  <2>2. QED
    BY <2>1, DurableLogAssumption DEF Init, AppendInv, Nobody, Grown
<1>5. ReadInv
  <2>1. \A r \in Readers : reader[r] = "off" /\ cursor[r] = 0 /\ missed[r] = {}
    BY DEF Init
  <2>2. NothingIsPassedOver
    BY <1>2, <2>1 DEF NothingIsPassedOver
  <2>3. QED
    BY <1>2, <2>1, <2>2 DEF ReadInv
<1>6. QED
  BY <1>3, <1>4, <1>5 DEF DurableInv

\* Every step keeps the invariant.
LEMMA NextKeeps == DurableInv /\ [Next]_vars => DurableInv'
<1> SUFFICES ASSUME DurableInv, [Next]_vars PROVE DurableInv'
  OBVIOUS
<1>1. ASSUME NEW w \in Writers, NEW batch \in Batches, Begin(w, batch)
      PROVE  DurableInv'
  BY <1>1, BeginKeeps
<1>2. ASSUME NEW w \in Writers, Commit(w) \/ AppendFails(w) \/ Publish(w) \/ Ring(w)
      PROVE  DurableInv'
  BY <1>2, CommitKeeps, AppendFailsKeeps, PublishKeeps, RingKeeps
<1>3. ASSUME NEW r \in Readers, Start(r) \/ Wake(r) \/ Read(r) \/ ReadFails(r)
      PROVE  DurableInv'
  BY <1>3, StartKeeps, WakeKeeps, ReadKeeps, ReadFailsKeeps
<1>4. CASE Crash \/ Open
  BY <1>4, CrashKeeps, OpenKeeps
<1>5. CASE UNCHANGED vars
  <2>1. UNCHANGED <<table, doubt, head, appending, writer, reader, unseen, cursor,
                    skipped, missed, up, blind, overwritten, known, lostRows>>
    BY <1>5 DEF vars, writerVars, readerVars, openVars
  <2>2. DurableType'
    BY <2>1 DEF DurableInv, DurableType
  <2>3. AppendInv'
    BY <2>1, WritersFrame DEF DurableInv
  <2>4. ReadInv'
    BY <2>1, ReadersFrame DEF DurableInv
  <2>5. QED
    BY <2>2, <2>3, <2>4 DEF DurableInv
<1>6. QED
  BY <1>1, <1>2, <1>3, <1>4, <1>5 DEF Next

\* The invariant is one.
LEMMA InvariantHolds == Spec => []DurableInv
BY InitEstablishes, NextKeeps, PTL DEF Spec

\* The head may lag the rows while an append is under way and never leads, and
\* after any outcome of an append, or an open, it agrees with them, except in a
\* process that open() left blind (log.rs:200-201, 210-223, 244-245, 266).
THEOREM HeadIsRight == Spec => []HeadFollowsTheRows
<1>1. DurableInv => HeadFollowsTheRows
  <2> SUFFICES ASSUME DurableInv, up PROVE
                 /\ head =< NextPosition(table)
                 /\ appending = Nobody => head = NextPosition(table) \/ blind
    BY DEF HeadFollowsTheRows
  <2>1. CASE appending = Nobody
    BY <2>1 DEF DurableInv, AppendInv, AtTheEnd
  <2>2. CASE appending # Nobody
    <3>1. appending \in Writers
      BY <2>2 DEF DurableInv, DurableType
    <3>2. /\ writer[appending] \in UnderWay
          /\ PhaseInv(appending)
      BY <3>1 DEF DurableInv, DurableType, AppendInv
    <3>3. writer[appending].pc \in {"writing", "committed", "published"}
      BY <3>2 DEF UnderWay
    <3>4. QED
      BY <2>2, <3>2, <3>3 DEF PhaseInv, Written, AtTheEnd
  <2>3. QED
    BY <2>1, <2>2
<1>2. QED
  BY <1>1, InvariantHolds, PTL

\* Every position a cursor passed was given to its reader, or is recorded as a
\* row that failed to read, through reads that fail, rows of another build,
\* crashes and restarts; what a blind process writes over is all that a reader
\* in it may have been given in another form (log.rs:221, 271-300).
THEOREM NoReaderSkips == Spec => []NothingIsPassedOver
<1>1. DurableInv => NothingIsPassedOver
  BY DEF DurableInv, ReadInv
<1>2. QED
  BY <1>1, InvariantHolds, PTL

-----------------------------------------------------------------------------
(* The refinement of SharedLog.                                            *)

\* The abstract log of a table, as Log's substitution has it.
EntriesOf(t) == [k \in 1..Cardinality(Positions(t)) |-> t[k - 1].entry]

Payloads == Entries \cup {"legacy"}

\* Rows without a gap are a sequence of entries.
LEMMA EntriesOfTable ==
  ASSUME NEW t, IsTable(t)
  PROVE  /\ EntriesOf(t) \in Seq(Payloads)
         /\ Len(EntriesOf(t)) = NextPosition(t)
         /\ \A k \in 1 .. NextPosition(t) : EntriesOf(t)[k] = t[k - 1].entry
<1> DEFINE n == NextPosition(t)
<1>1. /\ n \in Nat
      /\ Positions(t) = 0..n-1
      /\ \A p \in Positions(t) : t[p].entry \in Payloads
  BY TableShape DEF Row, Payloads
<1>2. Cardinality(Positions(t)) = n
  <2>1. Cardinality(0..n-1) = IF 0 > n - 1 THEN 0 ELSE (n - 1) - 0 + 1
    BY <1>1, FS_Interval
  <2>2. QED
    BY <1>1, <2>1
<1>3. EntriesOf(t) = [k \in 1..n |-> t[k - 1].entry]
  BY <1>2 DEF EntriesOf
<1>4. \A k \in 1..n : t[k - 1].entry \in Payloads
  <2>1. \A k \in 1..n : k - 1 \in Positions(t)
    BY <1>1
  <2>2. QED
    BY <1>1, <2>1
<1>5. QED
  BY <1>1, <1>3, <1>4, IsASeq

\* A table that has grown holds the same entries and then more.
LEMMA GrownEntries ==
  ASSUME NEW t, NEW u, IsTable(t), IsTable(u), Grown(t, u)
  PROVE  /\ SubSeq(EntriesOf(u), 1, Len(EntriesOf(t))) = EntriesOf(t)
         /\ \/ EntriesOf(u) = EntriesOf(t)
            \/ Len(EntriesOf(t)) < Len(EntriesOf(u))
<1> DEFINE n == NextPosition(t)
           m == NextPosition(u)
           a == EntriesOf(t)
           b == EntriesOf(u)
<1>1. n \in Nat /\ m \in Nat /\ n =< m /\ Positions(t) = 0..n-1
  BY TableShape, GrownIsLonger
<1>2. /\ a \in Seq(Payloads) /\ Len(a) = n
      /\ b \in Seq(Payloads) /\ Len(b) = m
  BY EntriesOfTable
<1>3. \A k \in 1..n : b[k] = a[k]
  <2> SUFFICES ASSUME NEW k \in 1..n PROVE b[k] = a[k]
    OBVIOUS
  <2>1. k \in 1..m /\ k - 1 \in Positions(t)
    BY <1>1
  <2>2. b[k] = u[k - 1].entry /\ a[k] = t[k - 1].entry
    BY <2>1, EntriesOfTable
  <2>3. QED
    BY <2>1, <2>2 DEF Grown
<1> HIDE DEF a, b, n, m
<1>4. SubSeq(b, 1, n) = a
  <2>1. \A k \in 1..n : b[k] \in Payloads
    BY <1>1, <1>2, <1>3
  <2>2. /\ SubSeq(b, 1, n) \in Seq(Payloads)
        /\ Len(SubSeq(b, 1, n)) = n
        /\ \A k \in 1..n : SubSeq(b, 1, n)[k] = b[k]
    BY <1>1, <2>1, SubSeqProperties
  <2>3. QED
    BY <1>2, <1>3, <2>2, SeqEqual
<1>5. CASE n = m
  BY <1>2, <1>3, <1>4, <1>5, SeqEqual DEF a, b
<1>6. CASE n # m
  BY <1>1, <1>2, <1>4, <1>6 DEF a, b
<1>7. QED
  BY <1>5, <1>6

\* The rows may grow or somebody may be told of one, but not in one step.
GrowsOrTells ==
  /\ Grown(table, table')
  /\ known \subseteq known'
  /\ \A k \in known' : k \in known \/ \E p \in Positions(table) : k = <<p, table[p].entry>>
  /\ table' = table \/ known' = known

\* A table that grows, or an answer of what it holds, is a step of SharedLog.
LEMMA GrowsOrTellsIsAStep ==
  ASSUME DurableInv, DurableInv', GrowsOrTells
  PROVE  [Log!Next]_<<EntriesOf(table), known>>
<1>1. IsTable(table) /\ IsTable(table')
  BY DEF DurableInv, DurableType
<1>2. CASE known' = known
  <2>1. /\ EntriesOf(table') \in Seq(Payloads)
        /\ SubSeq(EntriesOf(table'), 1, Len(EntriesOf(table))) = EntriesOf(table)
        /\ \/ EntriesOf(table') = EntriesOf(table)
           \/ Len(EntriesOf(table)) < Len(EntriesOf(table'))
    BY <1>1, EntriesOfTable, GrownEntries DEF GrowsOrTells
  <2>2. CASE EntriesOf(table') = EntriesOf(table)
    BY <1>2, <2>2
  <2>3. CASE Len(EntriesOf(table)) < Len(EntriesOf(table'))
    <3>1. Log!AppendBatch
      BY <1>2, <2>1, <2>3 DEF Log!AppendBatch, EntriesOf, Payloads
    <3>2. QED
      BY <3>1 DEF Log!Next
  <2>4. QED
    BY <2>1, <2>2, <2>3
<1>3. CASE known' # known
  <2>1. table' = table /\ known \subseteq known'
    BY <1>3 DEF GrowsOrTells
  <2>2. known' \subseteq known \cup
                      {<<p, EntriesOf(table)[p + 1]>> : p \in 0..Len(EntriesOf(table))-1}
    <3> SUFFICES ASSUME NEW k \in known', k \notin known
                 PROVE  \E p \in 0..Len(EntriesOf(table))-1 :
                          k = <<p, EntriesOf(table)[p + 1]>>
      OBVIOUS
    <3>1. PICK p \in Positions(table) : k = <<p, table[p].entry>>
      BY DEF GrowsOrTells
    <3>2. NextPosition(table) \in Nat /\ p \in 0..NextPosition(table)-1
      BY <1>1, TableShape
    <3>3. p + 1 \in 1..NextPosition(table) /\ (p + 1) - 1 = p
      BY <3>2
    <3>4. EntriesOf(table)[p + 1] = table[p].entry
      BY <1>1, <3>3, EntriesOfTable
    <3>5. QED
      BY <1>1, <3>1, <3>2, <3>4, EntriesOfTable
  <2>3. Log!Tell
    BY <1>3, <2>1, <2>2 DEF Log!Tell, EntriesOf
  <2>4. QED
    BY <2>3 DEF Log!Next
<1>4. QED
  BY <1>2, <1>3

\* The answer is of rows that are in the table.
LEMMA RingTells ==
  ASSUME DurableInv, NEW w \in Writers, Ring(w)
  PROVE  GrowsOrTells
<1> DEFINE a == writer[w]
           told == {<<a.start + k - 1, a.batch[k]>> : k \in DOMAIN a.batch}
<1>1. /\ a.pc = "published"
      /\ known' = known \cup told
      /\ table' = table
  BY DEF Ring
<1>2. a # Idle /\ a.start \in Nat /\ a.batch \in Seq(Entries)
  BY <1>1, AppendRecord DEF DurableInv
<1>3. Written(a)
  BY <1>1 DEF DurableInv, AppendInv, PhaseInv
<1>4. ASSUME NEW k \in 1..Len(a.batch)
      PROVE  /\ a.start + k - 1 \in Positions(table)
             /\ table[a.start + k - 1].entry = a.batch[k]
  <2>1. NextPosition(table) \in Nat /\ Positions(table) = 0 .. NextPosition(table) - 1
    BY TableShape DEF DurableInv, DurableType
  <2>2. a.start + k - 1 \in 0 .. NextPosition(table) - 1
    BY <1>2, <1>3, <2>1 DEF Written, AtTheEnd
  <2>3. table[a.start + k - 1] = encode(a.batch[k])
    BY <1>3 DEF Written
  <2>4. encode(a.batch[k]).entry = a.batch[k]
    BY DEF encode
  <2>5. QED
    BY <2>1, <2>2, <2>3, <2>4
<1>5. \A k \in told : \E p \in Positions(table) : k = <<p, table[p].entry>>
  BY <1>2, <1>4
<1>6. QED
  BY <1>1, <1>5 DEF GrowsOrTells, Grown

\* A read returns rows of the table.
LEMMA ReadTells ==
  ASSUME NEW r \in Readers, Read(r)
  PROVE  GrowsOrTells
<1>1. PICK lost \in SUBSET Ahead(r) :
        known' = known \cup {<<p, table[p].entry>> : p \in Ahead(r) \ lost}
  BY DEF Read
<1>2. Ahead(r) \subseteq Positions(table)
  BY DEF Ahead
<1>3. table' = table
  BY DEF Read, writerVars
<1>4. QED
  BY <1>1, <1>2, <1>3 DEF GrowsOrTells, Grown

\* Only a commit, or an open that finds one, adds rows, at the end; only an
\* answer or a read tells anybody anything.
LEMMA StepGrowsOrTells ==
  ASSUME DurableInv, [Next]_vars
  PROVE  GrowsOrTells \/ (blind /\ known' = known)
<1>1. Grown(table, table)
  BY DEF Grown
<1>2. CASE table' = table /\ known' = known
  BY <1>1, <1>2 DEF GrowsOrTells
<1>3. ASSUME NEW w \in Writers, Commit(w), ~ blind
      PROVE  GrowsOrTells
  <2>1. writer[w].pc = "writing" /\ known' = known
    BY <1>3 DEF Commit
  <2>2. /\ writer[w].batch \in Seq(Entries) /\ writer[w].start \in Nat
        /\ writer[w].start = NextPosition(table)
    BY <1>3, <2>1, AppendRecord DEF DurableInv, AppendInv, PhaseInv, AtTheEnd
  <2>3. Grown(table, table')
    <3>1. table' = Inserted(table, writer[w].start, writer[w].batch)
      BY <1>3 DEF Commit
    <3>2. QED
      BY <2>2, <3>1, InsertedRows DEF DurableInv, DurableType
  <2>4. QED
    BY <2>1, <2>3 DEF GrowsOrTells
<1>4. CASE Open /\ ~ blind
  BY <1>1, <1>4 DEF Open, GrowsOrTells, DurableInv, AppendInv
<1>5. ASSUME NEW w \in Writers, NEW batch \in Batches, Begin(w, batch)
      PROVE  table' = table /\ known' = known
  BY <1>5 DEF Begin
<1>6. ASSUME NEW w \in Writers, AppendFails(w) \/ Publish(w)
      PROVE  table' = table /\ known' = known
  BY <1>6 DEF AppendFails, Publish
<1>7. ASSUME NEW r \in Readers, Start(r) \/ Wake(r) \/ ReadFails(r)
      PROVE  table' = table /\ known' = known
  BY <1>7 DEF Start, Wake, ReadFails, writerVars
<1>8. ASSUME NEW w \in Writers, Ring(w)
      PROVE  GrowsOrTells
  BY <1>8, RingTells
<1>9. ASSUME NEW r \in Readers, Read(r)
      PROVE  GrowsOrTells
  BY <1>9, ReadTells
<1>10. CASE Crash
  BY <1>2, <1>10 DEF Crash
<1>11. CASE UNCHANGED vars
  BY <1>2, <1>11 DEF vars, writerVars
<1>12. ASSUME NEW w \in Writers, Commit(w) \/ Open
       PROVE  known' = known
  BY <1>12 DEF Commit, Open
<1>13. CASE Open
  BY <1>4, <1>13 DEF Open
<1>14. QED
  BY <1>2, <1>3, <1>5, <1>6, <1>7, <1>8, <1>9, <1>10, <1>11, <1>12, <1>13 DEF Next

\* What a blind process writes is a sequence of entries all the same.
LEMMA OverwriteIsAStep ==
  ASSUME DurableInv', blind, known' = known
  PROVE  Log!Overwrite
<1>1. EntriesOf(table') \in Seq(Payloads)
  BY EntriesOfTable DEF DurableInv, DurableType
<1>2. QED
  BY <1>1 DEF Log!Overwrite, EntriesOf, Payloads

\* RedbLog gives the stages the one append-only log that IntentLog promises: with
\* the mutex, nothing written is overwritten, and what an append answered or a
\* read returned stays at its position, through every crash, failed commit and
\* restart (log.rs:96-106, 197-202, 240-269).  A process whose open() could not
\* open the table (log.rs:221) is all that overwrites an entry.
THEOREM ImplementsSharedLog == Spec => SharedLogImplemented
<1>1. Init => Log!Init
  <2> SUFFICES ASSUME Init PROVE Log!Init
    OBVIOUS
  <2>1. EntriesOf(table) \in Seq(Payloads)
    BY InitEstablishes, EntriesOfTable DEF DurableInv, DurableType
  <2>2. QED
    BY <2>1 DEF Init, Log!Init, EntriesOf, Payloads
<1>2. DurableInv /\ DurableInv' /\ [Next]_vars
        => [Log!Next]_<<EntriesOf(table), known>>
  BY StepGrowsOrTells, GrowsOrTellsIsAStep, OverwriteIsAStep DEF Log!Next
<1>3. QED
  BY <1>1, <1>2, InvariantHolds, PTL
     DEF Spec, SharedLogImplemented, Log!Spec, EntriesOf
=============================================================================
