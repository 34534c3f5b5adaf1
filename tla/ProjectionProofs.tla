-------------------------- MODULE ProjectionProofs --------------------------
(***************************************************************************)
(* The projector and a polling client (Projection), for any ids, slots and *)
(* entries, any batches, failed reads and restarts.                        *)
(*                                                                         *)
(* LogInv says that the writers keep to what may follow what, which is all *)
(* that the fold rests on (ReadModelProofs: FoldReads); ModelInv that the  *)
(* model is the fold of the entries below its cursor.  The client's part   *)
(* is what a guard held over a miss, and an empty model after a restart,   *)
(* make of that.                                                           *)
(***************************************************************************)
EXTENDS Projection, ReadModelProofs, FiniteSetTheorems, FunctionTheorems

Entry ==
  [kind : {"IntentReceived"}, intent : [id : Ids, deadline_ms : Nat],
   received_at : Nat]
    \cup [kind : {"IntentExpired"}, id : Ids, guarantee_deadline_ms : Nat, at_ms : Nat]
    \cup [kind : {"SlotCommitted"}, slot : Nat, intents : Seq(Ids),
          commitment : Nat, committed_at_ms : Nat]
    \cup [kind : {"SlotAttested"}, slot : Nat, quote : Nat, signature : Nat]
    \cup [kind : {"AttestFailed"}, slot : Nat, reason : Nat]
    \cup [kind : {"SlotsProven"}, from_slot : Nat, to_slot : Nat, proof : Handle]
    \cup [kind : {"ProveFailed"}, from_slot : Nat, to_slot : Nat, reason : Nat]

\* The entries fit one after the other, and no slot is ahead of its turn.
LogInv ==
  /\ log \in Seq(Entry)
  /\ History(log, Data)
  /\ \A s \in CommittedSlots(log) : s < Cardinality(Commits(log))

Read == SubSeq(log, 1, model.cursor)

\* The model is what the entries below its cursor say.
ModelInv ==
  /\ model.cursor \in 0..Len(log)
  /\ Reads(model, Read, Data)
  /\ projector = "applying" => batchEnd \in model.cursor..Len(log)

\* A miss on an intent that the log had is a miss on a model that lags, for as
\* long as the guard is held.
ClientInv ==
  /\ client.phase \in {"idle", "missed", "not found"}
  /\ client.phase = "missed" /\ client.known => model.cursor < Len(log)
  /\ client.phase = "not found" => ~ client.known

LEMMA SameIds ==
  ASSUME NEW r
  PROVE  /\ ReceivedIds(r) = IdsIn(r) /\ ExpiredIds(r) = DroppedIn(r)
         /\ CommittedIds(r) = PlacedIn(r)
BY DEF ReceivedIds, IdsIn, ExpiredIds, DroppedIn, CommittedIds, PlacedIn

LEMMA NoneIsApart == NoneApart(Data)
BY NoneAssumption DEF NoneIsDistinct, NoneApart

\* What the ids and slots of the log are.
LEMMA LogSets ==
  ASSUME LogInv
  PROVE  /\ IdsIn(log) \subseteq Ids /\ IsFiniteSet(IdsIn(log))
         /\ CommittedSlots(log) \subseteq Nat /\ AttestedSlots(log) \subseteq Nat
         /\ Cardinality(Commits(log)) \in Nat /\ IsFiniteSet(Commits(log))
         /\ Coherent(log)
<1>1. log \in Seq(Entry) /\ Len(log) \in Nat /\ DOMAIN log = 1..Len(log)
  BY DEF LogInv
<1>2. \A p \in DOMAIN log : log[p] \in Entry
  BY <1>1
<1>3. \A p \in Of(log, {"IntentReceived"}) : log[p].intent.id \in Ids
  BY <1>2 DEF Of, Entry
<1>4. IsFiniteSet(1..Len(log))
  BY <1>1, FS_Interval
<1>5. \A kinds : IsFiniteSet(Of(log, kinds))
  BY <1>1, <1>4, FS_Subset DEF Of
<1>6. IsFiniteSet(IdsIn(log))
  <2> DEFINE idOf == [p \in Of(log, {"IntentReceived"}) |-> log[p].intent.id]
  <2>1. idOf \in Surjection(Of(log, {"IntentReceived"}), IdsIn(log))
    BY DEF IdsIn, Surjection
  <2>2. QED
    BY <1>5, <2>1, FS_Surjection
<1>7. \A p \in Of(log, {"SlotCommitted"}) \cup Of(log, {"SlotAttested"}) : log[p].slot \in Nat
  BY <1>2 DEF Of, Entry
<1>8. IsFiniteSet(Commits(log)) /\ Cardinality(Commits(log)) \in Nat
  BY <1>5, FS_CardinalityType DEF Commits
<1>9. Coherent(log)
  <2>1. Len(log) \in 0..Len(log) /\ SubSeq(log, 1, Len(log)) = log
    BY <1>1
  <2>2. \A n \in 0..Len(log) : Coherent(SubSeq(log, 1, n))
    BY <1>1, AllCoherent DEF LogInv
  <2>3. QED
    BY <2>1, <2>2
<1>10. IdsIn(log) \subseteq Ids
  BY <1>3 DEF IdsIn
<1>11. CommittedSlots(log) \subseteq Nat /\ AttestedSlots(log) \subseteq Nat
  BY <1>7 DEF CommittedSlots, AttestedSlots, Commits
<1>12. QED
  BY <1>6, <1>8, <1>9, <1>10, <1>11

\* Every entry the writers put fits what is there.
Fitting(e) ==
  /\ e \in Entry
  /\ Fits(log, e)
  /\ Carries(e, Data)
  /\ e.kind = "SlotCommitted" => e.slot = Cardinality(Commits(log))

LEMMA AdmissionFits ==
  ASSUME LogInv, NEW id \in Ids \ ReceivedIds(log)
  PROVE  Fitting(IntentReceived(id))
<1> DEFINE e == IntentReceived(id)
<1>1. Stamp \in Nat /\ Stamp + 2 * Window \in Nat
  BY ProjectionAssumption DEF LogInv, Stamp
<1>2. /\ e.kind = "IntentReceived" /\ e.intent.id = id
      /\ e.received_at = Stamp /\ e.intent.deadline_ms = Stamp + 2 * Window
      /\ e \in Entry
  BY <1>1 DEF IntentReceived, Entry
<1> HIDE DEF e
<1>3. Fits(log, e)
  BY <1>2, SameIds DEF Fits
<1>4. Carries(e, Data)
  BY <1>1, <1>2 DEF Carries, Data
<1>5. QED
  BY <1>2, <1>3, <1>4 DEF Fitting, e

LEMMA MissFits ==
  ASSUME LogInv, NEW id \in ReceivedIds(log) \ CommittedIds(log)
  PROVE  Fitting(IntentExpired(id))
<1> DEFINE e == IntentExpired(id)
<1>1. Stamp \in Nat /\ Stamp + 1 \in Nat
  BY DEF LogInv, Stamp
<1>2. id \in Ids
  BY LogSets, SameIds
<1>3. /\ e.kind = "IntentExpired" /\ e.id = id
      /\ e.guarantee_deadline_ms = Stamp /\ e.at_ms = Stamp + 1
      /\ e \in Entry
  BY <1>1, <1>2 DEF IntentExpired, Entry
<1> HIDE DEF e
<1>4. Fits(log, e)
  BY <1>3, SameIds DEF Fits
<1>5. Carries(e, Data)
  BY <1>1, <1>3 DEF Carries, Data
<1>6. QED
  BY <1>3, <1>4, <1>5 DEF Fitting, e

LEMMA SlotFits ==
  ASSUME LogInv,
         NEW ids \in SUBSET (ReceivedIds(log) \ (CommittedIds(log) \cup ExpiredIds(log))),
         NEW order \in SetToSeqs(ids)
  PROVE  Fitting(SlotClosed(Cardinality(Commits(log)), order))
<1> DEFINE s == Cardinality(Commits(log))
           e == SlotClosed(s, order)
<1>1. Stamp \in Nat /\ s \in Nat
  BY LogSets DEF LogInv, Stamp
<1>2. ids \subseteq IdsIn(log) \ (PlacedIn(log) \cup DroppedIn(log))
  BY SameIds
<1>3. IsFiniteSet(ids)
  BY <1>2, LogSets, FS_Subset
<1>4. Cardinality(ids) \in Nat
  BY <1>3, FS_CardinalityType
<1>5. /\ order \in [1..Cardinality(ids) -> ids]
      /\ \A i, j \in 1..Cardinality(ids) : i # j => order[i] # order[j]
  BY DEF SetToSeqs
<1>6. order \in Seq(ids)
  BY <1>4, <1>5, SeqDef
<1>7. /\ order \in Seq(IdsIn(log) \ (PlacedIn(log) \cup DroppedIn(log)))
      /\ order \in Seq(Ids)
  BY <1>2, <1>6, LogSets, SeqMonotonic
<1>8. \A k, l \in DOMAIN order : order[k] = order[l] => k = l
  BY <1>5
<1>9. /\ e.kind = "SlotCommitted" /\ e.slot = s /\ e.intents = order
      /\ e.commitment = Stamp /\ e.committed_at_ms = Stamp
      /\ e \in Entry
  BY <1>1, <1>7 DEF SlotClosed, Entry
<1> HIDE DEF e
<1>10. s \notin CommittedSlots(log)
  BY <1>1 DEF LogInv
<1>11. Fits(log, e)
  BY <1>7, <1>8, <1>9, <1>10 DEF Fits
<1>12. Carries(e, Data)
  BY <1>1, <1>9 DEF Carries, Data
<1>13. QED
  BY <1>9, <1>11, <1>12 DEF Fitting, e

LEMMA RulingFits ==
  ASSUME LogInv, NEW s \in CommittedSlots(log) \ RuledSlots(log)
  PROVE  Fitting(Attested(s)) /\ Fitting(Refused(s))
<1>1. Stamp \in Nat /\ s \in Nat
  BY LogSets DEF LogInv, Stamp
<1>2. Fitting(Attested(s))
  <2> DEFINE e == Attested(s)
  <2>1. /\ e.kind = "SlotAttested" /\ e.slot = s
        /\ e.quote = Stamp /\ e.signature = Stamp /\ e \in Entry
    BY <1>1 DEF Attested, Entry
  <2> HIDE DEF e
  <2>2. Fits(log, e)
    BY <2>1 DEF Fits
  <2>3. Carries(e, Data)
    BY <1>1, <2>1 DEF Carries, Data, Preconf, Preconfs
  <2>4. QED
    BY <2>1, <2>2, <2>3 DEF Fitting, e
<1>3. Fitting(Refused(s))
  <2> DEFINE e == Refused(s)
  <2>1. e.kind = "AttestFailed" /\ e.slot = s /\ e.reason = Stamp /\ e \in Entry
    BY <1>1 DEF Refused, Entry
  <2> HIDE DEF e
  <2>2. Fits(log, e)
    BY <2>1 DEF Fits
  <2>3. Carries(e, Data)
    BY <1>1, <2>1 DEF Carries, Data
  <2>4. QED
    BY <2>1, <2>2, <2>3 DEF Fitting, e
<1>4. QED
  BY <1>2, <1>3

LEMMA VerdictFits ==
  ASSUME LogInv, NEW from \in AttestedSlots(log), NEW to \in AttestedSlots(log),
         from .. to \subseteq AttestedSlots(log) \ JudgedSlots(log)
  PROVE  Fitting(ProvenWith(from, to)) /\ Fitting(NotProven(from, to))
<1>1. Stamp \in Nat /\ from \in Nat /\ to \in Nat
  BY LogSets DEF LogInv, Stamp
<1>2. Fitting(ProvenWith(from, to))
  <2> DEFINE e == ProvenWith(from, to)
  <2>1. /\ e.kind = "SlotsProven" /\ e.from_slot = from /\ e.to_slot = to
        /\ e.proof \in Handle /\ e \in Entry
    BY <1>1 DEF ProvenWith, Entry, Handle
  <2> HIDE DEF e
  <2>2. Fits(log, e)
    BY <2>1 DEF Fits
  <2>3. Carries(e, Data)
    BY <1>1, <2>1 DEF Carries, Data, ProvenRange, ProvenRanges
  <2>4. QED
    BY <2>1, <2>2, <2>3 DEF Fitting, e
<1>3. Fitting(NotProven(from, to))
  <2> DEFINE e == NotProven(from, to)
  <2>1. /\ e.kind = "ProveFailed" /\ e.from_slot = from /\ e.to_slot = to
        /\ e.reason = Stamp /\ e \in Entry
    BY <1>1 DEF NotProven, Entry
  <2> HIDE DEF e
  <2>2. Fits(log, e)
    BY <2>1 DEF Fits
  <2>3. Carries(e, Data)
    BY <1>1, <2>1 DEF Carries, Data
  <2>4. QED
    BY <2>1, <2>2, <2>3 DEF Fitting, e
<1>4. QED
  BY <1>2, <1>3

-----------------------------------------------------------------------------
(* The invariant is kept.                                                  *)

LEMMA LogInvOn ==
  ASSUME LogInv, NEW e, Fitting(e), log' = Append(log, e)
  PROVE  LogInv'
<1>1. /\ log \in Seq(Entry) /\ e \in Entry /\ Len(log) \in Nat
      /\ log' \in Seq(Entry) /\ Len(log') = Len(log) + 1
      /\ log'[Len(log) + 1] = e
      /\ \A n \in 1..Len(log) : log'[n] = log[n]
  BY DEF LogInv, Fitting
<1>2. History(log', Data)
  BY <1>1, HistoryOn DEF LogInv, Fitting
<1>3. Extends(log', log, e, Len(log) + 1)
  BY <1>1, AppendExtends
<1>4. /\ Commits(log') = IF e.kind = "SlotCommitted" THEN Commits(log) \cup {Len(log) + 1}
                         ELSE Commits(log)
      /\ Len(log) + 1 \notin Commits(log)
  BY <1>3 DEF Extends, Commits
<1>5. CommittedSlots(log') = CommittedSlots(log) \cup NewSlots(e)
  BY <1>3, SetsGrow
<1>6. /\ IsFiniteSet(Commits(log)) /\ Cardinality(Commits(log)) \in Nat
      /\ CommittedSlots(log) \subseteq Nat
  BY LogSets
<1>7. \A s \in CommittedSlots(log') : s < Cardinality(Commits(log'))
  <2>1. CASE e.kind = "SlotCommitted"
    <3>1. Cardinality(Commits(log')) = Cardinality(Commits(log)) + 1
      BY <1>4, <1>6, <2>1, FS_AddElement
    <3>2. NewSlots(e) = {Cardinality(Commits(log))}
      BY <2>1 DEF NewSlots, Fitting
    <3>3. QED
      BY <1>5, <1>6, <3>1, <3>2 DEF LogInv
  <2>2. CASE e.kind # "SlotCommitted"
    BY <1>4, <1>5, <2>2 DEF NewSlots, LogInv
  <2>3. QED
    BY <2>1, <2>2
<1>8. QED
  BY <1>1, <1>2, <1>7 DEF LogInv

LEMMA PutKeeps ==
  ASSUME LogInv, ModelInv, ClientInv, NEW e, Fitting(e), Put(e)
  PROVE  LogInv' /\ ModelInv' /\ ClientInv'
<1>1. log' = Append(log, e) /\ UNCHANGED <<model, projector, batchEnd, client>>
  BY DEF Put
<1>2. /\ log \in Seq(Entry) /\ e \in Entry /\ Len(log) \in Nat
      /\ Len(log') = Len(log) + 1
  BY <1>1 DEF LogInv, Fitting
<1>3. LogInv'
  BY <1>1, LogInvOn
<1>4. Read' = Read
  BY <1>1, <1>2, PrefixStays DEF ModelInv, Read
<1>5. ModelInv'
  <2>1. model'.cursor \in 0..Len(log')
    BY <1>1, <1>2 DEF ModelInv
  <2>2. projector' = "applying" => batchEnd' \in model'.cursor..Len(log')
    BY <1>1, <1>2 DEF ModelInv
  <2>3. Reads(model', Read', Data)
    BY <1>1, <1>4 DEF ModelInv
  <2>4. QED
    BY <2>1, <2>2, <2>3 DEF ModelInv
<1>6. ClientInv'
  <2>1. model'.cursor = model.cursor /\ client' = client /\ model.cursor \in Nat
    BY <1>1, <1>2 DEF ModelInv
  <2>2. model.cursor < Len(log) => model'.cursor < Len(log')
    BY <1>2, <2>1
  <2>3. QED
    BY <2>1, <2>2, ZenonT(20) DEF ClientInv
<1>7. QED
  BY <1>3, <1>5, <1>6

LEMMA WritersFit ==
  ASSUME LogInv, Pipeline
  PROVE  \E e : Fitting(e) /\ Put(e)
<1>1. CASE Submit
  BY <1>1, AdmissionFits DEF Submit
<1>2. CASE Drop
  BY <1>2, MissFits DEF Drop
<1>3. CASE CloseSlot
  BY <1>3, SlotFits DEF CloseSlot
<1>4. CASE RuleOnSlot
  BY <1>4, RulingFits DEF RuleOnSlot
<1>5. CASE JudgeSlots
  BY <1>5, VerdictFits DEF JudgeSlots
<1>6. QED
  BY <1>1, <1>2, <1>3, <1>4, <1>5 DEF Pipeline

LEMMA ApplyKeeps ==
  ASSUME LogInv, ModelInv, ClientInv, Apply
  PROVE  ModelInv' /\ ClientInv' /\ model'.cursor = batchEnd
<1>1. /\ projector = "applying" /\ client.phase # "missed"
      /\ model' = Folded(model, log, batchEnd)
      /\ projector' = "waiting" /\ UNCHANGED <<log, client>>
  BY DEF Apply
<1>2. log \in Seq(Entry) /\ Len(log) \in Nat
  BY DEF LogInv
<1>3. model.cursor \in 0..Len(log) /\ batchEnd \in model.cursor..Len(log)
  BY <1>1 DEF ModelInv
<1>4. Reads(Folded(model, log, batchEnd), SubSeq(log, 1, batchEnd), Data)
  BY <1>2, <1>3, FoldReads, NoneIsApart DEF LogInv, ModelInv, Read
<1>5. batchEnd \in 0..Len(log) /\ Len(SubSeq(log, 1, batchEnd)) = batchEnd
  BY <1>2, <1>3
<1>6. model'.cursor = batchEnd
  BY <1>1, <1>4, <1>5 DEF Reads
<1>7. Reads(model', SubSeq(log', 1, model'.cursor), Data)
  BY <1>1, <1>4, <1>6
<1>8. ModelInv'
  BY <1>1, <1>5, <1>6, <1>7 DEF ModelInv, Read
<1>9. ClientInv'
  BY <1>1 DEF ClientInv
<1>10. QED
  BY <1>6, <1>8, <1>9

-----------------------------------------------------------------------------
(* Statuses.                                                               *)

\* The two ways to say how far a slot has come.
LEMMA StageSays ==
  ASSUME NEW r, Coherent(r), NEW s \in CommittedSlots(r)
  PROVE  /\ StageOf(r, s) = "Failed" => StageIn(r, s) \in {"unproven", "refused"}
         /\ StageOf(r, s) = "Proven" => StageIn(r, s) = "proven"
         /\ StageOf(r, s) = "Preconfirmed" => StageIn(r, s) = "attested"
         /\ StageOf(r, s) = "Committed" => StageIn(r, s) = "committed"
         /\ StageOf(r, s) \in {"Failed", "Proven", "Preconfirmed", "Committed"}
<1> DEFINE verdict == {p \in Verdicts(r) : s \in Covers(r, p)}
           proven == \E p \in verdict : r[p].kind = "SlotsProven"
           By(kind) == \E p \in Of(r, {kind}) : r[p].slot = s
<1>1. proven <=> s \in ProvenIn(r)
  BY DEF ProvenIn, Of, Verdicts
<1>2. verdict # {} <=> s \in ProvenIn(r) \cup UnprovenIn(r)
  BY BothKinds DEF ProvenIn, UnprovenIn
<1>3. /\ By("AttestFailed") <=> s \in RefusedIn(r)
      /\ By("SlotAttested") <=> s \in AttestedSlots(r)
      /\ By("SlotCommitted")
  BY DEF RefusedIn, AttestedSlots, CommittedSlots, Commits
<1>4. StageIn(r, s) =
        IF proven THEN "proven"
        ELSE IF verdict # {} THEN "unproven"
        ELSE IF By("AttestFailed") THEN "refused"
        ELSE IF By("SlotAttested") THEN "attested"
        ELSE IF By("SlotCommitted") THEN "committed"
        ELSE "open"
  BY DEF StageIn
<1> HIDE DEF verdict, proven, By
<1>5. StageIn(r, s) =
        IF s \in ProvenIn(r) THEN "proven"
        ELSE IF s \in UnprovenIn(r) THEN "unproven"
        ELSE IF s \in RefusedIn(r) THEN "refused"
        ELSE IF s \in AttestedSlots(r) THEN "attested"
        ELSE "committed"
  BY <1>1, <1>2, <1>3, <1>4
<1>6. /\ AttestedSlots(r) \cap RefusedIn(r) = {}
      /\ ProvenIn(r) \cap UnprovenIn(r) = {}
      /\ ProvenIn(r) \cup UnprovenIn(r) \subseteq AttestedSlots(r)
  BY StagesApart
<1>7. QED
  BY <1>5, <1>6 DEF StageOf

\* What a client is told of an intent in a slot that is at a stage.
Told(stage) ==
  CASE stage = "Committed"    -> "sequenced"
    [] stage = "Preconfirmed" -> "preconfirmed"
    [] stage = "Proven"       -> "final_proven"
    [] OTHER                  -> "failed"

\* The slot an intent is in gives its status.
LEMMA PlacedStatus ==
  ASSUME NEW r, Coherent(r), NEW id \in IdsIn(r), id \notin DroppedIn(r),
         NEW p \in Commits(r), NEW k \in DOMAIN r[p].intents, r[p].intents[k] = id
  PROVE  StatusIn(r, id) = Told(StageOf(r, r[p].slot))
<1>1. \A q \in Commits(r) : DOMAIN r[q].intents = 1..Len(r[q].intents)
  BY DEF Coherent
<1>2. Contains(r[p].intents, id)
  BY <1>1 DEF Contains
<1>3. ASSUME NEW q \in Commits(r), Contains(r[q].intents, id)
      PROVE  q = p
  <2>1. PICK l \in DOMAIN r[q].intents : r[q].intents[l] = id
    BY <1>1, <1>3 DEF Contains
  <2>2. r[q].intents[l] = r[p].intents[k] => q = p /\ l = k
    BY DEF Coherent
  <2>3. QED
    BY <2>1, <2>2
<1>4. (CHOOSE q \in Commits(r) : Contains(r[q].intents, id)) = p
  BY <1>2, <1>3
<1>5. id \in PlacedIn(r)
  BY DEF PlacedIn, ToSet
<1> DEFINE s == r[p].slot
<1>6. s \in CommittedSlots(r)
  BY DEF CommittedSlots
<1>7. StatusIn(r, id) =
        CASE StageIn(r, s) = "committed" -> "sequenced"
          [] StageIn(r, s) = "attested"  -> "preconfirmed"
          [] StageIn(r, s) = "proven"    -> "final_proven"
          [] OTHER                       -> "failed"
  BY <1>4, <1>5, SameIds DEF StatusIn
<1> HIDE DEF s
<1>8. CASE StageOf(r, s) = "Failed"
  <2>1. StageIn(r, s) \in {"unproven", "refused"}
    BY <1>6, <1>8, StageSays
  <2>2. QED
    BY <1>7, <1>8, <2>1 DEF Told, s
<1>9. CASE StageOf(r, s) # "Failed"
  BY <1>6, <1>7, <1>9, StageSays DEF Told, s
<1>10. QED
  BY <1>8, <1>9

\* What the row of an intent makes of its lifecycle is what the log says.
LEMMA LifecycleSays ==
  ASSUME NEW m, NEW r, Reads(m, r, Data), Coherent(r), NEW id \in IdsIn(r)
  PROVE  /\ lifecycle(m, m.intents[id]) = StatusIn(r, id)
         /\ StatusIn(r, id) \in Statuses
<1> DEFINE row == m.intents[id]
<1>1. MissRead(row, id, r) /\ PlaceRead(row, id, r)
  BY DEF Reads, IntentRead
<1> HIDE DEF row
<1>2. CASE id \in DroppedIn(r)
  BY <1>1, <1>2, SameIds DEF MissRead, lifecycle, StatusIn, Statuses, row
<1>3. CASE id \notin DroppedIn(r) /\ id \notin PlacedIn(r)
  BY <1>1, <1>3, SameIds DEF MissRead, PlaceRead, lifecycle, StatusIn, Statuses, row
<1>4. CASE id \notin DroppedIn(r) /\ id \in PlacedIn(r)
  <2>1. row.expired = None /\ row.slot # None
    BY <1>1, <1>4 DEF MissRead, PlaceRead
  <2>2. PICK p \in Commits(r) : \E k \in DOMAIN r[p].intents :
          r[p].slot = row.slot /\ r[p].intents[k] = id
    BY <1>1, <2>1 DEF PlaceRead
  <2> DEFINE s == row.slot
             stage == StageOf(r, s)
  <2>3. StatusIn(r, id) = Told(stage)
    BY <1>4, <2>2, PlacedStatus
  <2>4. s \in CommittedSlots(r)
    BY <2>2 DEF CommittedSlots
  <2>5. s \in DOMAIN m.slots /\ m.slots[s].stage = stage
    BY <2>4 DEF Reads, SlotRead
  <2>6. stage \in {"Failed", "Proven", "Preconfirmed", "Committed"}
    BY <2>4, StageSays
  <2>7. lifecycle(m, row) =
          CASE stage = "Committed"    -> "sequenced"
            [] stage = "Preconfirmed" -> "preconfirmed"
            [] stage = "Proven"       -> "final_proven"
            [] stage = "Failed"       -> "failed"
    BY <2>1, <2>5 DEF lifecycle
  <2> HIDE DEF stage
  <2>8. lifecycle(m, row) = Told(stage) /\ Told(stage) \in Statuses
    BY <2>6, <2>7 DEF Told, Statuses
  <2>9. QED
    BY <2>3, <2>8 DEF row
<1>5. QED
  BY <1>2, <1>3, <1>4

\* The lifecycle of a row in a slot is failed when the slot's is.
LEMMA FailedRow ==
  ASSUME NEW m, NEW r, Reads(m, r, Data), NEW id \in IdsIn(r),
         lifecycle(m, m.intents[id]) = "failed"
  PROVE  /\ m.intents[id].slot \in CommittedSlots(r)
         /\ m.slots[m.intents[id].slot] \in SlotRows(Data)
<1> DEFINE row == m.intents[id]
<1>1. /\ row.slot # None /\ PlaceRead(row, id, r)
  BY DEF lifecycle, Reads, IntentRead
<1> HIDE DEF row
<1>2. row.slot \in CommittedSlots(r)
  BY <1>1 DEF PlaceRead, CommittedSlots
<1>3. QED
  BY <1>2 DEF Reads, row

LEMMA ReasonIsData ==
  ASSUME NEW m, NEW r, Reads(m, r, Data), NEW id \in IdsIn(r)
  PROVE  ReasonOf(m, m.intents[id]) \in Data \cup {None}
<1>1. CASE lifecycle(m, m.intents[id]) = "failed"
  <2>1. m.slots[m.intents[id].slot] \in SlotRows(Data)
    BY <1>1, FailedRow
  <2>2. m.slots[m.intents[id].slot].reason \in Data \cup {None}
    BY <2>1 DEF SlotRows
  <2>3. QED
    BY <1>1, <2>2 DEF ReasonOf
<1>2. CASE lifecycle(m, m.intents[id]) # "failed"
  BY <1>2 DEF ReasonOf
<1>3. QED
  BY <1>1, <1>2

LEMMA StatusSays ==
  ASSUME NEW m, NEW r, Reads(m, r, Data), Coherent(r), NEW id \in Ids
  PROVE  /\ id \in IdsIn(r) =>
              /\ status_of(m, id) # None
              /\ status_of(m, id).lifecycle = StatusIn(r, id)
              /\ StatusIn(r, id) \in Statuses
         /\ id \notin IdsIn(r) => status_of(m, id) = None /\ StatusIn(r, id) = None
<1>1. DOMAIN m.intents = IdsIn(r)
  BY DEF Reads
<1>2. CASE id \in IdsIn(r)
  <2> DEFINE row == m.intents[id]
  <2>1. /\ lifecycle(m, row) = StatusIn(r, id) /\ StatusIn(r, id) \in Statuses
        /\ row.slot \in Nat \cup {None}
        /\ ReasonOf(m, row) \in Data \cup {None}
    <3>1. lifecycle(m, row) = StatusIn(r, id) /\ StatusIn(r, id) \in Statuses
      BY <1>2, LifecycleSays
    <3>2. row \in IntentRows(Data)
      BY <1>2 DEF Reads
    <3>3. row.slot \in Nat \cup {None}
      BY <3>2 DEF IntentRows
    <3>4. ReasonOf(m, row) \in Data \cup {None}
      BY <1>2, ReasonIsData
    <3>5. QED
      BY <3>1, <3>3, <3>4
  <2>2. lifecycle(m, row) # None
    BY <2>1, NoneAssumption DEF NoneIsDistinct
  <2>3. status_of(m, id) = StatusResponse(m, id, row)
    BY <1>1, <1>2, <2>2 DEF status_of
  <2>4. StatusResponse(m, id, row)
          = [intent_id |-> id, lifecycle |-> StatusIn(r, id),
             reason |-> ReasonOf(m, row), slot |-> row.slot]
    BY <2>1 DEF StatusResponse
  <2>5. StatusResponse(m, id, row)
          \in [intent_id : Ids, lifecycle : Statuses, reason : Data \cup {None},
               slot : Nat \cup {None}]
    BY <2>1, <2>4
  <2>6. QED
    BY <1>2, <2>1, <2>3, <2>4, <2>5, NoneAssumption DEF NoneIsDistinct
<1>3. CASE id \notin IdsIn(r)
  BY <1>1, <1>3, SameIds DEF status_of, StatusIn
<1>4. QED
  BY <1>2, <1>3

\* The entries read are a log of their own.
LEMMA ReadIsCoherent ==
  ASSUME LogInv, ModelInv
  PROVE  Coherent(Read) /\ Len(Read) = model.cursor
<1>1. log \in Seq(Entry) /\ History(log, Data) /\ model.cursor \in 0..Len(log)
  BY DEF LogInv, ModelInv
<1>2. QED
  BY <1>1, AllCoherent, Prefix DEF Read

LEMMA LookKeeps ==
  ASSUME LogInv, ModelInv, ClientInv, NEW id \in Polled, Look(id)
  PROVE  ClientInv'
<1>1. UNCHANGED <<log, model>>
  BY DEF Look
<1>2. id \in Ids
  BY ProjectionAssumption
<1>3. CASE status_of(model, id) # None
  <2>1. client' = [phase |-> "idle"]
    BY <1>3 DEF Look
  <2>2. QED
    BY <2>1 DEF ClientInv
<1>4. CASE status_of(model, id) = None
  <2>1. client' = [phase |-> "missed", known |-> id \in ReceivedIds(log)]
    BY <1>4 DEF Look
  <2>2. id \notin IdsIn(Read)
    BY <1>2, <1>4, ReadIsCoherent, StatusSays DEF ModelInv
  <2>3. id \in ReceivedIds(log) => model.cursor < Len(log)
    <3>1. log \in Seq(Entry) /\ model.cursor \in 0..Len(log)
      BY DEF LogInv, ModelInv
    <3>2. model.cursor = Len(log) => Read = log
      BY <3>1 DEF Read
    <3>3. QED
      BY <2>2, <3>1, <3>2, SameIds
  <2>4. client'.phase = "missed" /\ (client'.known <=> id \in ReceivedIds(log))
    BY <2>1
  <2>5. QED
    BY <1>1, <2>3, <2>4 DEF ClientInv
<1>5. QED
  BY <1>3, <1>4

LEMMA InvAtStart == Init => LogInv /\ ModelInv /\ ClientInv
<1> SUFFICES ASSUME Init PROVE LogInv /\ ModelInv /\ ClientInv
  OBVIOUS
<1>1. log = <<>> /\ model = Empty /\ projector = "waiting" /\ client = [phase |-> "idle"]
  BY DEF Init
<1>2. Len(log) = 0 /\ log \in Seq(Entry)
  BY <1>1
<1>3. LogInv
  <2>1. Commits(log) = {}
    BY <1>1 DEF Commits, Of
  <2>2. CommittedSlots(log) = {}
    BY <2>1 DEF CommittedSlots
  <2>3. QED
    BY <1>2, <2>2 DEF LogInv, History
<1>4. ModelInv
  <2>1. model.cursor = 0
    BY <1>1 DEF Empty
  <2>2. Read = <<>>
    BY <1>1, <2>1 DEF Read
  <2>3. QED
    BY <1>1, <1>2, <2>1, <2>2, NothingRead DEF ModelInv
<1>5. ClientInv
  BY <1>1 DEF ClientInv
<1>6. QED
  BY <1>3, <1>4, <1>5

ProjectionInv == LogInv /\ ModelInv /\ ClientInv

LEMMA InvKeeps == ProjectionInv /\ [Next]_vars => ProjectionInv'
<1> SUFFICES ASSUME LogInv, ModelInv, ClientInv, [Next]_vars
             PROVE  LogInv' /\ ModelInv' /\ ClientInv'
  BY DEF ProjectionInv
<1>1. CASE Pipeline
  BY <1>1, WritersFit, PutKeeps
<1>2. ASSUME UNCHANGED <<log, model, client>>,
             projector' = "applying" => batchEnd' \in model.cursor..Len(log)
      PROVE  LogInv' /\ ModelInv' /\ ClientInv'
  <2>1. LogInv'
    BY <1>2 DEF LogInv
  <2>2. ModelInv'
    BY <1>2 DEF ModelInv, Read
  <2>3. ClientInv'
    BY <1>2 DEF ClientInv
  <2>4. QED
    BY <2>1, <2>2, <2>3
<1>3. CASE Wake
  BY <1>2, <1>3 DEF Wake
<1>4. CASE ReadTail
  <2>1. Len(log) \in model.cursor..Len(log)
    BY DEF LogInv, ModelInv
  <2>2. QED
    BY <1>2, <1>4, <2>1 DEF ReadTail
<1>5. CASE SkipRead
  BY <1>2, <1>5 DEF SkipRead
<1>6. CASE Apply
  <2>1. LogInv'
    BY <1>6 DEF LogInv, Apply
  <2>2. QED
    BY <1>6, <2>1, ApplyKeeps
<1>7. ASSUME UNCHANGED <<log, model, proVars>>
      PROVE  LogInv' /\ ModelInv'
  <2>1. LogInv'
    BY <1>7 DEF LogInv
  <2>2. ModelInv'
    BY <1>7 DEF ModelInv, Read, proVars
  <2>3. QED
    BY <2>1, <2>2
<1>8. CASE \E id \in Polled : Look(id)
  <2>1. PICK id \in Polled : Look(id)
    BY <1>8
  <2>2. UNCHANGED <<log, model, proVars>>
    BY <2>1 DEF Look
  <2>3. ClientInv'
    BY <2>1, LookKeeps
  <2>4. QED
    BY <1>7, <2>2, <2>3
<1>9. CASE Miss
  <2>1. UNCHANGED <<log, model, proVars>> /\ client.phase = "missed"
    BY <1>9 DEF Miss
  <2>2. CASE Lagging(model, Len(log))
    <3>1. client' = [phase |-> "idle"]
      BY <1>9, <2>2 DEF Miss
    <3>2. QED
      BY <1>7, <2>1, <3>1 DEF ClientInv
  <2>3. CASE ~ Lagging(model, Len(log))
    <3>1. client' = [phase |-> "not found", known |-> client.known]
      BY <1>9, <2>3 DEF Miss
    <3>2. ~ client.known
      BY <2>1, <2>3 DEF ClientInv, Lagging
    <3>3. client'.phase = "not found" /\ ~ client'.known
      BY <3>1, <3>2
    <3>4. ClientInv'
      BY <3>3 DEF ClientInv
    <3>5. QED
      BY <1>7, <2>1, <3>4
  <2>4. QED
    BY <2>2, <2>3
<1>10. CASE Restart
  <2>1. /\ log' = log /\ model' = Empty /\ projector' = "waiting"
        /\ client' = [phase |-> "idle"]
    BY <1>10 DEF Restart
  <2>2. log \in Seq(Entry) /\ Len(log) \in Nat
    BY DEF LogInv
  <2>3. LogInv'
    BY <2>1 DEF LogInv
  <2>4. ModelInv'
    <3>1. model'.cursor = 0
      BY <2>1 DEF Empty
    <3>2. Read' = <<>>
      BY <2>1, <2>2, <3>1 DEF Read
    <3>3. QED
      BY <2>1, <2>2, <3>1, <3>2, NothingRead DEF ModelInv
  <2>5. ClientInv'
    BY <2>1 DEF ClientInv
  <2>6. QED
    BY <2>3, <2>4, <2>5
<1>11. CASE UNCHANGED vars
  BY <1>2, <1>11 DEF vars, proVars, ModelInv
<1>12. QED
  BY <1>1, <1>3, <1>4, <1>5, <1>6, <1>8, <1>9, <1>10, <1>11 DEF Next

LEMMA InvHolds == Spec => []ProjectionInv
<1>1. Init => ProjectionInv
  BY InvAtStart DEF ProjectionInv
<1>2. QED
  BY <1>1, InvKeeps, PTL DEF Spec

-----------------------------------------------------------------------------

\* "One is terminal, the other is a retry" (api.rs:97-99): for any ids, batches
\* and restarts, what the log had when the client asked is never "not found".
THEOREM NeverFalselyUnknown == Spec => []NotFoundIsTrue
<1>1. ProjectionInv => NotFoundIsTrue
  BY DEF ProjectionInv, ClientInv, NotFoundIsTrue
<1>2. QED
  BY <1>1, InvHolds, PTL

-----------------------------------------------------------------------------
(* Receipts.                                                               *)

\* The rows a receipt is made from.
RowsRead(row, slotRow, id) ==
  /\ row \in IntentRows(Data)
  /\ AdmissionRead(row, id, Read) /\ MissRead(row, id, Read) /\ PlaceRead(row, id, Read)
  /\ row.slot = None => slotRow = None
  /\ row.slot # None =>
       /\ row.slot \in CommittedSlots(Read)
       /\ row.slot \in DOMAIN model.slots
       /\ slotRow = model.slots[row.slot]
       /\ slotRow \in SlotRows(Data) /\ slotRow # None
       /\ SlotRead(slotRow, row.slot, Read)
  /\ row.expired # None => row.slot = None

LEMMA RowsAreRead ==
  ASSUME LogInv, ModelInv, NEW id \in IdsIn(Read)
  PROVE  RowsRead(model.intents[id], SlotRowOf(model, model.intents[id]), id)
<1> DEFINE row == model.intents[id]
           slotRow == SlotRowOf(model, row)
<1>1. /\ Reads(model, Read, Data) /\ Coherent(Read)
      /\ Read \in Seq(Entry)
  BY ReadIsCoherent, Prefix DEF ModelInv, LogInv, Read
<1>2. /\ row \in IntentRows(Data)
      /\ AdmissionRead(row, id, Read) /\ MissRead(row, id, Read) /\ PlaceRead(row, id, Read)
  BY <1>1 DEF Reads, IntentRead
<1>3. CommittedSlots(Read) \subseteq Nat
  <2>1. \A p \in Of(Read, {"SlotCommitted"}) : Read[p] \in Entry /\ Read[p].kind = "SlotCommitted"
    BY <1>1 DEF Of
  <2>2. \A p \in Of(Read, {"SlotCommitted"}) : Read[p].slot \in Nat
    BY <2>1 DEF Entry
  <2>3. QED
    BY <2>2 DEF CommittedSlots, Commits
<1>4. DOMAIN model.slots = CommittedSlots(Read)
  BY <1>1 DEF Reads
<1>5. row.slot = None => slotRow = None
  BY <1>3, <1>4, NoneAssumption DEF NoneIsDistinct, SlotRowOf
<1>6. ASSUME row.slot # None
      PROVE  /\ row.slot \in CommittedSlots(Read)
             /\ slotRow = model.slots[row.slot]
             /\ slotRow \in SlotRows(Data) /\ slotRow # None
             /\ SlotRead(slotRow, row.slot, Read)
  <2>1. row.slot \in CommittedSlots(Read)
    BY <1>2, <1>6 DEF PlaceRead, CommittedSlots
  <2>2. slotRow = model.slots[row.slot]
    BY <1>4, <2>1 DEF SlotRowOf
  <2>3. /\ model.slots[row.slot] \in SlotRows(Data)
        /\ SlotRead(model.slots[row.slot], row.slot, Read)
    BY <1>1, <2>1 DEF Reads
  <2>4. QED
    BY <2>1, <2>2, <2>3, NoneAssumption DEF NoneIsDistinct
<1>7. row.expired # None => row.slot = None
  BY <1>1, <1>2 DEF MissRead, PlaceRead, Coherent
<1>8. QED
  BY <1>2, <1>4, <1>5, <1>6, <1>7 DEF RowsRead

\* The lifecycles the evidence has to agree with.
LEMMA LifecycleOfRow ==
  ASSUME NEW row, NEW slotRow, NEW id, RowsRead(row, slotRow, id)
  PROVE  /\ lifecycle(model, row) = "expired" <=> row.expired # None
         /\ lifecycle(model, row) = "final_proven" <=>
              row.slot # None /\ slotRow.stage = "Proven"
         /\ lifecycle(model, row) = "failed" <=>
              row.slot # None /\ slotRow.stage = "Failed"
<1>1. CASE row.expired # None
  BY <1>1 DEF RowsRead, lifecycle
<1>2. CASE row.expired = None /\ row.slot = None
  BY <1>2 DEF RowsRead, lifecycle
<1>3. CASE row.expired = None /\ row.slot # None
  <2>1. /\ row.slot \in DOMAIN model.slots /\ slotRow = model.slots[row.slot]
        /\ slotRow.stage \in {"Committed", "Preconfirmed", "Proven", "Failed"}
    BY <1>3 DEF RowsRead, SlotRows
  <2>2. lifecycle(model, row) =
          CASE slotRow.stage = "Committed"    -> "sequenced"
            [] slotRow.stage = "Preconfirmed" -> "preconfirmed"
            [] slotRow.stage = "Proven"       -> "final_proven"
            [] slotRow.stage = "Failed"       -> "failed"
    BY <1>3, <2>1 DEF lifecycle
  <2>3. QED
    BY <1>3, <2>1, <2>2
<1>4. QED
  BY <1>1, <1>2, <1>3

LEMMA AdmissionInLog ==
  ASSUME LogInv, ModelInv, NEW id, NEW row, NEW slotRow, RowsRead(row, slotRow, id),
         NEW now
  PROVE  /\ AdmissionIn(Read, Receipt(model, id, row, slotRow, now))
         /\ PromiseIn(Read, Receipt(model, id, row, slotRow, now), now)
<1> DEFINE r == Receipt(model, id, row, slotRow, now)
<1>1. /\ r.intent_id = id /\ r.log_position = row.position
      /\ r.guarantee.received_at_ms = row.received_at_ms
      /\ r.guarantee.deadline_ms = row.received_at_ms + Window
      /\ r.guarantee.intent_deadline_ms = row.deadline_ms
      /\ r.guarantee.state = GuaranteeState(row, slotRow, now)
      /\ r.sequence = IF slotRow = None THEN None ELSE SequencePosition(row, slotRow)
  BY DEF Receipt, InclusionGuarantee, deadline_for
<1> HIDE DEF r
<1>2. PICK p \in Of(Read, {"IntentReceived"}) :
        /\ Read[p].intent.id = id
        /\ row.position = p - 1
        /\ row.received_at_ms = Read[p].received_at
        /\ row.deadline_ms = Read[p].intent.deadline_ms
  BY DEF RowsRead, AdmissionRead
<1>3. p \in Nat /\ Read[p].kind = "IntentReceived"
  <2>1. Read \in Seq(Entry)
    BY Prefix DEF ModelInv, LogInv, Read
  <2>2. DOMAIN Read = 1..Len(Read) /\ Len(Read) \in Nat
    BY <2>1
  <2>3. QED
    BY <2>2 DEF Of
<1>4. r.log_position + 1 = p
  BY <1>1, <1>2, <1>3
<1>5. AdmissionIn(Read, r)
  BY <1>1, <1>2, <1>3, <1>4 DEF AdmissionIn
<1>6. PromiseIn(Read, r, now)
  <2>1. row.received_at_ms = Read[r.log_position + 1].received_at
    BY <1>2, <1>4
  <2>2. SUFFICES ASSUME r.guarantee.state.state \notin {"met", "missed"}
                 PROVE  r.guarantee.state.state
                          = IF now > row.received_at_ms + Window THEN "overdue" ELSE "pending"
    BY <2>1 DEF PromiseIn
  <2>3. row.expired = None /\ slotRow = None
    BY <1>1, <2>2 DEF GuaranteeState
  <2>4. QED
    BY <1>1, <2>3 DEF GuaranteeState, deadline_for
<1>7. QED
  BY <1>5, <1>6 DEF r

LEMMA PlaceInLog ==
  ASSUME LogInv, ModelInv, NEW id, NEW row, NEW slotRow, RowsRead(row, slotRow, id),
         NEW now
  PROVE  PlaceIn(Read, Receipt(model, id, row, slotRow, now))
<1> DEFINE r == Receipt(model, id, row, slotRow, now)
<1>1. /\ r.intent_id = id
      /\ r.sequence = IF slotRow = None THEN None ELSE SequencePosition(row, slotRow)
      /\ r.guarantee.state = GuaranteeState(row, slotRow, now)
  BY DEF Receipt, InclusionGuarantee
<1> HIDE DEF r
<1>2. SUFFICES ASSUME r.sequence # None
               PROVE  \E p \in Commits(Read) :
                        /\ Read[p].slot = r.sequence.slot
                        /\ Read[p].intents[r.sequence.index + 1] = r.intent_id
                        /\ Read[p].commitment = r.sequence.slot_commitment
                        /\ r.guarantee.state.state = "met" =>
                             /\ r.guarantee.state.slot = r.sequence.slot
                             /\ r.guarantee.state.committed_at_ms = Read[p].committed_at_ms
  BY DEF PlaceIn, r
<1>3. slotRow # None /\ row.slot # None
  BY <1>1, <1>2 DEF RowsRead
<1>4. /\ r.sequence.slot = row.slot /\ r.sequence.index = row.index
      /\ r.sequence.slot_commitment = slotRow.commitment
  BY <1>1, <1>3 DEF SequencePosition
<1>5. PICK p \in Commits(Read) : \E k \in DOMAIN Read[p].intents :
        Read[p].slot = row.slot /\ Read[p].intents[k] = id /\ row.index = k - 1
  BY <1>3 DEF RowsRead, PlaceRead
<1>6. PICK k \in DOMAIN Read[p].intents :
        Read[p].slot = row.slot /\ Read[p].intents[k] = id /\ row.index = k - 1
  BY <1>5
<1>7. Coherent(Read)
  BY ReadIsCoherent
<1>8. k \in Int
  <2>1. DOMAIN Read[p].intents = 1..Len(Read[p].intents)
    BY <1>7 DEF Coherent
  <2>2. QED
    BY <1>6, <2>1
<1>9. r.sequence.index + 1 = k
  BY <1>4, <1>6, <1>8
<1>10. PICK q \in Commits(Read) : /\ Read[q].slot = row.slot
                                  /\ slotRow.commitment = Read[q].commitment
                                  /\ slotRow.committed_at_ms = Read[q].committed_at_ms
  BY <1>3 DEF RowsRead, SlotRead, CommitRead
<1>11. q = p
  BY <1>6, <1>7, <1>10 DEF Coherent
<1>12. /\ r.guarantee.state.slot = row.slot
       /\ r.guarantee.state.committed_at_ms = slotRow.committed_at_ms
  <2>1. row.expired = None
    BY <1>3 DEF RowsRead
  <2>2. GuaranteeState(row, slotRow, now) =
          [state |-> "met", slot |-> row.slot, committed_at_ms |-> slotRow.committed_at_ms]
    BY <1>3, <2>1 DEF GuaranteeState
  <2>3. QED
    BY <1>1, <2>2
<1>13. QED
  BY <1>1, <1>4, <1>6, <1>9, <1>10, <1>11, <1>12

LEMMA SequenceIsSome ==
  ASSUME LogInv, ModelInv, NEW id, NEW row, NEW slotRow, RowsRead(row, slotRow, id),
         slotRow # None
  PROVE  SequencePosition(row, slotRow) # None
<1>1. row.slot # None
  BY DEF RowsRead
<1>2. row \in IntentRows(Data) /\ slotRow \in SlotRows(Data)
  BY <1>1 DEF RowsRead
<1>3. PICK p \in Commits(Read) : \E k \in DOMAIN Read[p].intents : row.index = k - 1
  BY <1>1 DEF RowsRead, PlaceRead
<1>4. DOMAIN Read[p].intents = 1..Len(Read[p].intents)
  BY <1>3, ReadIsCoherent DEF Coherent
<1>5. \A k \in 1..Len(Read[p].intents) : k - 1 \in Nat
  <2>1. ASSUME NEW k \in 1..Len(Read[p].intents)
        PROVE  k - 1 \in Nat
    OBVIOUS
  <2>2. QED
    BY <2>1
<1>6. row.index \in Nat
  BY <1>3, <1>4, <1>5
<1>7. row.slot \in Nat /\ slotRow.commitment \in Data
  BY <1>1, <1>2 DEF IntentRows, SlotRows
<1>8. SequencePosition(row, slotRow) \in [slot : Nat, index : Nat, slot_commitment : Data]
  BY <1>6, <1>7 DEF SequencePosition
<1>9. QED
  BY <1>8, NoneAssumption DEF NoneIsDistinct

LEMMA MissInLog ==
  ASSUME LogInv, ModelInv, NEW id, NEW row, NEW slotRow, RowsRead(row, slotRow, id), NEW now
  PROVE  MissIn(Read, Receipt(model, id, row, slotRow, now))
<1> DEFINE r == Receipt(model, id, row, slotRow, now)
           state == GuaranteeState(row, slotRow, now)
<1>1. /\ r.intent_id = id /\ r.lifecycle = lifecycle(model, row)
      /\ r.sequence = IF slotRow = None THEN None ELSE SequencePosition(row, slotRow)
      /\ r.guarantee.state = state
  BY DEF Receipt, InclusionGuarantee
<1> HIDE DEF r
<1>2. r.lifecycle = "expired" <=> row.expired # None
  BY <1>1, LifecycleOfRow
<1>3. r.sequence # None <=> slotRow # None
  <2>1. slotRow # None => SequencePosition(row, slotRow) # None
    BY SequenceIsSome
  <2>2. QED
    BY <1>1, <2>1
<1>4. CASE row.expired # None
  <2>1. slotRow = None
    BY <1>4 DEF RowsRead
  <2>2. state = [state |-> "missed", deadline_ms |-> row.expired[1],
                 expired_at_ms |-> row.expired[2]]
    BY <1>4 DEF GuaranteeState
  <2>3. PICK p \in Of(Read, {"IntentExpired"}) :
          /\ Read[p].id = id
          /\ row.expired = <<Read[p].guarantee_deadline_ms, Read[p].at_ms>>
    BY <1>4 DEF RowsRead, MissRead
  <2>4. /\ state.state = "missed"
        /\ state.deadline_ms = Read[p].guarantee_deadline_ms
        /\ state.expired_at_ms = Read[p].at_ms
    BY <2>2, <2>3
  <2>5. QED
    BY <1>1, <1>2, <1>3, <1>4, <2>1, <2>3, <2>4 DEF MissIn, r
<1>5. CASE row.expired = None
  <2>1. state.state = "met" <=> slotRow # None
    BY <1>5 DEF GuaranteeState
  <2>2. state.state # "missed"
    BY <1>5 DEF GuaranteeState
  <2>3. QED
    BY <1>1, <1>2, <1>3, <1>5, <2>1, <2>2 DEF MissIn, r
<1>6. QED
  BY <1>4, <1>5

LEMMA PreconfInLog ==
  ASSUME LogInv, ModelInv, NEW id, NEW row, NEW slotRow, RowsRead(row, slotRow, id),
         NEW now
  PROVE  LET r == Receipt(model, id, row, slotRow, now)
         IN  /\ PreconfIn(Read, r)
             /\ r.preconf # None <=> slotRow # None /\ slotRow.preconf # None
             /\ r.preconf # None => r.preconf.slot = row.slot
<1> DEFINE r == Receipt(model, id, row, slotRow, now)
<1>1. /\ r.sequence = IF slotRow = None THEN None ELSE SequencePosition(row, slotRow)
      /\ r.preconf = IF slotRow = None THEN None
                     ELSE IF slotRow.preconf = None THEN None
                     ELSE PreconfRef(row, slotRow)
  BY DEF Receipt
<1> HIDE DEF r
<1>2. CASE slotRow = None
  <2>1. r.preconf = None /\ r.sequence = None
    BY <1>1, <1>2
  <2>2. QED
    BY <1>2, <2>1 DEF PreconfIn, r
<1>3. CASE slotRow # None
  <2>1. /\ row.slot # None /\ row \in IntentRows(Data) /\ slotRow \in SlotRows(Data)
        /\ PreconfRead(slotRow, row.slot, Read)
    BY <1>3 DEF RowsRead, SlotRead
  <2>2. r.sequence # None /\ r.sequence = SequencePosition(row, slotRow)
    BY <1>1, <1>3, SequenceIsSome
  <2>3. /\ r.sequence.slot = row.slot
        /\ r.sequence.slot_commitment = slotRow.commitment
    BY <2>2 DEF SequencePosition
  <2>4. CASE slotRow.preconf = None
    <3>1. r.preconf = None
      BY <1>1, <1>3, <2>4
    <3>2. row.slot \notin AttestedSlots(Read)
      BY <2>1, <2>4 DEF PreconfRead
    <3>3. QED
      BY <2>2, <2>3, <2>4, <3>1, <3>2 DEF PreconfIn, r
  <2>5. CASE slotRow.preconf # None
    <3>1. r.preconf = [slot |-> row.slot, commitment |-> slotRow.commitment,
                       quote |-> slotRow.preconf.quote,
                       signature |-> slotRow.preconf.signature]
      BY <1>1, <1>3, <2>5 DEF PreconfRef
    <3>2. row.slot \in Nat /\ slotRow.commitment \in Data /\ slotRow.preconf \in Preconfs(Data)
      BY <2>1, <2>5 DEF IntentRows, SlotRows
    <3>3. slotRow.preconf.quote \in Data /\ slotRow.preconf.signature \in Data
      BY <3>2 DEF Preconfs
    <3>4. r.preconf \in [slot : Nat, commitment : Data, quote : Data, signature : Data]
      BY <3>1, <3>2, <3>3
    <3>5. r.preconf # None
      BY <3>4, NoneAssumption DEF NoneIsDistinct
    <3>6. row.slot \in AttestedSlots(Read)
      BY <2>1, <2>5 DEF PreconfRead
    <3>7. PICK p \in Of(Read, {"SlotAttested"}) :
            Read[p].slot = row.slot /\ slotRow.preconf = Preconf(Read[p])
      BY <2>1, <2>5 DEF PreconfRead
    <3>8. /\ slotRow.preconf.quote = Read[p].quote
          /\ slotRow.preconf.signature = Read[p].signature
      BY <3>7 DEF Preconf
    <3>9. /\ r.preconf.slot = row.slot /\ r.preconf.commitment = slotRow.commitment
          /\ r.preconf.quote = Read[p].quote /\ r.preconf.signature = Read[p].signature
      BY <3>1, <3>8
    <3>10. PreconfIn(Read, r)
      BY <2>2, <2>3, <3>5, <3>6, <3>7, <3>9 DEF PreconfIn
    <3>11. QED
      BY <1>3, <2>5, <3>5, <3>9, <3>10 DEF r
  <2>6. QED
    BY <2>4, <2>5
<1>4. QED
  BY <1>2, <1>3

LEMMA ProofInLog ==
  ASSUME LogInv, ModelInv, NEW id, NEW row, NEW slotRow, RowsRead(row, slotRow, id),
         NEW now
  PROVE  ProofIn(Read, Receipt(model, id, row, slotRow, now))
<1> DEFINE r == Receipt(model, id, row, slotRow, now)
<1>1. /\ r.lifecycle = lifecycle(model, row)
      /\ r.proof = IF slotRow = None THEN None
                   ELSE IF slotRow.proof = None THEN None
                   ELSE ProofRef(slotRow)
  BY DEF Receipt
<1>2. /\ r.preconf # None <=> slotRow # None /\ slotRow.preconf # None
      /\ r.preconf # None => r.preconf.slot = row.slot
  BY PreconfInLog
<1> HIDE DEF r
<1>3. r.lifecycle = "final_proven" <=> row.slot # None /\ slotRow.stage = "Proven"
  BY <1>1, LifecycleOfRow
<1>4. CASE slotRow = None
  <2>1. r.proof = None /\ row.slot = None
    BY <1>1, <1>4 DEF RowsRead
  <2>2. QED
    BY <1>3, <2>1 DEF ProofIn, r
<1>5. CASE slotRow # None
  <2>1. /\ row.slot # None /\ slotRow \in SlotRows(Data)
        /\ slotRow.stage = StageOf(Read, row.slot)
        /\ PreconfRead(slotRow, row.slot, Read) /\ ProofRead(slotRow, row.slot, Read)
    BY <1>5 DEF RowsRead, SlotRead
  <2>2. /\ AttestedSlots(Read) \cap RefusedIn(Read) = {}
        /\ ProvenIn(Read) \cap UnprovenIn(Read) = {}
        /\ ProvenIn(Read) \subseteq AttestedSlots(Read)
    BY ReadIsCoherent, StagesApart
  <2>3. slotRow.stage = "Proven" <=> row.slot \in ProvenIn(Read)
    BY <2>1, <2>2 DEF StageOf
  <2>4. CASE slotRow.proof = None
    <3>1. r.proof = None /\ row.slot \notin ProvenIn(Read)
      BY <1>1, <1>5, <2>1, <2>4 DEF ProofRead
    <3>2. QED
      BY <1>3, <2>1, <2>3, <3>1 DEF ProofIn, r
  <2>5. CASE slotRow.proof # None
    <3>1. row.slot \in ProvenIn(Read)
      BY <2>1, <2>5 DEF ProofRead
    <3>2. PICK p \in Of(Read, {"SlotsProven"}) :
            row.slot \in Covers(Read, p) /\ slotRow.proof = ProvenRange(Read[p])
      BY <2>1, <2>5 DEF ProofRead
    <3>3. Read[p] \in Entry /\ Read[p].kind = "SlotsProven"
      <4>1. Read \in Seq(Entry)
        BY Prefix DEF ModelInv, LogInv, Read
      <4>2. QED
        BY <4>1 DEF Of
    <3>4. /\ Read[p].from_slot \in Nat /\ Read[p].to_slot \in Nat
          /\ Read[p].proof \in Handle
      BY <3>3 DEF Entry
    <3>5. r.proof = [from_slot |-> Read[p].from_slot, to_slot |-> Read[p].to_slot,
                     backend |-> Read[p].proof.backend,
                     vkey_hash |-> Read[p].proof.vkey_hash,
                     proof |-> Read[p].proof.proof]
      <4>1. r.proof = ProofRef(slotRow)
        BY <1>1, <1>5, <2>5
      <4>2. /\ slotRow.proof.from_slot = Read[p].from_slot
            /\ slotRow.proof.to_slot = Read[p].to_slot
            /\ slotRow.proof.handle = Read[p].proof
        BY <3>2 DEF ProvenRange
      <4>3. QED
        BY <4>1, <4>2 DEF ProofRef
    <3>6. r.proof \in [from_slot : Nat, to_slot : Nat, backend : Data,
                       vkey_hash : Data, proof : Data]
      <4>1. Nat \subseteq Data /\ "mock" \in Data
        BY DEF Data
      <4>2. QED
        BY <3>4, <3>5, <4>1 DEF Handle
    <3>7. r.proof # None
      BY <3>6, NoneAssumption DEF NoneIsDistinct
    <3>8. r.preconf.slot = row.slot
      BY <1>2, <1>5, <2>1, <2>2, <3>1 DEF PreconfRead
    <3>9. row.slot \in r.proof.from_slot .. r.proof.to_slot
      BY <3>2, <3>5 DEF Covers
    <3>10. /\ Read[p].from_slot = r.proof.from_slot
           /\ Read[p].to_slot = r.proof.to_slot
           /\ Read[p].proof.backend = r.proof.backend
           /\ Read[p].proof.vkey_hash = r.proof.vkey_hash
           /\ Read[p].proof.proof = r.proof.proof
      BY <3>5
    <3>11. ProofIn(Read, r)
      BY <1>3, <2>1, <2>3, <3>1, <3>2, <3>7, <3>8, <3>9, <3>10 DEF ProofIn
    <3>12. QED
      BY <3>11 DEF r
  <2>6. QED
    BY <2>4, <2>5
<1>6. QED
  BY <1>4, <1>5

LEMMA ReasonInLog ==
  ASSUME LogInv, ModelInv, NEW id, NEW row, NEW slotRow, RowsRead(row, slotRow, id),
         NEW now
  PROVE  ReasonIn(Read, Receipt(model, id, row, slotRow, now))
<1> DEFINE r == Receipt(model, id, row, slotRow, now)
<1>1. /\ r.lifecycle = lifecycle(model, row) /\ r.reason = ReasonOf(model, row)
      /\ r.sequence = IF slotRow = None THEN None ELSE SequencePosition(row, slotRow)
  BY DEF Receipt
<1> HIDE DEF r
<1>2. r.lifecycle = "failed" <=> row.slot # None /\ slotRow.stage = "Failed"
  BY <1>1, LifecycleOfRow
<1>3. CASE r.lifecycle # "failed"
  <2>1. r.reason = None
    BY <1>1, <1>3 DEF ReasonOf
  <2>2. QED
    BY <1>3, <2>1 DEF ReasonIn, r
<1>4. CASE r.lifecycle = "failed"
  <2>1. /\ row.slot # None /\ slotRow.stage = "Failed" /\ slotRow # None
        /\ slotRow = model.slots[row.slot]
        /\ slotRow.stage = StageOf(Read, row.slot)
        /\ ReasonRead(slotRow, row.slot, Read)
    BY <1>2, <1>4 DEF RowsRead, SlotRead
  <2>2. r.reason = slotRow.reason /\ r.sequence.slot = row.slot
    BY <1>1, <1>4, <2>1 DEF ReasonOf, SequencePosition
  <2>3. row.slot \in RefusedIn(Read) \cup UnprovenIn(Read)
    BY <2>1 DEF StageOf
  <2>4. ReasonIn(Read, r)
    BY <1>4, <2>1, <2>2, <2>3 DEF ReasonRead, ReasonIn
  <2>5. QED
    BY <2>4 DEF r
<1>5. QED
  BY <1>3, <1>4

-----------------------------------------------------------------------------

\* "Rebuilt from the log on every start" (projection.rs:1): for any batches,
\* failed reads and restarts, every lifecycle and every field of a receipt but
\* max_slots is what the entries below the cursor say.
THEOREM FoldedFaithfully == Spec => []ReadModelIsTheLog
<1>1. ASSUME LogInv, ModelInv
      PROVE  StatusesAreTheLogs
  <2>1. ASSUME NEW id \in Ids
        PROVE  LET said   == StatusIn(Read, id)
                   status == status_of(model, id)
               IN  \/ said = None /\ status = None
                   \/ said # None /\ status # None /\ status.lifecycle = said
    <3>1. Reads(model, Read, Data) /\ Coherent(Read)
      BY <1>1, ReadIsCoherent DEF ModelInv
    <3>2. CASE id \in IdsIn(Read)
      BY <3>1, <3>2, StatusSays, NoneAssumption DEF NoneIsDistinct
    <3>3. CASE id \notin IdsIn(Read)
      BY <3>1, <3>3, StatusSays
    <3>4. QED
      BY <3>2, <3>3
  <2>2. QED
    BY <2>1 DEF StatusesAreTheLogs, Read
<1>2. ASSUME LogInv, ModelInv
      PROVE  EvidenceIsInTheLog
  <2>1. ASSUME NEW id \in DOMAIN model.intents, NEW now
        PROVE  LET r == receipt_of(model, id, now)
               IN  /\ AdmissionIn(Read, r) /\ PlaceIn(Read, r) /\ MissIn(Read, r)
                   /\ PromiseIn(Read, r, now) /\ PreconfIn(Read, r)
                   /\ ProofIn(Read, r) /\ ReasonIn(Read, r)
    <3> DEFINE row == model.intents[id]
               slotRow == SlotRowOf(model, row)
               r == Receipt(model, id, row, slotRow, now)
    <3>1. id \in IdsIn(Read)
      BY <1>2, <2>1 DEF ModelInv, Reads
    <3>2. RowsRead(row, slotRow, id)
      BY <1>2, <3>1, RowsAreRead
    <3>3. receipt_of(model, id, now) = r
      BY DEF receipt_of
    <3> HIDE DEF row, slotRow
    <3>4. AdmissionIn(Read, r) /\ PromiseIn(Read, r, now) /\ PlaceIn(Read, r)
      BY <1>2, <3>2, AdmissionInLog, PlaceInLog
    <3>5. MissIn(Read, r) /\ ProofIn(Read, r) /\ ReasonIn(Read, r)
      BY <1>2, <3>2, MissInLog, ProofInLog, ReasonInLog
    <3>6. PreconfIn(Read, r)
      BY <1>2, <3>2, PreconfInLog
    <3>7. QED
      BY <3>3, <3>4, <3>5, <3>6
  <2>2. QED
    BY <2>1 DEF EvidenceIsInTheLog, Read
<1>3. ProjectionInv => ReadModelIsTheLog
  BY <1>1, <1>2 DEF ProjectionInv, ReadModelIsTheLog
<1>4. QED
  BY <1>3, InvHolds, PTL

-----------------------------------------------------------------------------
(* What a client is shown, one answer after another.                       *)

\* A slot does not go back a stage.
LEMMA StageMoves ==
  ASSUME NEW longer, NEW r, NEW e, NEW n, Extends(longer, r, e, n),
         Coherent(r), Coherent(longer), NEW s
  PROVE  Told(StageOf(longer, s)) \in
           {Told(StageOf(r, s))} \cup After(Told(StageOf(r, s)))
<1>1. /\ AttestedSlots(r) \subseteq AttestedSlots(longer)
      /\ RefusedIn(r) \subseteq RefusedIn(longer)
      /\ ProvenIn(r) \subseteq ProvenIn(longer)
      /\ UnprovenIn(r) \subseteq UnprovenIn(longer)
  BY SetsGrow
<1>2. /\ AttestedSlots(longer) \cap RefusedIn(longer) = {}
      /\ ProvenIn(longer) \cap UnprovenIn(longer) = {}
      /\ ProvenIn(longer) \subseteq AttestedSlots(longer)
  BY StagesApart
<1>3. \A t \in {"sequenced", "preconfirmed"} : t # None
  BY NoneAssumption DEF NoneIsDistinct, Statuses
<1>4. CASE StageOf(r, s) = "Failed"
  <2>1. StageOf(longer, s) = "Failed"
    BY <1>1, <1>4 DEF StageOf
  <2>2. QED
    BY <1>4, <2>1
<1>5. CASE StageOf(r, s) = "Proven"
  <2>1. StageOf(longer, s) = "Proven"
    BY <1>1, <1>2, <1>5 DEF StageOf
  <2>2. QED
    BY <1>5, <2>1
<1>6. CASE StageOf(r, s) = "Preconfirmed"
  <2>1. StageOf(longer, s) \in {"Preconfirmed", "Proven", "Failed"}
    BY <1>1, <1>6 DEF StageOf
  <2>2. After("preconfirmed") = {"final_proven", "failed"}
    BY <1>3 DEF After
  <2>3. QED
    BY <1>6, <2>1, <2>2 DEF Told
<1>7. CASE StageOf(r, s) = "Committed"
  <2>1. StageOf(longer, s) \in {"Committed", "Preconfirmed", "Proven", "Failed"}
    BY DEF StageOf
  <2>2. After("sequenced") = {"preconfirmed", "final_proven", "failed"}
    BY <1>3 DEF After
  <2>3. QED
    BY <1>7, <2>1, <2>2 DEF Told
<1>8. StageOf(r, s) \in {"Committed", "Preconfirmed", "Proven", "Failed"}
  BY DEF StageOf
<1>9. QED
  BY <1>4, <1>5, <1>6, <1>7, <1>8

\* Where the log has an intent.
LEMMA StatusKinds ==
  ASSUME NEW r, Coherent(r), NEW id
  PROVE  /\ id \notin IdsIn(r) => StatusIn(r, id) = None
         /\ id \in IdsIn(r) => StatusIn(r, id) \in Statuses
         /\ id \in DroppedIn(r) => StatusIn(r, id) = "expired"
         /\ id \in IdsIn(r) \ (DroppedIn(r) \cup PlacedIn(r)) =>
              StatusIn(r, id) = "received"
<1>1. id \in DroppedIn(r) => id \in IdsIn(r)
  BY DEF Coherent
<1>2. CASE id \in IdsIn(r) /\ id \in PlacedIn(r) /\ id \notin DroppedIn(r)
  <2>1. PICK p \in Commits(r) : \E k \in DOMAIN r[p].intents : r[p].intents[k] = id
    BY <1>2 DEF PlacedIn, ToSet
  <2>2. StatusIn(r, id) = Told(StageOf(r, r[p].slot))
    BY <1>2, <2>1, PlacedStatus
  <2>3. Told(StageOf(r, r[p].slot)) \in Statuses
    BY DEF Told, Statuses
  <2>4. QED
    BY <1>2, <2>2, <2>3
<1>3. CASE ~ (id \in IdsIn(r) /\ id \in PlacedIn(r) /\ id \notin DroppedIn(r))
  BY <1>1, <1>3, SameIds DEF StatusIn, Statuses
<1>4. QED
  BY <1>2, <1>3

\* One entry more moves a status forward or not at all.
LEMMA StatusStep ==
  ASSUME NEW longer, NEW r, NEW e, NEW n, Extends(longer, r, e, n),
         Coherent(r), Coherent(longer), NEW id
  PROVE  StatusIn(longer, id) \in {StatusIn(r, id)} \cup After(StatusIn(r, id))
<1>1. /\ IdsIn(r) \subseteq IdsIn(longer)
      /\ DroppedIn(r) \subseteq DroppedIn(longer)
  BY SetsGrow
<1>2. After(None) = Statuses /\ After("received") = Statuses
  BY NoneAssumption DEF NoneIsDistinct, After, Statuses
<1>3. StatusIn(longer, id) \in Statuses \cup {None}
  BY StatusKinds
<1>4. CASE id \notin IdsIn(r)
  BY <1>2, <1>3, <1>4, StatusKinds
<1>5. CASE id \in DroppedIn(r)
  BY <1>1, <1>5, StatusKinds
<1>6. CASE id \in IdsIn(r) \ (DroppedIn(r) \cup PlacedIn(r))
  <2>1. StatusIn(longer, id) \in Statuses
    BY <1>1, <1>6, StatusKinds
  <2>2. QED
    BY <1>2, <1>6, <2>1, StatusKinds
<1>7. CASE id \in IdsIn(r) /\ id \in PlacedIn(r) /\ id \notin DroppedIn(r)
  <2>1. PICK p \in Commits(r) : \E k \in DOMAIN r[p].intents : r[p].intents[k] = id
    BY <1>7 DEF PlacedIn, ToSet
  <2>2. PICK k \in DOMAIN r[p].intents : r[p].intents[k] = id
    BY <2>1
  <2>3. Found(longer, r, "SlotCommitted")
    BY FoundAgain
  <2>4. p \in Commits(longer) /\ longer[p] = r[p]
    BY <2>1, <2>3 DEF Found, Commits
  <2>5. id \in PlacedIn(longer)
    BY <2>2, <2>4 DEF PlacedIn, ToSet
  <2>6. id \in IdsIn(longer) /\ id \notin DroppedIn(longer)
    BY <1>1, <1>7, <2>5 DEF Coherent
  <2>7. StatusIn(r, id) = Told(StageOf(r, r[p].slot))
    BY <1>7, <2>2, PlacedStatus
  <2>8. StatusIn(longer, id) = Told(StageOf(longer, r[p].slot))
    BY <2>2, <2>4, <2>6, PlacedStatus
  <2>9. QED
    BY <2>7, <2>8, StageMoves
<1>8. QED
  BY <1>4, <1>5, <1>6, <1>7

LEMMA AfterIsTransitive ==
  ASSUME NEW a \in Statuses \cup {None}, NEW b \in {a} \cup After(a),
         NEW c \in {b} \cup After(b)
  PROVE  c \in {a} \cup After(a)
<1>1. \A t \in Statuses : t # None
  BY NoneAssumption DEF NoneIsDistinct
<1>2. After(a) \subseteq Statuses
  BY DEF After, Statuses
<1>3. b \in Statuses \cup {None}
  BY <1>2
<1>4. c = b \/ c \in After(b)
  OBVIOUS
<1>5. After(b) \subseteq Statuses
  BY DEF After, Statuses
<1>6. CASE b = a
  BY <1>6
<1>7. CASE b # a /\ a \in {None, "received"}
  <2>1. After(a) = Statuses
    BY <1>1, <1>7 DEF After, Statuses
  <2>2. QED
    BY <1>4, <1>5, <1>7, <2>1
<1>8. CASE b # a /\ a = "sequenced"
  <2>1. After(a) = {"preconfirmed", "final_proven", "failed"}
    BY <1>1, <1>8 DEF After, Statuses
  <2>2. b \in {"preconfirmed", "final_proven", "failed"}
    BY <1>8, <2>1
  <2>3. After(b) \subseteq {"final_proven", "failed"}
    BY <1>1, <2>2 DEF After, Statuses
  <2>4. QED
    BY <1>4, <2>1, <2>2, <2>3
<1>9. CASE b # a /\ a = "preconfirmed"
  <2>1. After(a) = {"final_proven", "failed"}
    BY <1>1, <1>9 DEF After, Statuses
  <2>2. b \in {"final_proven", "failed"}
    BY <1>9, <2>1
  <2>3. After(b) = {}
    BY <1>1, <2>2 DEF After, Statuses
  <2>4. QED
    BY <1>4, <2>1, <2>2, <2>3
<1>10. CASE b # a /\ a \in {"final_proven", "failed", "expired"}
  <2>1. After(a) = {}
    BY <1>1, <1>10 DEF After, Statuses
  <2>2. QED
    BY <1>10, <2>1
<1>11. QED
  BY <1>6, <1>7, <1>8, <1>9, <1>10 DEF Statuses

\* The longer the log, the further the status.
LEMMA StatusMoves ==
  ASSUME LogInv, NEW j \in 0..Len(log), NEW k \in j..Len(log), NEW id
  PROVE  StatusIn(SubSeq(log, 1, k), id) \in
           {StatusIn(SubSeq(log, 1, j), id)} \cup After(StatusIn(SubSeq(log, 1, j), id))
<1> DEFINE At(n) == StatusIn(SubSeq(log, 1, n), id)
           Good == {n \in 0..Len(log) : At(n) \in {At(j)} \cup After(At(j))}
<1>1. /\ log \in Seq(Entry) /\ History(log, Data) /\ Len(log) \in Nat
      /\ j \in Nat /\ k \in Nat /\ k =< Len(log)
  BY DEF LogInv
<1>2. \A n \in 0..Len(log) : Coherent(SubSeq(log, 1, n))
  BY <1>1, AllCoherent
<1>3. At(j) \in Statuses \cup {None}
  BY <1>2, StatusKinds
<1>4. j \in Good
  OBVIOUS
<1>5. ASSUME NEW n \in j..(k - 1), n \in Good
      PROVE  n + 1 \in Good
  <2>1. n \in 0..Len(log) /\ n + 1 \in 0..Len(log) /\ n < Len(log)
    BY <1>1
  <2> DEFINE r == SubSeq(log, 1, n)
             longer == SubSeq(log, 1, n + 1)
             e == log[n + 1]
  <2>2. r \in Seq(Entry) /\ longer = Append(r, e)
    BY <1>1, <2>1, Prefix
  <2>3. Coherent(r) /\ Coherent(longer)
    BY <1>2, <2>1
  <2> HIDE DEF r, longer, e
  <2>4. Extends(longer, r, e, Len(r) + 1)
    BY <2>2, AppendExtends
  <2>5. StatusIn(longer, id) \in {StatusIn(r, id)} \cup After(StatusIn(r, id))
    BY <2>3, <2>4, StatusStep
  <2>6. At(n + 1) \in {At(n)} \cup After(At(n))
    BY <2>5 DEF longer, r
  <2>7. At(n) \in {At(j)} \cup After(At(j))
    BY <1>5
  <2> HIDE DEF At
  <2>8. At(n + 1) \in {At(j)} \cup After(At(j))
    BY <1>3, <2>6, <2>7, AfterIsTransitive
  <2>9. QED
    BY <2>1, <2>8
<1>6. j..k \subseteq Good
  <2> HIDE DEF Good
  <2>1. QED
    BY <1>1, <1>4, <1>5, StepByStep
<1>7. k \in Good
  BY <1>1, <1>6
<1>8. QED
  BY <1>7

\* The client was shown what some entries say: entries the model has read, or
\* is about to read first of all after a restart.
ShownInv ==
  /\ DOMAIN shown = Polled
  /\ \A id \in Polled : \E k \in 0..Len(log) :
       /\ shown[id] = StatusIn(SubSeq(log, 1, k), id)
       /\ \/ k =< model.cursor
          \/ model.cursor = 0 /\ (projector = "applying" => k =< batchEnd)

LEMMA ShownStays ==
  ASSUME ShownInv, UNCHANGED <<log, shown>>,
         \A k \in 0..Len(log) :
           \/ k =< model.cursor
           \/ model.cursor = 0 /\ (projector = "applying" => k =< batchEnd)
           => \/ k =< model'.cursor
              \/ model'.cursor = 0 /\ (projector' = "applying" => k =< batchEnd')
  PROVE  ShownInv'
<1>1. ASSUME NEW id \in Polled
      PROVE  \E k \in 0..Len(log') :
               /\ shown'[id] = StatusIn(SubSeq(log', 1, k), id)
               /\ \/ k =< model'.cursor
                  \/ model'.cursor = 0 /\ (projector' = "applying" => k =< batchEnd')
  <2>1. PICK k \in 0..Len(log) :
          /\ shown[id] = StatusIn(SubSeq(log, 1, k), id)
          /\ \/ k =< model.cursor
             \/ model.cursor = 0 /\ (projector = "applying" => k =< batchEnd)
    BY DEF ShownInv
  <2>2. \/ k =< model'.cursor
        \/ model'.cursor = 0 /\ (projector' = "applying" => k =< batchEnd')
    BY <2>1
  <2>3. QED
    BY <2>1, <2>2
<1>2. QED
  BY <1>1 DEF ShownInv

\* What a lookup that finds the intent shows.
LEMMA LookShows ==
  ASSUME LogInv, ModelInv, ShownInv, NEW id \in Polled, Look(id)
  PROVE  /\ ShownInv'
         /\ \A i \in Polled : shown'[i] \in {shown[i]} \cup After(shown[i])
<1>1. UNCHANGED <<log, model, projector, batchEnd>> /\ id \in Ids
  BY ProjectionAssumption DEF Look, proVars
<1>2. CASE status_of(model, id) = None
  <2>1. shown' = shown
    BY <1>2 DEF Look
  <2>2. QED
    BY <1>1, <2>1, ShownStays
<1>3. CASE status_of(model, id) # None
  <2>1. shown' = [shown EXCEPT ![id] = status_of(model, id).lifecycle]
    BY <1>3 DEF Look
  <2>2. /\ Reads(model, Read, Data) /\ Coherent(Read) /\ Len(Read) = model.cursor
        /\ log \in Seq(Entry) /\ Len(log) \in Nat /\ model.cursor \in 0..Len(log)
    BY ReadIsCoherent DEF ModelInv, LogInv
  <2>3. id \in IdsIn(Read)
    BY <1>1, <1>3, <2>2, StatusSays
  <2>4. status_of(model, id).lifecycle = StatusIn(Read, id)
    BY <1>1, <2>2, <2>3, StatusSays
  <2>5. model.cursor # 0
    <3>1. PICK p \in DOMAIN Read : TRUE
      BY <2>3 DEF IdsIn, Of
    <3>2. Read \in Seq(Entry)
      BY <2>2, Prefix DEF Read
    <3>3. QED
      BY <2>2, <3>1, <3>2
  <2>6. shown'[id] = StatusIn(Read, id) /\ DOMAIN shown' = Polled
        /\ \A i \in Polled \ {id} : shown'[i] = shown[i]
    BY <2>1, <2>4 DEF ShownInv
  <2>7. shown'[id] \in {shown[id]} \cup After(shown[id])
    <3>1. PICK k \in 0..Len(log) :
            /\ shown[id] = StatusIn(SubSeq(log, 1, k), id)
            /\ \/ k =< model.cursor
               \/ model.cursor = 0 /\ (projector = "applying" => k =< batchEnd)
      BY DEF ShownInv
    <3>2. model.cursor \in k..Len(log)
      BY <2>2, <2>5, <3>1
    <3>3. StatusIn(Read, id) \in {shown[id]} \cup After(shown[id])
      BY <3>1, <3>2, StatusMoves DEF Read
    <3>4. QED
      BY <2>6, <3>3
  <2>8. ShownInv'
    <3>1. ASSUME NEW i \in Polled
          PROVE  \E k \in 0..Len(log') :
                   /\ shown'[i] = StatusIn(SubSeq(log', 1, k), i)
                   /\ \/ k =< model'.cursor
                      \/ model'.cursor = 0 /\ (projector' = "applying" => k =< batchEnd')
      <4>1. CASE i = id
        <5>1. shown'[i] = StatusIn(SubSeq(log', 1, model.cursor), i)
          BY <1>1, <2>6, <4>1 DEF Read
        <5>2. model.cursor \in 0..Len(log') /\ model.cursor =< model'.cursor
          BY <1>1, <2>2
        <5>3. QED
          BY <5>1, <5>2
      <4>2. CASE i # id
        BY <1>1, <2>6, <4>2 DEF ShownInv
      <4>3. QED
        BY <4>1, <4>2
    <3>2. QED
      BY <2>6, <3>1 DEF ShownInv
  <2>9. QED
    BY <2>6, <2>7, <2>8
<1>4. QED
  BY <1>2, <1>3

LEMMA ShownKeeps ==
  ASSUME LogInv, ModelInv, ClientInv, ShownInv, [Next]_vars
  PROVE  /\ ShownInv'
         /\ \A i \in Polled : shown'[i] \in {shown[i]} \cup After(shown[i])
<1>1. log \in Seq(Entry) /\ Len(log) \in Nat /\ model.cursor \in 0..Len(log)
  BY DEF LogInv, ModelInv
<1>2. CASE Pipeline
  <2>1. PICK e : Fitting(e) /\ Put(e)
    BY <1>2, WritersFit
  <2>2. /\ log' = Append(log, e) /\ e \in Entry
        /\ UNCHANGED <<model, projector, batchEnd, shown>>
    BY <2>1 DEF Put, Fitting
  <2>3. \A k \in 0..Len(log) :
          k \in 0..Len(log') /\ SubSeq(log', 1, k) = SubSeq(log, 1, k)
    <3>1. Len(log') = Len(log) + 1
      BY <1>1, <2>2
    <3>2. \A k \in 0..Len(log) : SubSeq(log', 1, k) = SubSeq(log, 1, k)
      BY <1>1, <2>2, PrefixStays
    <3>3. QED
      BY <1>1, <3>1, <3>2
  <2>4. ASSUME NEW id \in Polled
        PROVE  \E k \in 0..Len(log') :
                 /\ shown'[id] = StatusIn(SubSeq(log', 1, k), id)
                 /\ \/ k =< model'.cursor
                    \/ model'.cursor = 0 /\ (projector' = "applying" => k =< batchEnd')
    <3>1. PICK k \in 0..Len(log) :
            /\ shown[id] = StatusIn(SubSeq(log, 1, k), id)
            /\ \/ k =< model.cursor
               \/ model.cursor = 0 /\ (projector = "applying" => k =< batchEnd)
      BY DEF ShownInv
    <3>2. QED
      BY <2>2, <2>3, <3>1
  <2>5. QED
    BY <2>2, <2>4 DEF ShownInv
<1>3. CASE Wake \/ SkipRead \/ Miss \/ UNCHANGED vars
  <2>1. /\ UNCHANGED <<log, shown, model>>
        /\ projector' # "applying" \/ UNCHANGED <<projector, batchEnd>>
    BY <1>3 DEF Wake, SkipRead, Miss, vars, proVars
  <2>2. QED
    BY <2>1, ShownStays
<1>4. CASE ReadTail
  <2>1. UNCHANGED <<log, shown, model>> /\ batchEnd' = Len(log)
    BY <1>4 DEF ReadTail
  <2>2. \A k \in 0..Len(log) : k =< batchEnd'
    BY <1>1, <2>1
  <2>3. QED
    BY <2>1, <2>2, ShownStays
<1>5. CASE Apply
  <2>1. UNCHANGED <<log, shown>> /\ projector = "applying"
    BY <1>5 DEF Apply
  <2>2. model'.cursor = batchEnd
    BY <1>5, ApplyKeeps
  <2>3. batchEnd \in model.cursor..Len(log)
    BY <2>1 DEF ModelInv
  <2>4. \A k \in 0..Len(log) : k =< model.cursor => k =< batchEnd
    BY <1>1, <2>3
  <2>5. QED
    BY <2>1, <2>2, <2>4, ShownStays
<1>6. CASE \E id \in Polled : Look(id)
  BY <1>6, LookShows
<1>7. CASE Restart
  <2>1. UNCHANGED <<log, shown>> /\ model'.cursor = 0 /\ projector' = "waiting"
    BY <1>7 DEF Restart, Empty
  <2>2. QED
    BY <2>1, ShownStays
<1>8. QED
  BY <1>2, <1>3, <1>4, <1>5, <1>6, <1>7 DEF Next

\* A client that polls sees its intent move forward only, over any batches,
\* failed reads and restarts with an empty model (projection.rs:280-296).
THEOREM OnlyForward == Spec => AnswersMoveForward
<1> DEFINE Forward == \A id \in Polled : shown'[id] \in {shown[id]} \cup After(shown[id])
<1>1. Init => ShownInv
  <2>1. ASSUME Init
        PROVE  ShownInv
    <3>1. log = <<>> /\ shown = [id \in Polled |-> None] /\ model.cursor = 0
      BY <2>1 DEF Init, Empty
    <3>2. Len(log) = 0 /\ SubSeq(log, 1, 0) = <<>>
      BY <3>1
    <3>3. \A id : StatusIn(<<>>, id) = None
      <4>1. IdsIn(<<>>) = {}
        BY DEF IdsIn, Of
      <4>2. QED
        BY <4>1, SameIds DEF StatusIn
    <3>4. ASSUME NEW id \in Polled
          PROVE  /\ 0 \in 0..Len(log) /\ 0 =< model.cursor
                 /\ shown[id] = StatusIn(SubSeq(log, 1, 0), id)
      <4>1. 0 \in 0..Len(log) /\ 0 =< model.cursor
        BY <3>1, <3>2
      <4>2. shown[id] = None
        BY <3>1
      <4>3. StatusIn(SubSeq(log, 1, 0), id) = None
        <5>1. SubSeq(log, 1, 0) = <<>>
          BY <3>2
        <5>2. QED
          BY <3>3, <5>1, Zenon
      <4>4. QED
        BY <4>1, <4>2, <4>3
    <3>5. DOMAIN shown = Polled
      BY <3>1
    <3>6. QED
      BY <3>4, <3>5 DEF ShownInv
  <2>2. QED
    BY <2>1
<1>2. ProjectionInv /\ ShownInv /\ [Next]_vars => ShownInv' /\ Forward
  BY ShownKeeps DEF ProjectionInv
<1>3. ProjectionInv /\ ShownInv /\ [Next]_vars => [Forward]_shown
  BY <1>2
<1>4. Spec => [][Forward]_shown
  BY <1>1, <1>2, <1>3, InvHolds, PTL DEF Spec
<1>5. QED
  BY <1>4 DEF AnswersMoveForward
=============================================================================
