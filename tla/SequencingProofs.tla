-------------------------- MODULE SequencingProofs --------------------------
(***************************************************************************)
(* The gate, the sequencer and the API on one log (Sequencing, HttpApi),   *)
(* for every set of intents, any number of clients, any window and any     *)
(* bound on clock, slots and crashes.  In this order:                      *)
(*                                                                         *)
(* - types, and that the gate never falls behind the log it checks against *)
(*   (GateKnowsTheLog), so that no intent is received twice and no         *)
(*   submitter's nonce goes back (NoncesAdvance);                          *)
(* - what the API tells a client of a submission (AcknowledgedIsInTheLog,  *)
(*   RefusalsAreTrue): a step of HttpApi is a step of Sequencing or one    *)
(*   miss more in the log (GateSteps), so the gate knows the log whenever  *)
(*   it refuses, and AnswersInv adds what the answers need of the requests;*)
(* - what it answers to lookups (AnswersHold), from LookupsInv: the model  *)
(*   is what the entries below its cursor say (ReadModelProofs);           *)
(* - the inclusion promise (PromiseKept, NoDuplicateInclusion,             *)
(*   NeverDroppedAndCommitted, NothingForgotten), from PromiseInv;         *)
(* - the policy: any buffer has one order (OrderExists, OneOrder), which   *)
(*   follows the set and not the arrival order (SlotIsOfTheSet), each      *)
(*   market by itself (MarketsApart);                                      *)
(* - the loop of order_slot (OrderSlot) computes that order (LoopOrders):  *)
(*   its sort sorts (SortExists), the winning head is what the policy pops *)
(*   next (WinnerPops), so each turn keeps MergeState, and the domains     *)
(*   join to one order (DomainsInOrder);                                   *)
(* - slots (SlotsAreDense, CommittedInNonceOrder), from SlotsInv, and the  *)
(*   refinement of InclusionPromise.                                       *)
(***************************************************************************)
EXTENDS HttpApi, SequencingRefinement, OrderSlot, Greatest, FiniteSetTheorems,
        SequenceTheorems, TLAPS

-----------------------------------------------------------------------------
(* The gate's checks and the highest nonce.                                *)

\* What the gate makes sure of before it appends.
LEMMA PassingChecks ==
  ASSUME NEW i, NEW now, Passes(i, now)
  PROVE  /\ i.deadline_ms >= deadline_for(now)
         /\ i.id \notin seen
         /\ i.nonce > nonces[i.submitter]
<1>1. Checks(i, now)[5] /\ Checks(i, now)[6] /\ Checks(i, now)[7]
  BY DEF Passes
<1>2. QED
  BY <1>1 DEF Checks

\* Highest is what Admission::record keeps: the greatest nonce, if there is one.
LEMMA HighestIsGreatest ==
  ASSUME NEW S \in SUBSET Nat, IsFiniteSet(S)
  PROVE  /\ Highest(S) \in Nat \cup {NoNonce}
         /\ S = {} <=> Highest(S) = NoNonce
         /\ S # {} => Highest(S) \in S
         /\ \A n \in S : n =< Highest(S)
<1>1. CASE S = {}
  BY <1>1 DEF Highest, NoNonce
<1>2. CASE S # {}
  <2>1. \E m \in S : \A n \in S : n =< m
    BY <1>2, GreatestExists
  <2>2. Highest(S) \in S /\ \A n \in S : n =< Highest(S)
    BY <1>2, <2>1 DEF Highest
  <2>3. Highest(S) \in Nat
    BY <2>2
  <2>4. Highest(S) # NoNonce
    BY <2>3 DEF NoNonce
  <2>5. QED
    BY <1>2, <2>2, <2>3, <2>4
<1>3. QED
  BY <1>1, <1>2

\* A number no less than the rest is the highest.
LEMMA HighestIsUnique ==
  ASSUME NEW S \in SUBSET Int, NEW m \in S, \A n \in S : n =< m
  PROVE  Highest(S) = m
<1>1. S # {} /\ \E k \in S : \A n \in S : n =< k
  OBVIOUS
<1>2. Highest(S) \in S /\ \A n \in S : n =< Highest(S)
  BY <1>1 DEF Highest
<1>3. m =< Highest(S) /\ Highest(S) =< m /\ Highest(S) \in Int
  BY <1>2
<1>4. QED
  BY <1>3

-----------------------------------------------------------------------------
(* Logs.                                                                   *)

\* What appending an entry does to the sets a reader forms of a log.
LEMMA AppendedLog ==
  ASSUME NEW entries \in Seq(Entries), NEW e \in Entries
  PROVE  LET longer == Append(entries, e)
             n == Len(entries) + 1
         IN  /\ longer \in Seq(Entries)
             /\ DOMAIN entries = 1..Len(entries)
             /\ DOMAIN longer = 1..n
             /\ Len(longer) = n
             /\ n \in Nat
             /\ longer[n] = e
             /\ \A p \in DOMAIN entries : longer[p] = entries[p]
             /\ Received(longer) =
                  Received(entries) \cup (IF e.kind = "IntentReceived" THEN {n} ELSE {})
             /\ Expired(longer) =
                  Expired(entries) \cup (IF e.kind = "IntentExpired" THEN {n} ELSE {})
             /\ Committed(longer) =
                  Committed(entries) \cup (IF e.kind = "SlotCommitted" THEN {n} ELSE {})
<1> DEFINE longer == Append(entries, e)
           n == Len(entries) + 1
<1>1. /\ longer \in Seq(Entries)
      /\ DOMAIN entries = 1..Len(entries)
      /\ DOMAIN longer = 1..n
      /\ Len(longer) = n
      /\ n \in Nat
      /\ longer[n] = e
      /\ \A p \in DOMAIN entries : longer[p] = entries[p]
  OBVIOUS
<1>2. \A k : Kind(longer, k) = Kind(entries, k) \cup (IF e.kind = k THEN {n} ELSE {})
  BY <1>1 DEF Kind
<1>3. QED
  BY <1>1, <1>2 DEF Received, Expired, Committed

\* The fields of an entry, by its kind.
LEMMA EntryFields ==
  ASSUME NEW entries \in Seq(Entries)
  PROVE  /\ \A p \in Received(entries) :
              /\ entries[p].intent \in Intents
              /\ entries[p].received_at \in Nat
         /\ \A p \in Expired(entries) :
              /\ entries[p].id \in Ids
              /\ entries[p].guarantee_deadline_ms \in Nat
              /\ entries[p].at_ms \in Nat
         /\ \A p \in Committed(entries) :
              /\ entries[p].slot \in Nat
              /\ entries[p].intents \in Seq(Ids)
              /\ entries[p].consumed_up_to \in Nat
              /\ entries[p].committed_at_ms \in Nat
         /\ Received(entries) \subseteq 1..Len(entries)
         /\ Expired(entries) \subseteq 1..Len(entries)
         /\ Committed(entries) \subseteq 1..Len(entries)
<1>1. \A p \in DOMAIN entries : entries[p] \in Entries
  OBVIOUS
<1>2. DOMAIN entries = 1..Len(entries)
  OBVIOUS
<1>3. QED
  BY <1>1, <1>2 DEF Received, Expired, Committed, Kind, Entries

\* A submitter's nonces in a log are finitely many.
LEMMA NoncesAreFinite ==
  ASSUME NEW entries \in Seq(Entries), NEW s
  PROVE  NoncesIn(s, entries) \in SUBSET Nat /\ IsFiniteSet(NoncesIn(s, entries))
<1> DEFINE D == {q \in Received(entries) : entries[q].intent.submitter = s}
           f == [p \in D |-> entries[p].intent.nonce]
<1>1. D \subseteq 1..Len(entries) /\ \A p \in D : entries[p].intent \in Intents
  BY EntryFields
<1>2. IsFiniteSet(D)
  BY <1>1, FS_Interval, FS_Subset
<1>3. f \in Surjection(D, NoncesIn(s, entries))
  BY DEF Surjection, NoncesIn
<1>4. IsFiniteSet(NoncesIn(s, entries))
  BY <1>2, <1>3, FS_Surjection
<1>5. NoncesIn(s, entries) \subseteq Nat
  BY <1>1, IntentsAssumption DEF NoncesIn
<1>6. QED
  BY <1>4, <1>5

\* Where the last commitment is.
LEMMA LastCommitExists ==
  ASSUME NEW entries \in Seq(Entries), Committed(entries) # {}
  PROVE  /\ LastCommit(entries) \in Committed(entries)
         /\ \A q \in Committed(entries) : q =< LastCommit(entries)
<1>1. Committed(entries) \subseteq 1..Len(entries)
  BY EntryFields
<1>2. IsFiniteSet(Committed(entries))
  BY <1>1, FS_Interval, FS_Subset
<1>3. \E p \in Committed(entries) : \A q \in Committed(entries) : q =< p
  BY <1>1, <1>2, GreatestExists
<1>4. QED
  BY <1>3 DEF LastCommit

\* What recovery reads off a log is a cursor and a slot number.
LEMMA RecoveryTypes ==
  ASSUME NEW entries \in Seq(Entries)
  PROVE  ConsumedBy(entries) \in Nat /\ SlotAfter(entries) \in Nat
BY LastCommitExists, EntryFields DEF ConsumedBy, SlotAfter

\* Only a commitment changes what recovery reads off the log.
LEMMA RecoveryAfterAppend ==
  ASSUME NEW entries \in Seq(Entries), NEW e \in Entries
  PROVE  /\ e.kind # "SlotCommitted"
              => ConsumedBy(Append(entries, e)) = ConsumedBy(entries)
         /\ e.kind = "SlotCommitted"
              => ConsumedBy(Append(entries, e)) = e.consumed_up_to
<1> DEFINE longer == Append(entries, e)
           n == Len(entries) + 1
<1>1. Committed(entries) \subseteq 1..Len(entries)
  BY EntryFields
<1>2. /\ longer \in Seq(Entries)
      /\ longer[n] = e
      /\ n \in Nat
      /\ DOMAIN entries = 1..Len(entries)
      /\ \A p \in DOMAIN entries : longer[p] = entries[p]
      /\ Committed(longer) =
           Committed(entries) \cup (IF e.kind = "SlotCommitted" THEN {n} ELSE {})
  BY AppendedLog
<1>3. CASE e.kind # "SlotCommitted"
  <2>1. Committed(longer) = Committed(entries)
    BY <1>2, <1>3
  <2>2. LastCommit(longer) = LastCommit(entries)
    BY <2>1 DEF LastCommit
  <2>3. CASE Committed(entries) = {}
    BY <1>3, <2>1, <2>3 DEF ConsumedBy
  <2>4. CASE Committed(entries) # {}
    <3>1. LastCommit(entries) \in DOMAIN entries
      BY <1>1, <1>2, <2>4, LastCommitExists
    <3>2. longer[LastCommit(longer)] = entries[LastCommit(entries)]
      BY <1>2, <2>2, <3>1
    <3>3. QED
      BY <1>3, <2>1, <2>4, <3>2 DEF ConsumedBy
  <2>5. QED
    BY <2>3, <2>4
<1>4. CASE e.kind = "SlotCommitted"
  <2>1. Committed(longer) = Committed(entries) \cup {n}
    BY <1>2, <1>4
  <2>2. LastCommit(longer) \in Committed(longer) /\ n =< LastCommit(longer)
    BY <1>2, <2>1, LastCommitExists
  <2>3. LastCommit(longer) = n
    BY <1>1, <1>2, <2>1, <2>2
  <2>4. QED
    BY <1>2, <1>4, <2>1, <2>3 DEF ConsumedBy
<1>5. QED
  BY <1>3, <1>4

-----------------------------------------------------------------------------
(* Type correctness.                                                       *)

\* A submission in flight holds an intent and a sample of the clock.
LEMMA RequestFields ==
  ASSUME TypeOK, NEW c \in Clients, request[c].pc \in {"arrived", "appended"}
  PROVE  request[c].intent \in Intents /\ request[c].now \in Nat
<1>1. request[c] \in Requests
  BY DEF TypeOK
<1>2. QED
  BY <1>1 DEF Requests, Idle

\* Every entry the gate and the sequencer append is well formed.
LEMMA EntriesMade ==
  ASSUME NEW now \in Nat
  PROVE  /\ \A i \in Intents : IntentReceived(i, now) \in Entries
         /\ \A id \in Ids, d \in Nat : IntentExpired(id, d, now) \in Entries
         /\ \A slot \in Nat, ids \in Seq(Ids), c \in Nat :
              SlotCommitted(slot, ids, c, now) \in Entries
BY DEF IntentReceived, IntentExpired, SlotCommitted, Entries

\* The arrangement CommitSlot picks is a list of ids, without repetition of the
\* positions it was made from.
LEMMA ArrangedIds ==
  ASSUME TypeOK, NEW arr \in Arrangements(live)
  PROVE  /\ DOMAIN arr = 1..Cardinality(live)
         /\ Cardinality(live) \in Nat
         /\ \A k \in DOMAIN arr : arr[k] \in live
         /\ \A j, k \in DOMAIN arr : arr[j] = arr[k] => j = k
         /\ [k \in DOMAIN arr |-> log[arr[k]].intent.id] \in Seq(Ids)
<1>1. live \subseteq 1..Len(log) /\ Len(log) \in Nat
  BY EntryFields DEF TypeOK
<1>2. Cardinality(live) \in Nat
  <2>1. IsFiniteSet(1..Len(log))
    BY <1>1, FS_Interval
  <2>2. IsFiniteSet(live)
    BY <1>1, <2>1, FS_Subset
  <2>3. QED
    BY <2>2, FS_CardinalityType
<1>3. /\ arr \in [1..Cardinality(live) -> live]
      /\ \A j, k \in 1..Cardinality(live) : arr[j] = arr[k] => j = k
  BY DEF Arrangements, Bijection, Injection, IsInjective
<1>4. \A k \in DOMAIN arr : log[arr[k]].intent.id \in Ids
  BY <1>3, EntryFields DEF TypeOK, Ids
<1>5. QED
  BY <1>2, <1>3, <1>4

\* The entry RecordMiss appends.
LEMMA MissAppended ==
  ASSUME TypeOK, RecordMiss
  PROVE  \E p \in misses, e \in Entries :
           /\ e = IntentExpired(log[p].intent.id,
                                deadline_for(log[p].received_at), closedAt)
           /\ e.kind = "IntentExpired"
           /\ log' = Append(log, e)
           /\ misses' = misses \ {p}
<1>1. PICK p \in misses :
        /\ log' = Append(log, IntentExpired(log[p].intent.id,
                                deadline_for(log[p].received_at), closedAt))
        /\ misses' = misses \ {p}
  BY DEF RecordMiss
<1> DEFINE e == IntentExpired(log[p].intent.id,
                              deadline_for(log[p].received_at), closedAt)
<1>2. log[p].intent \in Intents /\ log[p].received_at \in Nat
  BY <1>1, EntryFields DEF TypeOK
<1>3. deadline_for(log[p].received_at) \in Nat /\ log[p].intent.id \in Ids
      /\ closedAt \in Nat
  BY <1>2, SequencingAssumption DEF TypeOK, Ids, deadline_for
<1>4. e \in Entries
  BY <1>3, EntriesMade
<1>5. e.kind = "IntentExpired"
  BY DEF IntentExpired
<1>6. QED
  BY <1>1, <1>4, <1>5

\* The entry CommitSlot appends.
LEMMA CommitAppended ==
  ASSUME TypeOK, CommitSlot
  PROVE  \E arr \in Arrangements(live), e \in Entries :
           /\ e = SlotCommitted(nextSlot,
                    [k \in DOMAIN arr |-> log[arr[k]].intent.id], cursor, closedAt)
           /\ e.kind = "SlotCommitted"
           /\ log' = Append(log, e)
           /\ InPolicyOrder(arr, [p \in live |-> Pending(p)])
<1>1. PICK arr \in Arrangements(live) :
        /\ InPolicyOrder(arr, [p \in live |-> Pending(p)])
        /\ log' = Append(log, SlotCommitted(nextSlot,
                 [k \in DOMAIN arr |-> log[arr[k]].intent.id], cursor, closedAt))
  BY DEF CommitSlot
<1> DEFINE e == SlotCommitted(nextSlot,
                  [k \in DOMAIN arr |-> log[arr[k]].intent.id], cursor, closedAt)
<1>2. e \in Entries
  BY ArrangedIds, EntriesMade DEF TypeOK
<1>3. e.kind = "SlotCommitted"
  BY DEF SlotCommitted
<1>4. QED
  BY <1>1, <1>2, <1>3

\* A step leaves the types as they are.
LEMMA TypeKeeps ==
  ASSUME TypeOK, [Next]_vars
  PROVE  TypeOK'
<1> USE SequencingAssumption
<1>1. CASE UNCHANGED vars
  BY <1>1 DEF TypeOK, vars, gateVars, seqVars, Received, Kind
<1>2. ASSUME NEW c \in Clients, NEW i \in Intents, Arrive(c, i) PROVE TypeOK'
  <2>1. request' \in [Clients -> Requests]
    BY <1>2 DEF Arrive, TypeOK, Requests
  <2>2. QED
    BY <1>2, <2>1 DEF Arrive, TypeOK, seqVars, Received, Kind
<1>3. ASSUME NEW c \in Clients, Reject(c) \/ AppendFails(c) PROVE TypeOK'
  <2>1. request' \in [Clients -> Requests]
    BY <1>3 DEF Reject, AppendFails, TypeOK, Requests
  <2>2. QED
    BY <1>3, <2>1 DEF Reject, AppendFails, TypeOK, seqVars, Received, Kind
<1>4. ASSUME NEW c \in Clients, Admit(c) PROVE TypeOK'
  <2>1. request[c].intent \in Intents /\ request[c].now \in Nat
    BY <1>4, RequestFields DEF Admit
  <2> DEFINE e == IntentReceived(request[c].intent, request[c].now)
  <2>2. e \in Entries /\ log' = Append(log, e)
    BY <1>4, <2>1, EntriesMade DEF Admit
  <2>3. log' \in Seq(Entries) /\ Len(log') = Len(log) + 1
        /\ Received(log) \subseteq Received(log')
    BY <2>2, AppendedLog DEF TypeOK
  <2>4. Appended(request[c]) \in Requests
    BY <2>1 DEF Appended, Requests, TypeOK
  <2>5. request' \in [Clients -> Requests]
    BY <1>4, <2>4 DEF Admit, TypeOK
  <2>6. lock' \in Clients \cup {Nobody}
    BY <1>4 DEF Admit
  <2>7. QED
    BY <1>4, <2>3, <2>5, <2>6 DEF Admit, TypeOK, seqVars
<1>5. ASSUME NEW c \in Clients, Record(c) PROVE TypeOK'
  <2>1. request[c].intent \in Intents
    BY <1>5, RequestFields DEF Record
  <2>2. request' \in [Clients -> Requests]
    BY <1>5 DEF Record, TypeOK, Requests
  <2>3. seen' \subseteq Ids
    BY <1>5, <2>1 DEF Record, TypeOK, Ids
  <2>4. nonces' \in [Submitters -> Nat \cup {NoNonce}]
    <3> DEFINE i == request[c].intent
    <3>1. nonces[i.submitter] \in Nat \cup {NoNonce} /\ i.nonce \in Nat
      BY <2>1, IntentsAssumption DEF TypeOK, Submitters
    <3>2. Highest({nonces[i.submitter], i.nonce}) \in Nat \cup {NoNonce}
      <4>1. \E n \in {nonces[i.submitter], i.nonce} :
              \A m \in {nonces[i.submitter], i.nonce} : m =< n
        BY <3>1 DEF NoNonce
      <4>2. Highest({nonces[i.submitter], i.nonce}) \in {nonces[i.submitter], i.nonce}
        BY <4>1 DEF Highest
      <4>3. QED
        BY <3>1, <4>2
    <3>3. QED
      BY <1>5, <3>2 DEF Record, TypeOK
  <2>5. QED
    BY <1>5, <2>2, <2>3, <2>4 DEF Record, TypeOK, seqVars, Received, Kind
<1>6. CASE RecoverGate
  <2>1. ReceivedIds(log) \subseteq Ids
    BY EntryFields DEF TypeOK, ReceivedIds, Ids
  <2>2. \A s \in Submitters : Highest(NoncesIn(s, log)) \in Nat \cup {NoNonce}
    BY NoncesAreFinite, HighestIsGreatest DEF TypeOK
  <2>3. QED
    BY <1>6, <2>1, <2>2 DEF RecoverGate, TypeOK, seqVars, Received, Kind
<1>7. CASE RecoverSequencer
  <2>1. ConsumedBy(log) \in Nat /\ SlotAfter(log) \in Nat
    BY RecoveryTypes DEF TypeOK
  <2>2. QED
    BY <1>7, <2>1 DEF RecoverSequencer, TypeOK, gateVars, Received, Kind
<1>8. CASE Drain
  BY <1>8 DEF Drain, TypeOK, gateVars, Received, Kind
<1>9. CASE CloseSlot
  BY <1>9 DEF CloseSlot, TypeOK, gateVars, Received, Kind
<1>10. CASE RecordMiss
  <2>1. PICK p \in misses, e \in Entries :
          /\ log' = Append(log, e)
          /\ misses' = misses \ {p}
    BY <1>10, MissAppended
  <2>2. log' \in Seq(Entries) /\ Len(log') = Len(log) + 1
        /\ Received(log) \subseteq Received(log')
    BY <2>1, AppendedLog DEF TypeOK
  <2>3. QED
    BY <1>10, <2>1, <2>2 DEF RecordMiss, TypeOK, gateVars
<1>11. CASE CommitSlot
  <2>1. PICK e \in Entries : log' = Append(log, e)
    BY <1>11, CommitAppended
  <2>2. log' \in Seq(Entries) /\ Len(log') = Len(log) + 1
        /\ Received(log) \subseteq Received(log')
    BY <2>1, AppendedLog DEF TypeOK
  <2>3. QED
    BY <1>11, <2>2 DEF CommitSlot, TypeOK, gateVars
<1>12. CASE Tick
  BY <1>12 DEF Tick, TypeOK, gateVars, seqVars, Received, Kind
<1>13. CASE Crash
  <2>1. request' \in [Clients -> Requests]
    BY <1>13 DEF Crash, Requests
  <2>2. nonces' \in [Submitters -> Nat \cup {NoNonce}]
    BY <1>13 DEF Crash
  <2>3. log' \in Seq(Entries) /\ 0 \in 0..Len(log')
    BY <1>13 DEF Crash, TypeOK
  <2>4. clock' \in Nat /\ crashes' \in Nat /\ lock' \in Clients \cup {Nobody}
    BY <1>13 DEF Crash, TypeOK
  <2>5. seen' \subseteq Ids /\ buffer' \subseteq Received(log')
        /\ live' \subseteq Received(log') /\ misses' \subseteq Received(log')
    BY <1>13 DEF Crash
  <2>6. QED
    BY <1>13, <2>1, <2>2, <2>3, <2>4, <2>5 DEF Crash, TypeOK
<1>14. QED
  BY <1>1, <1>2, <1>3, <1>4, <1>5, <1>6, <1>7, <1>8, <1>9, <1>10, <1>11,
     <1>12, <1>13 DEF Next, Gate, Sequencer

\* The program starts in such a state.
LEMMA TypeAtStart ==
  ASSUME Init
  PROVE  TypeOK
<1>1. log \in Seq(Entries) /\ 0 \in 0..Len(log)
  BY DEF Init
<1>2. request \in [Clients -> Requests]
  BY DEF Init, Requests
<1>3. nonces \in [Submitters -> Nat \cup {NoNonce}]
  BY DEF Init
<1>4. QED
  BY <1>1, <1>2, <1>3 DEF Init, TypeOK

\* Every state of Sequencing is one its types allow.  The part that takes an
\* argument: what the sequencer holds (buffer, live, misses) are admissions the
\* log has, and its cursor never points beyond the head (sequencer.rs:83-95,
\* 200-207).
THEOREM TypeCorrect == Spec => []TypeOK
BY TypeAtStart, TypeKeeps, PTL DEF Spec

-----------------------------------------------------------------------------
(* The gate.  NoncesAdvance is not inductive: that an admission keeps it   *)
(* depends on what the check compares with.  GateInv says what the tables  *)
(* hold in every state, the one between append and record included.        *)

\* The gate's two tables say what the log received.
Matches(ids, table) ==
  /\ ids = ReceivedIds(log)
  /\ \A s \in Submitters : table[s] = Highest(NoncesIn(s, log))

\* GateKnowsTheLog and NoncesAdvance, strengthened: between append and record
\* the tables are behind by the entry the lock's holder is about to record, and
\* nobody but the holder is in that place.
GateInv ==
  /\ \A c \in Clients : request[c].pc = "appended" <=> lock = c
  /\ ~ gateUp => \A c \in Clients : request[c] = Idle
  /\ gateUp /\ lock = Nobody => Matches(seen, nonces)
  /\ \A c \in Clients : lock = c =>
       LET i == request[c].intent
       IN  Matches(seen \cup {i.id},
                   [nonces EXCEPT ![i.submitter] = Highest({@, i.nonce})])
  /\ NoncesAdvance

\* What an append does to the history the gate checks against.
LEMMA HistoryAfterAppend ==
  ASSUME NEW entries \in Seq(Entries), NEW e \in Entries
  PROVE  /\ e.kind # "IntentReceived" =>
              /\ ReceivedIds(Append(entries, e)) = ReceivedIds(entries)
              /\ \A s : NoncesIn(s, Append(entries, e)) = NoncesIn(s, entries)
         /\ e.kind = "IntentReceived" =>
              /\ ReceivedIds(Append(entries, e)) = ReceivedIds(entries) \cup {e.intent.id}
              /\ \A s : NoncesIn(s, Append(entries, e)) =
                   NoncesIn(s, entries)
                     \cup (IF e.intent.submitter = s THEN {e.intent.nonce} ELSE {})
<1> DEFINE longer == Append(entries, e)
           n == Len(entries) + 1
<1>1. /\ longer[n] = e
      /\ \A p \in DOMAIN entries : longer[p] = entries[p]
      /\ Received(longer) =
           Received(entries) \cup (IF e.kind = "IntentReceived" THEN {n} ELSE {})
      /\ Received(entries) \subseteq DOMAIN entries
      /\ n \notin DOMAIN entries
  BY AppendedLog DEF Received, Kind
<1>2. CASE e.kind # "IntentReceived"
  BY <1>1, <1>2 DEF ReceivedIds, NoncesIn
<1>3. CASE e.kind = "IntentReceived"
  <2>1. Received(longer) = Received(entries) \cup {n}
    BY <1>1, <1>3
  <2>2. ReceivedIds(longer) = ReceivedIds(entries) \cup {e.intent.id}
    BY <1>1, <2>1 DEF ReceivedIds
  <2>3. ASSUME NEW s
        PROVE  NoncesIn(s, longer) = NoncesIn(s, entries)
                 \cup (IF e.intent.submitter = s THEN {e.intent.nonce} ELSE {})
    <3>1. CASE e.intent.submitter = s
      BY <1>1, <2>1, <3>1 DEF NoncesIn
    <3>2. CASE e.intent.submitter # s
      BY <1>1, <2>1, <3>2 DEF NoncesIn
    <3>3. QED
      BY <3>1, <3>2
  <2>4. QED
    BY <1>3, <2>2, <2>3
<1>4. QED
  BY <1>2, <1>3

\* An entry that is not an admission leaves the gate's invariant alone.
LEMMA GateInvAfterAppend ==
  ASSUME TypeOK, GateInv, NEW e \in Entries, e.kind # "IntentReceived",
         log' = Append(log, e), UNCHANGED gateVars
  PROVE  GateInv'
<1>1. /\ ReceivedIds(log') = ReceivedIds(log)
      /\ \A s : NoncesIn(s, log') = NoncesIn(s, log)
  BY HistoryAfterAppend DEF TypeOK
<1>2. /\ Received(log') = Received(log)
      /\ \A p \in Received(log) : log'[p] = log[p]
  BY AppendedLog DEF TypeOK, Received, Kind
<1>3. NoncesAdvance'
  <2> SUFFICES ASSUME NEW p \in Received(log'), NEW q \in Received(log'), p < q
               PROVE  /\ log'[p].intent # log'[q].intent
                      /\ log'[p].intent.submitter = log'[q].intent.submitter
                           => log'[p].intent.nonce < log'[q].intent.nonce
    BY DEF NoncesAdvance
  <2>1. p \in Received(log) /\ q \in Received(log)
    BY <1>2
  <2>2. log'[p] = log[p] /\ log'[q] = log[q]
    BY <1>2, <2>1
  <2>3. QED
    BY <2>1, <2>2 DEF GateInv, NoncesAdvance
<1>4. Matches(seen, nonces) => Matches(seen, nonces)'
  BY <1>1 DEF Matches, gateVars
<1>5. ASSUME NEW c \in Clients, lock = c
      PROVE  LET i == request[c].intent
             IN  Matches(seen \cup {i.id},
                         [nonces EXCEPT ![i.submitter] = Highest({@, i.nonce})])'
  BY <1>1, <1>5 DEF GateInv, Matches, gateVars
<1>6. UNCHANGED <<gateUp, lock, seen, nonces, request>>
  BY DEF gateVars
<1>7. QED
  BY <1>3, <1>4, <1>5, <1>6 DEF GateInv

\* An admission: the check passed on tables that match the log.
LEMMA GateInvAfterAdmit ==
  ASSUME TypeOK, GateInv, NEW c \in Clients, Admit(c)
  PROVE  GateInv'
<1> DEFINE i == request[c].intent
           e == IntentReceived(i, request[c].now)
           n == Len(log) + 1
<1>1. i \in Intents /\ request[c].now \in Nat /\ i.nonce \in Nat
      /\ i.submitter \in Submitters
  BY RequestFields, IntentsAssumption DEF Admit, Submitters
<1>2. e \in Entries /\ log' = Append(log, e) /\ e.kind = "IntentReceived"
      /\ e.intent = i
  BY <1>1, EntriesMade DEF Admit, IntentReceived
<1>3. gateUp /\ lock = Nobody /\ lock' = c /\ Matches(seen, nonces)
  BY DEF Admit, GateInv, Idle
<1>4. i.id \notin ReceivedIds(log) /\ i.nonce > nonces[i.submitter]
  BY <1>3, PassingChecks DEF Admit, Matches
<1>5. \A k \in NoncesIn(i.submitter, log) : k < i.nonce
  <2>1. \A k \in NoncesIn(i.submitter, log) : k =< nonces[i.submitter]
    BY <1>1, <1>3, NoncesAreFinite, HighestIsGreatest DEF TypeOK, Matches
  <2>2. nonces[i.submitter] \in Int
    BY <1>1 DEF TypeOK, NoNonce
  <2>3. NoncesIn(i.submitter, log) \subseteq Nat
    BY NoncesAreFinite DEF TypeOK
  <2>4. QED
    BY <1>1, <1>4, <2>1, <2>2, <2>3
<1>6. /\ log'[n] = e
      /\ n \in Nat
      /\ \A p \in Received(log) : log'[p] = log[p]
      /\ Received(log') = Received(log) \cup {n}
      /\ \A p \in Received(log) : p \in Nat /\ p < n
  BY <1>2, AppendedLog, EntryFields DEF TypeOK, Received, Kind
<1>7. NoncesAdvance'
  <2> SUFFICES ASSUME NEW p \in Received(log'), NEW q \in Received(log'), p < q
               PROVE  /\ log'[p].intent # log'[q].intent
                      /\ log'[p].intent.submitter = log'[q].intent.submitter
                           => log'[p].intent.nonce < log'[q].intent.nonce
    BY DEF NoncesAdvance
  <2>1. p \in Received(log)
    BY <1>6
  <2>2. CASE q \in Received(log)
    BY <1>6, <2>1, <2>2 DEF GateInv, NoncesAdvance
  <2>3. CASE q = n
    <3>1. log[p].intent.id \in ReceivedIds(log)
      BY <2>1 DEF ReceivedIds
    <3>2. log[p].intent.submitter = i.submitter
            => log[p].intent.nonce \in NoncesIn(i.submitter, log)
      BY <2>1 DEF NoncesIn
    <3>3. log'[q].intent = i /\ log'[p] = log[p]
      BY <1>2, <1>6, <2>1, <2>3
    <3>4. QED
      BY <1>4, <1>5, <3>1, <3>2, <3>3
  <2>4. QED
    BY <1>6, <2>2, <2>3
<1>8. Matches(seen \cup {i.id},
              [nonces EXCEPT ![i.submitter] = Highest({@, i.nonce})])'
  <2>1. request'[c].intent = i /\ UNCHANGED <<seen, nonces>>
    BY DEF Admit, TypeOK, Appended
  <2>2. ReceivedIds(log') = seen \cup {i.id}
    BY <1>2, <1>3, HistoryAfterAppend DEF TypeOK, Matches
  <2>3. ASSUME NEW s \in Submitters
        PROVE  [nonces EXCEPT ![i.submitter] = Highest({@, i.nonce})][s]
                 = Highest(NoncesIn(s, log'))
    <3>1. CASE s # i.submitter
      <4>1. NoncesIn(s, log') = NoncesIn(s, log)
        <5>1. NoncesIn(s, log') = NoncesIn(s, log)
                \cup (IF i.submitter = s THEN {i.nonce} ELSE {})
          BY <1>2, HistoryAfterAppend DEF TypeOK
        <5>2. QED
          BY <3>1, <5>1
      <4>2. [nonces EXCEPT ![i.submitter] = Highest({@, i.nonce})][s] = nonces[s]
        BY <3>1 DEF TypeOK
      <4>3. QED
        BY <1>3, <4>1, <4>2 DEF Matches
    <3>2. CASE s = i.submitter
      <4>1. NoncesIn(s, log') = NoncesIn(s, log) \cup {i.nonce}
        BY <1>2, <3>2, HistoryAfterAppend DEF TypeOK
      <4>2. Highest(NoncesIn(s, log')) = i.nonce
        <5>1. NoncesIn(s, log) \subseteq Nat
          BY NoncesAreFinite DEF TypeOK
        <5>2. \A k \in NoncesIn(s, log') : k =< i.nonce
          BY <1>1, <1>5, <3>2, <4>1, <5>1
        <5>3. NoncesIn(s, log') \in SUBSET Int /\ i.nonce \in NoncesIn(s, log')
          BY <1>1, <4>1, <5>1
        <5>4. QED
          BY <5>2, <5>3, HighestIsUnique
      <4>3. Highest({nonces[s], i.nonce}) = i.nonce
        <5>1. nonces[s] \in Nat \cup {NoNonce} /\ nonces[s] < i.nonce
          BY <1>4, <3>2 DEF TypeOK
        <5>2. nonces[s] \in Int /\ i.nonce \in Int
          BY <1>1, <5>1 DEF NoNonce
        <5>3. \A k \in {nonces[s], i.nonce} : k =< i.nonce
          BY <5>1, <5>2
        <5>4. QED
          BY <5>2, <5>3, HighestIsUnique
      <4>4. QED
        BY <3>2, <4>2, <4>3 DEF TypeOK
    <3>3. QED
      BY <3>1, <3>2
  <2>4. QED
    BY <2>1, <2>2, <2>3 DEF Matches
<1>9. \A d \in Clients : request'[d].pc = "appended" <=> lock' = d
  <2> SUFFICES ASSUME NEW d \in Clients
               PROVE  request'[d].pc = "appended" <=> lock' = d
    OBVIOUS
  <2>1. CASE d = c
    <3>1. request'[c].pc = "appended"
      BY DEF Admit, TypeOK, Appended
    <3>2. QED
      BY <1>3, <2>1, <3>1
  <2>2. CASE d # c
    <3>1. request'[d] = request[d]
      BY <2>2 DEF Admit, TypeOK
    <3>2. lock # d /\ lock' # d
      BY <1>3, <2>2, SequencingAssumption DEF Nobody
    <3>3. QED
      BY <3>1, <3>2 DEF GateInv
  <2>3. QED
    BY <2>1, <2>2
<1>10. gateUp' /\ lock' # Nobody
  BY <1>3, SequencingAssumption DEF Admit, Nobody
<1>11. ASSUME NEW d \in Clients, lock' = d
       PROVE  d = c
  BY <1>3, <1>11
<1>12. QED
  BY <1>7, <1>8, <1>9, <1>10, <1>11 DEF GateInv

\* A request that comes and goes without an append.
LEMMA GateInvAfterRequest ==
  ASSUME TypeOK, GateInv, NEW c \in Clients, NEW r, r.pc # "appended",
         gateUp, lock # c, request' = [request EXCEPT ![c] = r],
         UNCHANGED <<log, gateUp, lock, seen, nonces>>
  PROVE  GateInv'
<1>1. request'[c] = r /\ \A d \in Clients : d # c => request'[d] = request[d]
  BY DEF TypeOK
<1>2. \A d \in Clients : request'[d].pc = "appended" <=> lock' = d
  BY <1>1 DEF GateInv
<1>3. NoncesAdvance' /\ (Matches(seen, nonces) => Matches(seen, nonces)')
  BY DEF GateInv, NoncesAdvance, Matches
<1>4. ASSUME NEW d \in Clients, lock' = d
      PROVE  LET i == request[d].intent
             IN  Matches(seen \cup {i.id},
                         [nonces EXCEPT ![i.submitter] = Highest({@, i.nonce})])'
  <2>1. request'[d] = request[d] /\ lock = d
    BY <1>1, <1>4
  <2>2. QED
    BY <2>1 DEF GateInv, Matches
<1>5. gateUp'
  OBVIOUS
<1>6. QED
  BY <1>2, <1>3, <1>4, <1>5 DEF GateInv

\* The step of anyone who touches neither the log nor the gate.
LEMMA GateInvFrame ==
  ASSUME GateInv, UNCHANGED <<log, gateVars>>
  PROVE  GateInv'
<1>1. UNCHANGED <<log, gateUp, lock, seen, nonces, request>>
  BY DEF gateVars
<1>2. NoncesAdvance'
  BY <1>1 DEF GateInv, NoncesAdvance
<1>3. QED
  BY <1>1, <1>2 DEF GateInv, Matches

\* The invariant in every step.
LEMMA GateInvKeeps ==
  ASSUME TypeOK, TypeOK', GateInv, [Next]_vars
  PROVE  GateInv'
<1>1. CASE UNCHANGED vars
  BY <1>1, GateInvFrame DEF vars
<1>2. CASE RecoverGate
  <2>1. \A c \in Clients : request[c] = Idle /\ lock # c
    BY <1>2 DEF RecoverGate, GateInv, Idle
  <2>2. UNCHANGED <<log, lock, request>> /\ gateUp'
    BY <1>2 DEF RecoverGate
  <2>3. ReceivedIds(log') = seen'
    BY <1>2 DEF RecoverGate
  <2>4. \A s \in Submitters : nonces'[s] = Highest(NoncesIn(s, log'))
    BY <1>2 DEF RecoverGate
  <2>5. NoncesAdvance'
    BY <2>2 DEF GateInv, NoncesAdvance
  <2>6. \A c \in Clients : request'[c].pc # "appended" /\ lock' # c
    BY <2>1, <2>2 DEF Idle
  <2>7. QED
    BY <2>2, <2>3, <2>4, <2>5, <2>6 DEF GateInv, Matches
<1>3. ASSUME NEW c \in Clients, NEW i \in Intents, Arrive(c, i)
      PROVE  GateInv'
  <2> DEFINE r == [pc |-> "arrived", intent |-> i, now |-> clock]
  <2>1. gateUp /\ request[c] = Idle /\ request' = [request EXCEPT ![c] = r]
        /\ UNCHANGED <<log, gateUp, lock, seen, nonces>>
    BY <1>3 DEF Arrive
  <2>2. lock # c /\ r.pc # "appended"
    BY <2>1 DEF GateInv, Idle
  <2>3. QED
    BY <2>1, <2>2, GateInvAfterRequest
<1>4. ASSUME NEW c \in Clients, Reject(c) \/ AppendFails(c)
      PROVE  GateInv'
  <2>1. /\ request[c].pc = "arrived"
        /\ request' = [request EXCEPT ![c] = Idle]
        /\ UNCHANGED <<log, gateUp, lock, seen, nonces>>
    BY <1>4 DEF Reject, AppendFails
  <2>2. lock # c /\ gateUp /\ Idle.pc # "appended"
    BY <2>1 DEF GateInv, Idle
  <2>3. QED
    BY <2>1, <2>2, GateInvAfterRequest
<1>5. ASSUME NEW c \in Clients, Admit(c)
      PROVE  GateInv'
  BY <1>5, GateInvAfterAdmit
<1>6. ASSUME NEW c \in Clients, Record(c)
      PROVE  GateInv'
  <2> DEFINE i == request[c].intent
  <2>1. lock = c /\ request[c].pc = "appended" /\ lock' = Nobody
        /\ request' = [request EXCEPT ![c] = Idle]
        /\ UNCHANGED <<log, gateUp>>
    BY <1>6 DEF Record, GateInv
  <2>2. gateUp
    BY <2>1 DEF GateInv, Idle
  <2>3. Matches(seen, nonces)'
    <3>1. Matches(seen \cup {i.id},
                  [nonces EXCEPT ![i.submitter] = Highest({@, i.nonce})])
      BY <2>1 DEF GateInv
    <3>2. seen' = seen \cup {i.id}
          /\ nonces' = [nonces EXCEPT ![i.submitter] = Highest({@, i.nonce})]
      BY <1>6 DEF Record
    <3>3. QED
      BY <2>1, <3>1, <3>2 DEF Matches
  <2>4. NoncesAdvance'
    BY <2>1 DEF GateInv, NoncesAdvance
  <2>5. \A d \in Clients : request'[d].pc # "appended" /\ lock' # d
    <3> SUFFICES ASSUME NEW d \in Clients
                 PROVE  request'[d].pc # "appended" /\ lock' # d
      OBVIOUS
    <3>1. lock' # d
      BY <2>1, SequencingAssumption DEF Nobody
    <3>2. CASE d = c
      BY <2>1, <3>1, <3>2 DEF TypeOK, Idle
    <3>3. CASE d # c
      <4>1. request'[d] = request[d]
        BY <2>1, <3>3 DEF TypeOK
      <4>2. QED
        BY <2>1, <3>1, <3>3, <4>1 DEF GateInv
    <3>4. QED
      BY <3>2, <3>3
  <2>6. QED
    BY <2>1, <2>2, <2>3, <2>4, <2>5 DEF GateInv
<1>7. CASE RecoverSequencer \/ Drain \/ CloseSlot \/ Tick
  <2>1. UNCHANGED <<log, gateVars>>
    BY <1>7 DEF RecoverSequencer, Drain, CloseSlot, Tick
  <2>2. QED
    BY <2>1, GateInvFrame
<1>8. CASE RecordMiss
  BY <1>8, MissAppended, GateInvAfterAppend DEF RecordMiss
<1>9. CASE CommitSlot
  BY <1>9, CommitAppended, GateInvAfterAppend DEF CommitSlot
<1>10. CASE Crash
  <2>1. \A c \in Clients : request'[c] = Idle /\ request'[c].pc # "appended"
    BY <1>10 DEF Crash, Idle
  <2>2. \A c \in Clients : lock' # c
    BY <1>10, SequencingAssumption DEF Crash, Nobody
  <2>3. ~ gateUp' /\ log' = log
    BY <1>10 DEF Crash
  <2>4. NoncesAdvance'
    BY <2>3 DEF GateInv, NoncesAdvance
  <2>5. lock' = Nobody
    BY <1>10 DEF Crash
  <2>6. QED
    BY <2>1, <2>2, <2>3, <2>4 DEF GateInv
<1>11. QED
  BY <1>1, <1>2, <1>3, <1>4, <1>5, <1>6, <1>7, <1>8, <1>9, <1>10
     DEF Next, Gate, Sequencer

\* The invariant at the start.
LEMMA GateInvAtStart ==
  ASSUME Init
  PROVE  GateInv
<1>1. Received(log) = {}
  BY DEF Init, Received, Kind
<1>2. NoncesAdvance
  BY <1>1 DEF NoncesAdvance
<1>3. \A c \in Clients : request[c] = Idle /\ request[c].pc # "appended"
  BY DEF Init, Idle
<1>4. \A c \in Clients : lock # c
  BY SequencingAssumption DEF Init, Nobody
<1>5. ~ gateUp
  BY DEF Init
<1>6. QED
  BY <1>2, <1>3, <1>4, <1>5 DEF GateInv

\* GateKnowsTheLog and NoncesAdvance hold in every state, for every set of
\* intents and any number of concurrent requests: admission.rs:155-174 checks
\* and appends under one lock, and recover rebuilds the tables the lock guards.
THEOREM GateCorrect == Spec => [](GateKnowsTheLog /\ NoncesAdvance)
<1>1. GateInv => GateKnowsTheLog /\ NoncesAdvance
  BY DEF GateInv, GateKnowsTheLog, Matches
<1>2. QED
  BY <1>1, GateInvAtStart, GateInvKeeps, TypeCorrect, PTL DEF Spec

\* The gate's tables are the log's (admission.rs:34-49, 103-107): whenever the
\* lock is free, whatever raced, failed to append or restarted before.
THEOREM GateKnows == Spec => []GateKnowsTheLog
BY GateCorrect, PTL

\* No id twice and no nonce that does not advance is let in
\* (admission.rs:51-94).
THEOREM NoReplay == Spec => []NoncesAdvance
BY GateCorrect, PTL

-----------------------------------------------------------------------------
(* What clients are told: the gate under HttpApi.                          *)

\* What HttpApi lets the gate, the log and the clock do: what Sequencing does,
\* or a miss.
GateSteps == [Next]_vars \/ Drop

\* Every step of HttpApi is one of those.
LEMMA ApiStepsOfTheGate ==
  ASSUME [ApiNext]_<<vars, apiVars>>
  PROVE  GateSteps
<1>1. CASE UNCHANGED <<vars, apiVars>>
  BY <1>1 DEF GateSteps
<1>2. ASSUME NEW c \in Clients, NEW i \in Intents, Submit(c, i) \/ Look(c, i.id)
      PROVE  GateSteps
  <2>1. Arrive(c, i) \/ UNCHANGED vars
    BY <1>2 DEF Submit, Look
  <2>2. QED
    BY <2>1 DEF GateSteps, Next, Gate
<1>3. ASSUME NEW c \in Clients,
             Refuse(c) \/ FailToLog(c) \/ AdmitAt(c) \/ Accept(c)
      PROVE  GateSteps
  <2>1. Reject(c) \/ AppendFails(c) \/ Admit(c) \/ Record(c)
    BY <1>3 DEF Refuse, FailToLog, AdmitAt, Accept
  <2>2. QED
    BY <2>1 DEF GateSteps, Next, Gate
<1>4. ASSUME NEW c \in Clients, AskBadly(c) \/ Miss(c)
      PROVE  GateSteps
  BY <1>4 DEF AskBadly, Miss, GateSteps
<1>5. CASE Fold
  BY <1>5 DEF Fold, GateSteps
<1>6. CASE Drop
  BY <1>6 DEF GateSteps
<1>7. CASE Restarted \/ ApiTick \/ ApiCrash
  BY <1>7 DEF Restarted, ApiTick, ApiCrash, GateSteps, Next, Gate
<1>8. QED
  BY <1>1, <1>2, <1>3, <1>4, <1>5, <1>6, <1>7 DEF ApiNext

\* The entry Drop appends.
LEMMA DropAppends ==
  ASSUME TypeOK, Drop
  PROVE  \E e \in Entries :
           /\ e.kind = "IntentExpired"
           /\ log' = Append(log, e)
           /\ UNCHANGED <<clock, crashes, gateVars, seqVars>>
<1>1. PICK p \in Received(log) :
        log' = Append(log, IntentExpired(log[p].intent.id,
                             deadline_for(log[p].received_at), clock))
  BY DEF Drop
<1>2. log[p].intent \in Intents /\ log[p].received_at \in Nat
  BY EntryFields DEF TypeOK
<1>3. deadline_for(log[p].received_at) \in Nat /\ log[p].intent.id \in Ids
      /\ clock \in Nat
  BY <1>2, SequencingAssumption DEF TypeOK, Ids, deadline_for
<1> DEFINE e == IntentExpired(log[p].intent.id,
                              deadline_for(log[p].received_at), clock)
<1>4. e \in Entries
  BY <1>3, EntriesMade
<1>5. e.kind = "IntentExpired"
  BY DEF IntentExpired
<1>6. UNCHANGED <<clock, crashes, gateVars, seqVars>>
  BY DEF Drop
<1>7. QED
  BY <1>1, <1>4, <1>5, <1>6

\* The gate's types and its invariant hold under HttpApi.
LEMMA GateKeepsUnderApi ==
  ASSUME TypeOK, GateInv, GateSteps
  PROVE  TypeOK' /\ GateInv'
<1>1. CASE [Next]_vars
  BY <1>1, TypeKeeps, GateInvKeeps
<1>2. CASE Drop
  <2>1. PICK e \in Entries :
          /\ e.kind = "IntentExpired"
          /\ log' = Append(log, e)
          /\ UNCHANGED <<clock, crashes, gateVars, seqVars>>
    BY <1>2, DropAppends
  <2>2. log' \in Seq(Entries) /\ Len(log') = Len(log) + 1
        /\ Received(log) \subseteq Received(log')
    BY <2>1, AppendedLog DEF TypeOK
  <2>3. TypeOK'
    BY <2>1, <2>2 DEF TypeOK, gateVars, seqVars
  <2>4. GateInv'
    BY <2>1, GateInvAfterAppend
  <2>5. QED
    BY <2>3, <2>4
<1>3. QED
  BY <1>1, <1>2 DEF GateSteps

\* What the log received stays where it is, and the clock does not step back.
LEMMA HistoryStays ==
  ASSUME TypeOK, GateSteps
  PROVE  /\ clock =< clock'
         /\ \A p \in Received(log) : p \in Received(log') /\ log'[p] = log[p]
<1>1. CASE UNCHANGED <<clock, log>>
  BY <1>1 DEF TypeOK, Received, Kind
<1>2. ASSUME NEW e \in Entries, log' = Append(log, e), clock' = clock
      PROVE  /\ clock =< clock'
             /\ \A p \in Received(log) : p \in Received(log') /\ log'[p] = log[p]
  <2>1. /\ \A p \in DOMAIN log : log'[p] = log[p]
        /\ Received(log) \subseteq Received(log')
    BY <1>2, AppendedLog DEF TypeOK
  <2>2. Received(log) \subseteq DOMAIN log
    BY DEF Received, Kind
  <2>3. clock \in Nat
    BY DEF TypeOK
  <2>4. QED
    BY <1>2, <2>1, <2>2, <2>3
<1>3. CASE Drop
  BY <1>2, <1>3, DropAppends
<1>4. CASE RecordMiss
  BY <1>2, <1>4, MissAppended DEF RecordMiss
<1>5. CASE CommitSlot
  BY <1>2, <1>5, CommitAppended DEF CommitSlot
<1>6. ASSUME NEW c \in Clients, Admit(c)
      PROVE  \E e \in Entries : log' = Append(log, e) /\ clock' = clock
  BY <1>6, RequestFields, EntriesMade DEF Admit
<1>7. CASE Tick
  BY <1>7 DEF Tick, TypeOK, Received, Kind
<1>8. ASSUME NEW c \in Clients, NEW i \in Intents, Arrive(c, i)
      PROVE  UNCHANGED <<clock, log>>
  BY <1>8 DEF Arrive
<1>9. CASE RecoverGate \/ RecoverSequencer \/ Drain \/ CloseSlot \/ Crash
  BY <1>1, <1>9 DEF RecoverGate, RecoverSequencer, Drain, CloseSlot, Crash
<1>10. CASE UNCHANGED vars
  BY <1>1, <1>10 DEF vars
<1>11. ASSUME NEW c \in Clients, Reject(c) \/ AppendFails(c) \/ Record(c)
       PROVE  UNCHANGED <<clock, log>>
  BY <1>11 DEF Reject, AppendFails, Record
<1>12. QED
  BY <1>1, <1>2, <1>3, <1>4, <1>5, <1>6, <1>7, <1>8, <1>9, <1>10, <1>11
     DEF GateSteps, Next, Gate, Sequencer

\* What can become of a client's submission in a step.
LEMMA RequestSteps ==
  ASSUME TypeOK, GateSteps, NEW c \in Clients
  PROVE  \/ request'[c] = request[c]
         \/ request'[c] = Idle
         \/ /\ clock' = clock
            /\ \E i \in Intents :
                 request'[c] = [pc |-> "arrived", intent |-> i, now |-> clock]
         \/ Admit(c)
<1>1. CASE UNCHANGED request
  BY <1>1
<1>2. ASSUME NEW d \in Clients, NEW i \in Intents, Arrive(d, i)
      PROVE  \/ request'[c] = request[c]
             \/ /\ clock' = clock
                /\ request'[c] = [pc |-> "arrived", intent |-> i, now |-> clock]
  BY <1>2 DEF Arrive, TypeOK
<1>3. ASSUME NEW d \in Clients, Reject(d) \/ AppendFails(d) \/ Record(d)
      PROVE  request'[c] = request[c] \/ request'[c] = Idle
  BY <1>3 DEF Reject, AppendFails, Record, TypeOK
<1>4. ASSUME NEW d \in Clients, Admit(d), d # c
      PROVE  request'[c] = request[c]
  BY <1>4 DEF Admit, TypeOK
<1>5. CASE Crash
  BY <1>5 DEF Crash
<1>6. CASE \/ RecoverGate \/ RecoverSequencer \/ Drain \/ CloseSlot \/ RecordMiss
           \/ CommitSlot \/ Tick \/ Drop \/ UNCHANGED vars
  BY <1>1, <1>6 DEF RecoverGate, RecoverSequencer, Drain, CloseSlot, RecordMiss,
                    CommitSlot, Tick, Drop, vars, gateVars
<1>7. QED
  BY <1>1, <1>2, <1>3, <1>4, <1>5, <1>6 DEF GateSteps, Next, Gate, Sequencer

-----------------------------------------------------------------------------
(* Acknowledgements.                                                       *)

\* The entry of r is in the log l where append said it is: the intent as it came,
\* with the sample.
IsAt(l, r) ==
  /\ r.position \in Nat
  /\ r.position + 1 \in Received(l)
  /\ l[r.position + 1].intent = r.intent
  /\ l[r.position + 1].received_at = r.now

\* Clock samples are of the past, and the entry of the lock's holder is in place,
\* whatever the sequencer has appended after it.
RequestInv ==
  \A c \in Clients :
    /\ request[c] # Idle => request[c].now =< clock
    /\ request[c].pc = "appended" => IsAt(log, request[c])

Acknowledgements == [intent_id : Ids, log_position : Nat, received_at : Nat]

ToldInv == told \subseteq Acknowledgements /\ AcknowledgedIsInTheLog

\* Every step keeps what is known of the requests.
LEMMA RequestInvKeeps ==
  ASSUME TypeOK, RequestInv, GateSteps
  PROVE  RequestInv'
<1>1. SUFFICES ASSUME NEW c \in Clients
               PROVE  /\ request'[c] # Idle => request'[c].now =< clock'
                      /\ request'[c].pc = "appended" => IsAt(log', request'[c])
  BY DEF RequestInv
<1>2. clock \in Nat /\ clock' \in Int /\ clock =< clock'
  <2>1. clock' = clock \/ clock' = clock + 1
    BY DEF GateSteps, Next, Gate, Sequencer, RecoverGate, Arrive, Reject,
           AppendFails, Admit, Record, RecoverSequencer, Drain, CloseSlot,
           RecordMiss, CommitSlot, Tick, Crash, Drop, vars
  <2>2. QED
    BY <2>1 DEF TypeOK
<1>3. CASE request'[c] = request[c]
  <2>1. request[c] # Idle => request[c].now \in Nat
    BY DEF TypeOK, Requests
  <2>2. request[c] # Idle => request'[c].now =< clock'
    BY <1>2, <1>3, <2>1 DEF RequestInv
  <2>3. \A p \in Received(log) : p \in Received(log') /\ log'[p] = log[p]
    BY HistoryStays
  <2>4. request[c].pc = "appended" => IsAt(log', request'[c])
    BY <1>3, <2>3 DEF RequestInv, IsAt
  <2>5. QED
    BY <1>3, <2>2, <2>4
<1>4. CASE request'[c] = Idle
  BY <1>4 DEF Idle
<1>5. ASSUME NEW i \in Intents, clock' = clock,
             request'[c] = [pc |-> "arrived", intent |-> i, now |-> clock]
      PROVE  request'[c].now =< clock' /\ request'[c].pc # "appended"
  BY <1>2, <1>5
<1>6. CASE Admit(c)
  <2>1. /\ request[c].pc = "arrived"
        /\ log' = Append(log, IntentReceived(request[c].intent, request[c].now))
        /\ clock' = clock
        /\ request' = [request EXCEPT ![c] = Appended(request[c])]
    BY <1>6 DEF Admit
  <2>2. request[c].intent \in Intents /\ request[c].now \in Nat
    BY <2>1, RequestFields
  <2>3. request[c] # Idle /\ request[c] \in Requests
    BY <2>1 DEF Idle, TypeOK
  <2>4. /\ request'[c].intent = request[c].intent
        /\ request'[c].now = request[c].now
        /\ request'[c].position = Len(log)
    BY <2>1 DEF TypeOK, Appended
  <2>5. PICK e \in Entries : e = IntentReceived(request[c].intent, request[c].now)
    BY <2>2, EntriesMade
  <2>6. /\ e.kind = "IntentReceived"
        /\ e.intent = request[c].intent
        /\ e.received_at = request[c].now
    BY <2>5 DEF IntentReceived
  <2>7. log'[Len(log) + 1] = e /\ Len(log) + 1 \in Received(log') /\ Len(log) \in Nat
    BY <2>1, <2>5, <2>6, AppendedLog DEF TypeOK
  <2>8. request[c].now =< clock
    BY <2>3 DEF RequestInv
  <2>9. IsAt(log', request'[c])
    BY <2>4, <2>6, <2>7 DEF IsAt
  <2>10. QED
    BY <2>1, <2>4, <2>8, <2>9
<1>7. QED
  BY <1>3, <1>4, <1>5, <1>6, RequestSteps

\* Only an answer to a submission tells a client of a position.
LEMMA OnlyAcceptTells ==
  ASSUME [ApiNext]_<<vars, apiVars>>
  PROVE  told' = told \/ \E c \in Clients : Accept(c)
BY DEF ApiNext, Submit, Look, Refuse, FailToLog, AdmitAt, AskBadly, Miss, Fold,
       Drop, Restarted, ApiTick, ApiCrash, apiVars

\* What was told stays so in every step.
LEMMA ToldInvKeeps ==
  ASSUME TypeOK, GateInv, RequestInv, ToldInv, [ApiNext]_<<vars, apiVars>>
  PROVE  ToldInv'
<1>1. \A p \in Received(log) : p \in Received(log') /\ log'[p] = log[p]
  BY ApiStepsOfTheGate, HistoryStays
<1>2. ASSUME NEW t \in told
      PROVE  /\ t \in Acknowledgements
             /\ t.log_position + 1 \in Received(log')
             /\ log'[t.log_position + 1].intent.id = t.intent_id
             /\ log'[t.log_position + 1].received_at = t.received_at
  BY <1>1 DEF ToldInv, AcknowledgedIsInTheLog
<1>3. ASSUME NEW c \in Clients, Accept(c), NEW t \in told' \ told
      PROVE  /\ t \in Acknowledgements
             /\ t.log_position + 1 \in Received(log')
             /\ log'[t.log_position + 1].intent.id = t.intent_id
             /\ log'[t.log_position + 1].received_at = t.received_at
  <2>1. request[c].pc = "appended"
    BY <1>3 DEF Accept, Record
  <2>2. t = [intent_id |-> request[c].intent.id, log_position |-> PositionOf(c),
             received_at |-> request[c].now]
    BY <1>3 DEF Accept, SubmitResponse
  <2>3. request[c].intent.id \in Ids /\ request[c].now \in Nat
    BY <2>1, RequestFields DEF Ids
  <2>4. /\ PositionOf(c) \in Nat
        /\ PositionOf(c) + 1 \in Received(log)
        /\ log[PositionOf(c) + 1].intent = request[c].intent
        /\ log[PositionOf(c) + 1].received_at = request[c].now
    BY <2>1 DEF RequestInv, IsAt, PositionOf
  <2>5. t \in Acknowledgements
    BY <2>2, <2>3, <2>4 DEF Acknowledgements
  <2>6. QED
    BY <1>1, <2>2, <2>4, <2>5
<1>4. \A t \in told' :
        /\ t \in Acknowledgements
        /\ t.log_position + 1 \in Received(log')
        /\ log'[t.log_position + 1].intent.id = t.intent_id
        /\ log'[t.log_position + 1].received_at = t.received_at
  BY <1>2, <1>3, OnlyAcceptTells
\* Two answers with one position name the same entry, so they agree.
<1>5. \A t, u \in told' : t.log_position = u.log_position => t = u
  <2> SUFFICES ASSUME NEW t \in told', NEW u \in told',
                      t.log_position = u.log_position
               PROVE  t = u
    OBVIOUS
  <2>1. t \in Acknowledgements /\ u \in Acknowledgements
    BY <1>4
  <2>2. t.intent_id = u.intent_id /\ t.received_at = u.received_at
    BY <1>4
  <2>3. QED
    BY <2>1, <2>2 DEF Acknowledgements
<1>6. QED
  BY <1>4, <1>5 DEF ToldInv, AcknowledgedIsInTheLog

-----------------------------------------------------------------------------
(* Refusals.                                                               *)

\* A submission that does not pass has a first check that fails.
LEMMA FirstFails ==
  ASSUME NEW i, NEW now, ~ Passes(i, now)
  PROVE  /\ FirstFailing(i, now) \in 1..7
         /\ ~ Checks(i, now)[FirstFailing(i, now)]
         /\ \A n \in 1..(FirstFailing(i, now) - 1) : Checks(i, now)[n]
<1> DEFINE Failing == {k \in 1..7 : ~ Checks(i, now)[k]}
           IsFirst(k) == /\ ~ Checks(i, now)[k]
                         /\ \A n \in 1..(k - 1) : Checks(i, now)[n]
<1>1. \E k \in 1..7 : IsFirst(k)
  <2>1. PICK k \in 1..7 : ~ Checks(i, now)[k]
    BY DEF Passes
  <2>2. CASE IsFirst(1) \/ IsFirst(2) \/ IsFirst(3) \/ IsFirst(4)
             \/ IsFirst(5) \/ IsFirst(6) \/ IsFirst(7)
    BY <2>2
  <2>3. QED
    BY <2>1, <2>2
<1>2. QED
  BY <1>1 DEF FirstFailing

\* What a refusal says of the intent, the sample and the gate's tables, by its
\* reason.
LEMMA RejectionSays ==
  ASSUME NEW i, NEW now, ~ Passes(i, now)
  PROVE  LET b == Rejection(i, now)
         IN  /\ status(b) = 409 => b.reason \in {"replay", "stale_nonce"}
             /\ b.reason = "zero_size" => i.size = 0
             /\ b.reason = "empty_market" => ~ i.named
             /\ b.reason = "slippage_out_of_range" =>
                  /\ ~ (i.max_slippage_bps =< MAX_SLIPPAGE_BPS)
                  /\ b.got = i.max_slippage_bps /\ b.limit = MAX_SLIPPAGE_BPS
             /\ b.reason = "expired" =>
                  /\ ~ (i.deadline_ms > now)
                  /\ b.deadline_ms = i.deadline_ms /\ b.now_ms = now
             /\ b.reason = "unmeetable_window" =>
                  /\ i.deadline_ms > now /\ ~ (i.deadline_ms >= deadline_for(now))
                  /\ b.deadline_ms = i.deadline_ms
                  /\ b.guarantee_deadline_ms = deadline_for(now)
             /\ b.reason = "replay" => i.id \in seen /\ b.intent_id = i.id
             /\ b.reason = "stale_nonce" =>
                  /\ i.id \notin seen
                  /\ ~ (i.nonce > nonces[i.submitter])
                  /\ b.got = i.nonce
                  /\ b.last = nonces[i.submitter]
<1> DEFINE failed == FirstFailing(i, now)
           b == Rejection(i, now)
<1>1. /\ failed \in 1..7
      /\ ~ Checks(i, now)[failed]
      /\ \A n \in 1..(failed - 1) : Checks(i, now)[n]
  BY FirstFails
<1>2. status(b) = 409 => b.reason \in {"replay", "stale_nonce"}
  BY DEF status
<1>3. CASE failed \in {1, 2, 3}
  <2>1. /\ failed = 1 => b.reason = "zero_size"
        /\ failed = 2 => b.reason = "empty_market"
        /\ failed = 3 => /\ b.reason = "slippage_out_of_range"
                         /\ b.got = i.max_slippage_bps
                         /\ b.limit = MAX_SLIPPAGE_BPS
    BY <1>3 DEF Rejection
  <2>2. ASSUME failed = 1 PROVE i.size = 0
    <3>1. ~ Checks(i, now)[1]
      BY <1>1, <2>2
    <3>2. QED
      BY <3>1 DEF Checks
  <2>3. ASSUME failed = 2 PROVE ~ i.named
    <3>1. ~ Checks(i, now)[2]
      BY <1>1, <2>3
    <3>2. QED
      BY <3>1 DEF Checks
  <2>4. ASSUME failed = 3 PROVE ~ (i.max_slippage_bps =< MAX_SLIPPAGE_BPS)
    <3>1. ~ Checks(i, now)[3]
      BY <1>1, <2>4
    <3>2. QED
      BY <3>1 DEF Checks
  <2>5. QED
    BY <1>2, <1>3, <2>1, <2>2, <2>3, <2>4
<1>4. CASE failed = 4
  <2>1. b.reason = "expired" /\ b.deadline_ms = i.deadline_ms /\ b.now_ms = now
    BY <1>4 DEF Rejection
  <2>2. ~ Checks(i, now)[4]
    BY <1>1, <1>4
  <2>3. ~ (i.deadline_ms > now)
    BY <2>2 DEF Checks
  <2>4. QED
    BY <1>2, <2>1, <2>3
<1>5. CASE failed = 5
  <2>1. /\ b.reason = "unmeetable_window"
        /\ b.deadline_ms = i.deadline_ms
        /\ b.guarantee_deadline_ms = deadline_for(now)
    BY <1>5 DEF Rejection
  <2>2. Checks(i, now)[4] /\ ~ Checks(i, now)[5]
    BY <1>1, <1>5
  <2>3. i.deadline_ms > now /\ ~ (i.deadline_ms >= deadline_for(now))
    BY <2>2 DEF Checks
  <2>4. QED
    BY <1>2, <2>1, <2>3
<1>6. CASE failed = 6
  <2>1. b.reason = "replay" /\ b.intent_id = i.id
    BY <1>6 DEF Rejection
  <2>2. ~ Checks(i, now)[6]
    BY <1>1, <1>6
  <2>3. i.id \in seen
    BY <2>2 DEF Checks
  <2>4. QED
    BY <1>2, <2>1, <2>3
<1>7. CASE failed = 7
  <2>1. /\ b.reason = "stale_nonce"
        /\ b.got = i.nonce
        /\ b.last = nonces[i.submitter]
    BY <1>7 DEF Rejection
  <2>2. Checks(i, now)[6] /\ ~ Checks(i, now)[7]
    BY <1>1, <1>7
  <2>3. i.id \notin seen /\ ~ (i.nonce > nonces[i.submitter])
    BY <2>2 DEF Checks
  <2>4. QED
    BY <1>2, <2>1, <2>3
<1>8. QED
  BY <1>1, <1>3, <1>4, <1>5, <1>6, <1>7

\* A refusal is true as it is given.
LEMMA RefusedTruly ==
  ASSUME TypeOK, GateInv, RequestInv, NEW c \in Clients, Refuse(c)
  PROVE  RefusalsAreTrue'
<1> DEFINE i == request[c].intent
           now == request[c].now
           b == Rejection(i, now)
<1>1. /\ request[c].pc = "arrived"
      /\ lock = Nobody
      /\ ~ Passes(i, now)
      /\ log' = log
      /\ clock' = clock
      /\ answer' = [to |-> request[c], code |-> status(b), body |-> b]
  BY DEF Refuse, Reject, Answer
<1>2. /\ i \in Intents
      /\ now \in Nat
      /\ now =< clock
      /\ clock \in Nat
      /\ i.nonce \in Nat
      /\ i.deadline_ms \in Nat
      /\ i.max_slippage_bps \in Nat
      /\ i.submitter \in Submitters
  <2>1. i \in Intents /\ now \in Nat
    BY <1>1, RequestFields
  <2>2. request[c] # Idle
    BY <1>1 DEF Idle
  <2>3. now =< clock
    BY <2>2 DEF RequestInv
  <2>4. QED
    BY <2>1, <2>3, IntentsAssumption DEF TypeOK, Submitters
<1>3. Matches(seen, nonces)
  <2>1. gateUp
    BY <1>1 DEF GateInv, Idle
  <2>2. QED
    BY <1>1, <2>1 DEF GateInv
<1>4. /\ status(b) = 409 => b.reason \in {"replay", "stale_nonce"}
      /\ b.reason = "zero_size" => i.size = 0
      /\ b.reason = "empty_market" => ~ i.named
      /\ b.reason = "slippage_out_of_range" =>
           /\ ~ (i.max_slippage_bps =< MAX_SLIPPAGE_BPS)
           /\ b.got = i.max_slippage_bps /\ b.limit = MAX_SLIPPAGE_BPS
      /\ b.reason = "expired" =>
           /\ ~ (i.deadline_ms > now)
           /\ b.deadline_ms = i.deadline_ms /\ b.now_ms = now
      /\ b.reason = "unmeetable_window" =>
           /\ i.deadline_ms > now /\ ~ (i.deadline_ms >= deadline_for(now))
           /\ b.deadline_ms = i.deadline_ms
           /\ b.guarantee_deadline_ms = deadline_for(now)
      /\ b.reason = "replay" => i.id \in seen /\ b.intent_id = i.id
      /\ b.reason = "stale_nonce" =>
           /\ i.id \notin seen
           /\ ~ (i.nonce > nonces[i.submitter])
           /\ b.got = i.nonce
           /\ b.last = nonces[i.submitter]
  BY <1>1, RejectionSays
<1>5. /\ b.reason = "zero_size" => i.size = 0
      /\ b.reason = "empty_market" => ~ i.named
      /\ b.reason = "slippage_out_of_range" =>
           /\ i.max_slippage_bps > MAX_SLIPPAGE_BPS
           /\ b.got = i.max_slippage_bps /\ b.limit = MAX_SLIPPAGE_BPS
      /\ b.reason = "expired" =>
           /\ i.deadline_ms =< now /\ now =< clock
           /\ b.deadline_ms = i.deadline_ms /\ b.now_ms = now
  <2>1. ~ (i.max_slippage_bps =< MAX_SLIPPAGE_BPS)
          => i.max_slippage_bps > MAX_SLIPPAGE_BPS
    BY <1>2 DEF MAX_SLIPPAGE_BPS
  <2>2. ~ (i.deadline_ms > now) => i.deadline_ms =< now
    BY <1>2
  <2>3. QED
    BY <1>2, <1>4, <2>1, <2>2
<1>6. b.reason = "unmeetable_window" =>
        /\ now < i.deadline_ms /\ i.deadline_ms < now + Window /\ now =< clock
        /\ b.deadline_ms = i.deadline_ms
        /\ b.guarantee_deadline_ms = now + Window
  <2>1. i.deadline_ms > now => now < i.deadline_ms
    BY <1>2
  <2>2. ~ (i.deadline_ms >= deadline_for(now)) => i.deadline_ms < now + Window
    BY <1>2, SequencingAssumption DEF deadline_for
  <2>3. deadline_for(now) = now + Window
    BY DEF deadline_for
  <2>4. QED
    BY <1>2, <1>4, <2>1, <2>2, <2>3
<1>7. ASSUME b.reason = "replay"
      PROVE  \E p \in Received(log) : log[p].intent = i
  <2>1. PICK p \in Received(log) : log[p].intent.id = i.id
    BY <1>3, <1>4, <1>7 DEF Matches, ReceivedIds
  <2>2. log[p].intent \in Intents
    BY EntryFields DEF TypeOK
  <2>3. QED
    BY <1>2, <2>1, <2>2, IntentsAssumption
<1>8. ASSUME b.reason = "stale_nonce"
      PROVE  \E p \in Received(log) :
               /\ log[p].intent # i
               /\ log[p].intent.submitter = i.submitter
               /\ log[p].intent.nonce = b.last
               /\ b.got = i.nonce
               /\ i.nonce =< b.last
               /\ \A q \in Received(log) :
                    log[q].intent.submitter = i.submitter
                      => log[q].intent.nonce =< b.last
  <2> DEFINE S == NoncesIn(i.submitter, log)
  <2>1. S \in SUBSET Nat /\ IsFiniteSet(S)
    BY NoncesAreFinite DEF TypeOK
  <2>2. b.last = Highest(S) /\ b.got = i.nonce /\ ~ (i.nonce > Highest(S))
    BY <1>2, <1>3, <1>4, <1>8 DEF Matches
  <2>3. /\ Highest(S) \in Nat \cup {NoNonce}
        /\ S = {} <=> Highest(S) = NoNonce
        /\ S # {} => Highest(S) \in S
        /\ \A n \in S : n =< Highest(S)
    BY <2>1, HighestIsGreatest
  <2>4. i.nonce =< Highest(S) /\ Highest(S) # NoNonce
    BY <1>2, <2>2, <2>3 DEF NoNonce
  <2>5. PICK p \in Received(log) : /\ log[p].intent.submitter = i.submitter
                                   /\ log[p].intent.nonce = Highest(S)
    BY <2>3, <2>4 DEF NoncesIn
  <2>6. i.id \notin ReceivedIds(log)
    BY <1>3, <1>4, <1>8 DEF Matches
  <2>7. log[p].intent # i
    BY <2>5, <2>6 DEF ReceivedIds
  <2>8. \A q \in Received(log) :
          log[q].intent.submitter = i.submitter
            => log[q].intent.nonce =< Highest(S)
    BY <2>3 DEF NoncesIn
  <2>9. QED
    BY <2>2, <2>4, <2>5, <2>7, <2>8
<1>9. /\ answer'.to.intent = i
      /\ answer'.to.now = now
      /\ answer'.code = status(b)
      /\ answer'.body = b
      /\ Received(log') = Received(log)
  BY <1>1
<1>10. status(b) = 409 =>
         \E p \in Received(log) :
           \/ b.reason = "replay" /\ b.intent_id = i.id /\ log[p].intent = i
           \/ /\ b.reason = "stale_nonce"
              /\ log[p].intent # i
              /\ log[p].intent.submitter = i.submitter
              /\ log[p].intent.nonce = b.last
              /\ b.got = i.nonce
              /\ i.nonce =< b.last
              /\ \A q \in Received(log) :
                   log[q].intent.submitter = i.submitter
                     => log[q].intent.nonce =< b.last
  BY <1>4, <1>7, <1>8
<1>11. QED
  BY <1>1, <1>5, <1>6, <1>9, <1>10 DEF RefusalsAreTrue

\* A lookup that waits for the head has missed.
LookInv ==
  looking \in [Clients ->
    {None} \cup [pc : {"missed"}, id : Ids, told : BOOLEAN]]

\* Lookups stay lookups in every step.
LEMMA LookInvKeeps ==
  ASSUME LookInv, [ApiNext]_<<vars, apiVars>>
  PROVE  LookInv'
<1>1. ASSUME NEW c \in Clients, NEW i \in Intents, Look(c, i.id)
      PROVE  LookInv'
  <2>1. i.id \in Ids
    BY DEF Ids
  <2>2. PICK b \in BOOLEAN : b = (\E t \in told : t.intent_id = i.id)
    OBVIOUS
  <2> DEFINE missed == [pc |-> "missed", id |-> i.id, told |-> b]
  <2>3. looking' = looking \/ looking' = [looking EXCEPT ![c] = missed]
    BY <1>1, <2>2, Zenon DEF Look
  <2>4. missed \in [pc : {"missed"}, id : Ids, told : BOOLEAN]
    BY <2>1
  <2> HIDE DEF missed
  <2>5. QED
    BY <2>3, <2>4 DEF LookInv
<1>2. ASSUME NEW c \in Clients, Miss(c)
      PROVE  LookInv'
  BY <1>2 DEF Miss, LookInv
<1>3. CASE ApiCrash
  BY <1>3 DEF ApiCrash, LookInv
<1>4. CASE UNCHANGED looking
  BY <1>4 DEF LookInv
<1>5. ASSUME NEW c \in Clients,
             \/ \E i \in Intents : Submit(c, i)
             \/ Refuse(c) \/ FailToLog(c) \/ AdmitAt(c) \/ Accept(c) \/ AskBadly(c)
      PROVE  UNCHANGED looking
  BY <1>5 DEF Submit, Refuse, FailToLog, AdmitAt, Accept, AskBadly
<1>6. CASE Fold \/ Drop \/ Restarted \/ ApiTick \/ UNCHANGED <<vars, apiVars>>
  BY <1>4, <1>6 DEF Fold, Drop, Restarted, ApiTick, apiVars
<1>7. QED
  BY <1>1, <1>2, <1>3, <1>4, <1>5, <1>6 DEF ApiNext

\* A refusal is an answer to a submission that waits for the lock; no other
\* answer is one.
LEMMA RefusalsKeep ==
  ASSUME TypeOK, GateInv, RequestInv, LookInv, RefusalsAreTrue,
         [ApiNext]_<<vars, apiVars>>
  PROVE  RefusalsAreTrue'
<1>1. CASE UNCHANGED <<vars, apiVars>>
  BY <1>1 DEF RefusalsAreTrue, vars, apiVars, Received, Kind
<1>2. CASE answer' = None
  BY <1>2 DEF RefusalsAreTrue
<1>3. ASSUME NEW c \in Clients, Refuse(c)
      PROVE  RefusalsAreTrue'
  BY <1>3, RefusedTruly
<1>4. ASSUME answer'.to.pc # "arrived" \/ answer'.code \notin {400, 409}
      PROVE  RefusalsAreTrue'
  BY <1>4 DEF RefusalsAreTrue
<1>5. ASSUME NEW c \in Clients, FailToLog(c)
      PROVE  answer'.code \notin {400, 409}
  BY <1>5 DEF FailToLog, Answer, into_response
<1>6. ASSUME NEW c \in Clients, Accept(c)
      PROVE  answer'.code \notin {400, 409}
  BY <1>6 DEF Accept, Answer
<1>7. ASSUME NEW c \in Clients, AskBadly(c)
      PROVE  answer'.to.pc # "arrived"
  BY <1>7 DEF AskBadly, Asks
<1>8. ASSUME NEW c \in Clients, NEW i \in Intents, Look(c, i.id)
      PROVE  answer' = None \/ answer'.to.pc # "arrived"
  BY <1>8 DEF Look, Asks
<1>9. ASSUME NEW c \in Clients, Miss(c)
      PROVE  answer'.to.pc # "arrived"
  <2>1. looking[c].pc = "missed"
    BY <1>9 DEF Miss, LookInv
  <2>2. answer'.to = looking[c]
    BY <1>9 DEF Miss
  <2>3. QED
    BY <2>1, <2>2
<1>10. QED
  BY <1>1, <1>2, <1>3, <1>4, <1>5, <1>6, <1>7, <1>8, <1>9
     DEF ApiNext, Submit, AdmitAt, Fold, Drop, Restarted, ApiTick, ApiCrash

-----------------------------------------------------------------------------
(* What clients are told: the theorems.                                    *)

\* What the answers rest on.
AnswersInv ==
  /\ TypeOK
  /\ GateInv
  /\ RequestInv
  /\ ToldInv
  /\ LookInv
  /\ RefusalsAreTrue

\* It holds throughout.
LEMMA AnswersInvHolds == ApiSpec => []AnswersInv
<1>1. ApiInit => AnswersInv
  <2> SUFFICES ASSUME ApiInit PROVE AnswersInv
    OBVIOUS
  <2>1. Init /\ looking = [c \in Clients |-> None] /\ answer = None /\ told = {}
    BY DEF ApiInit
  <2>2. TypeOK /\ GateInv
    BY <2>1, TypeAtStart, GateInvAtStart
  <2>3. RequestInv
    BY <2>1 DEF Init, RequestInv, Idle
  <2>4. ToldInv
    BY <2>1 DEF ToldInv, AcknowledgedIsInTheLog
  <2>5. LookInv
    BY <2>1 DEF LookInv
  <2>6. RefusalsAreTrue
    BY <2>1 DEF RefusalsAreTrue
  <2>7. QED
    BY <2>2, <2>3, <2>4, <2>5, <2>6 DEF AnswersInv
<1>2. AnswersInv /\ [ApiNext]_<<vars, apiVars>> => AnswersInv'
  <2> SUFFICES ASSUME AnswersInv, [ApiNext]_<<vars, apiVars>> PROVE AnswersInv'
    OBVIOUS
  <2> USE DEF AnswersInv
  <2>1. GateSteps
    BY ApiStepsOfTheGate
  <2>2. TypeOK' /\ GateInv'
    BY <2>1, GateKeepsUnderApi
  <2>3. RequestInv'
    BY <2>1, RequestInvKeeps
  <2>4. ToldInv'
    BY ToldInvKeeps
  <2>5. LookInv'
    BY LookInvKeeps
  <2>6. RefusalsAreTrue'
    BY RefusalsKeep
  <2>7. QED
    BY <2>2, <2>3, <2>4, <2>5, <2>6
<1>3. QED
  BY <1>1, <1>2, PTL DEF ApiSpec

\* The gate's guarantees hold under all that the API does (admission.rs:155-174,
\* api.rs:68-78).
THEOREM GateKnowsUnderApi == ApiSpec => [](GateKnowsTheLog /\ NoncesAdvance)
<1>1. AnswersInv => GateKnowsTheLog /\ NoncesAdvance
  BY DEF AnswersInv, GateInv, GateKnowsTheLog, Matches
<1>2. QED
  BY <1>1, AnswersInvHolds, PTL

\* A 200's position is where the intent is, for good, with the arrival time its
\* receipt will quote (api.rs:20-26, 68-78; admission.rs:155-174).
THEOREM AcknowledgedForGood == ApiSpec => []AcknowledgedIsInTheLog
<1>1. AnswersInv => AcknowledgedIsInTheLog
  BY DEF AnswersInv, ToldInv
<1>2. QED
  BY <1>1, AnswersInvHolds, PTL

\* Every refusal gives the truth about the intent, the clock and the log
\* (admission.rs:51-94, 139-148), whatever raced with it or failed before it.
THEOREM RefusedForCause == ApiSpec => []RefusalsAreTrue
<1>1. AnswersInv => RefusalsAreTrue
  BY DEF AnswersInv
<1>2. QED
  BY <1>1, AnswersInvHolds, PTL

-----------------------------------------------------------------------------
(* What clients are told: lookups.  The model is what the entries below    *)
(* its cursor say (ReadModelProofs), under guards and through restarts.    *)

\* What folding a log makes of it.
RM == INSTANCE ReadModelProofs

\* The model the handlers read and the one those lemmas are about are the same.
LEMMA SameFold ==
  /\ R!Empty = RM!Empty
  /\ \A m, entries, end : R!Folded(m, entries, end) = RM!Folded(m, entries, end)
BY DEF R!Empty, RM!Empty, R!Folded, RM!Folded, R!apply, RM!apply,
       R!NewIntents, RM!NewIntents, R!NewSlots, RM!NewSlots,
       R!IntentRow, RM!IntentRow, R!SlotRow, RM!SlotRow,
       R!ChangedIntent, RM!ChangedIntent, R!Contains, RM!Contains,
       R!ChangedSlot, RM!ChangedSlot, R!Preconf, RM!Preconf, R!Proven, RM!Proven,
       R!ProvenRange, RM!ProvenRange, R!Fails, RM!Fails

LEMMA SameRows == R!NoneIsDistinct(Nat, Ids) => RM!NoneApart(Nat)
BY DEF R!NoneIsDistinct, RM!NoneApart, R!Preconfs, RM!Preconfs,
       R!ProvenRanges, RM!ProvenRanges

\* The model is what the entries below its cursor say, in a log of admissions and
\* misses.
ReadInv ==
  /\ Committed(log) = {}
  /\ RM!History(log, Nat)
  /\ model.cursor \in 0..Len(log)
  /\ RM!Reads(model, SubSeq(log, 1, model.cursor), Nat)

\* A miss of what a client was told of is a miss of a model that lags, for as
\* long as the guard is held.
GuardInv ==
  \A c \in Clients :
    looking[c] # None /\ looking[c].told => model.cursor < Len(log)

\* The two ways to say what a log received.
LEMMA SameSets ==
  ASSUME NEW r
  PROVE  /\ RM!Of(r, {"IntentReceived"}) = Received(r)
         /\ RM!IdsIn(r) = ReceivedIds(r)
         /\ RM!Commits(r) = Committed(r)
         /\ Committed(r) = {} => RM!PlacedIn(r) = {}
<1>1. \A kind : RM!Of(r, {kind}) = Kind(r, kind)
  BY DEF RM!Of, Kind
<1>2. /\ RM!Of(r, {"IntentReceived"}) = Received(r)
      /\ RM!Commits(r) = Committed(r)
  BY <1>1 DEF RM!Commits, Received, Committed
<1>3. RM!IdsIn(r) = ReceivedIds(r)
  BY <1>2 DEF RM!IdsIn, ReceivedIds
<1>4. Committed(r) = {} => RM!PlacedIn(r) = {}
  BY <1>2 DEF RM!PlacedIn
<1>5. QED
  BY <1>2, <1>3, <1>4

\* What the steps do to the log: an admission the gate let pass, or a miss.
LEMMA LogMoves ==
  ASSUME TypeOK, GateInv, [ApiNext]_<<vars, apiVars>>
  PROVE  \/ UNCHANGED log
         \/ /\ UNCHANGED <<model, looking>>
            /\ \E e \in Entries :
                 /\ log' = Append(log, e)
                 /\ \/ e.kind = "IntentReceived" /\ e.intent.id \notin ReceivedIds(log)
                    \/ e.kind = "IntentExpired" /\ e.id \in ReceivedIds(log)
<1>1. ASSUME NEW c \in Clients, AdmitAt(c)
      PROVE  /\ UNCHANGED <<model, looking>>
             /\ \E e \in Entries :
                  /\ log' = Append(log, e)
                  /\ e.kind = "IntentReceived" /\ e.intent.id \notin ReceivedIds(log)
  <2>1. /\ request[c].pc = "arrived" /\ lock = Nobody
        /\ Passes(request[c].intent, request[c].now)
        /\ log' = Append(log, IntentReceived(request[c].intent, request[c].now))
        /\ UNCHANGED <<model, looking>>
    BY <1>1 DEF AdmitAt, Admit
  <2>2. request[c].intent \in Intents /\ request[c].now \in Nat
    BY <2>1, RequestFields
  <2>3. PICK e \in Entries : e = IntentReceived(request[c].intent, request[c].now)
    BY <2>2, EntriesMade
  <2>4. e.kind = "IntentReceived" /\ e.intent = request[c].intent
    BY <2>3 DEF IntentReceived
  <2>5. gateUp
    BY <2>1 DEF GateInv, Idle, TypeOK
  <2>6. seen = ReceivedIds(log)
    BY <2>1, <2>5 DEF GateInv, Matches
  <2>7. request[c].intent.id \notin seen
    BY <2>1, PassingChecks
  <2>8. QED
    BY <2>1, <2>3, <2>4, <2>6, <2>7
<1>2. CASE Drop
  <2>1. PICK p \in Received(log) :
          log' = Append(log, IntentExpired(log[p].intent.id,
                               deadline_for(log[p].received_at), clock))
    BY <1>2 DEF Drop
  <2>2. log[p].intent \in Intents /\ log[p].received_at \in Nat
    BY EntryFields DEF TypeOK
  <2>3. deadline_for(log[p].received_at) \in Nat /\ log[p].intent.id \in Ids
        /\ clock \in Nat
    BY <2>2, SequencingAssumption DEF TypeOK, Ids, deadline_for
  <2>4. PICK e \in Entries :
          e = IntentExpired(log[p].intent.id,
                            deadline_for(log[p].received_at), clock)
    BY <2>3, EntriesMade
  <2>5. e.kind = "IntentExpired" /\ e.id = log[p].intent.id
    BY <2>4 DEF IntentExpired
  <2>6. e.id \in ReceivedIds(log) /\ log' = Append(log, e)
    BY <2>1, <2>4, <2>5 DEF ReceivedIds
  <2>7. UNCHANGED <<model, looking>>
    BY <1>2 DEF Drop
  <2>8. QED
    BY <2>5, <2>6, <2>7
<1>3. ASSUME NEW c \in Clients,
             \/ \E i \in Intents : Submit(c, i) \/ Look(c, i.id)
             \/ Refuse(c) \/ FailToLog(c) \/ Accept(c) \/ AskBadly(c) \/ Miss(c)
      PROVE  UNCHANGED log
  BY <1>3 DEF Submit, Arrive, Look, Refuse, Reject, FailToLog, AppendFails, Accept,
              Record, AskBadly, Miss, vars
<1>4. CASE Fold \/ Restarted \/ ApiTick \/ ApiCrash \/ UNCHANGED <<vars, apiVars>>
  BY <1>4 DEF Fold, Restarted, RecoverGate, ApiTick, Tick, ApiCrash, Crash, vars
<1>5. QED
  BY <1>1, <1>2, <1>3, <1>4 DEF ApiNext

\* And to the model: a batch folded in while nobody holds a guard, or a restart.
LEMMA ModelMoves ==
  ASSUME [ApiNext]_<<vars, apiVars>>
  PROVE  \/ UNCHANGED model
         \/ /\ \A c \in Clients : looking[c] = None
            /\ UNCHANGED <<log, looking>>
            /\ \E end \in (model.cursor + 1)..Len(log) :
                 model' = R!Folded(model, log, end)
         \/ /\ UNCHANGED log
            /\ model' = R!Empty
            /\ looking' = [c \in Clients |-> None]
<1>1. CASE Fold
  BY <1>1 DEF Fold, vars
<1>2. CASE ApiCrash
  BY <1>2 DEF ApiCrash, Crash
<1>3. CASE UNCHANGED model
  BY <1>3
<1>4. QED
  BY <1>1, <1>2, <1>3
     DEF ApiNext, Submit, Look, Refuse, FailToLog, AdmitAt, Accept, AskBadly, Miss,
         Drop, Restarted, ApiTick, apiVars

\* Every step keeps the model in step with the log.
LEMMA ReadInvKeeps ==
  ASSUME TypeOK, GateInv, ReadInv, [ApiNext]_<<vars, apiVars>>
  PROVE  ReadInv'
<1>1. /\ log \in Seq(Entries) /\ Len(log) \in Nat
      /\ model.cursor \in 0..Len(log) /\ RM!History(log, Nat)
      /\ RM!Reads(model, SubSeq(log, 1, model.cursor), Nat)
  BY DEF TypeOK, ReadInv
<1>2. RM!NoneApart(Nat)
  BY SameRows, NoneAssumption
<1>3. ASSUME UNCHANGED model, NEW e \in Entries, log' = Append(log, e),
             \/ e.kind = "IntentReceived" /\ e.intent.id \notin ReceivedIds(log)
             \/ e.kind = "IntentExpired" /\ e.id \in ReceivedIds(log)
      PROVE  ReadInv'
  <2>1. RM!Fits(log, e)
    BY <1>3, SameSets DEF RM!Fits, ReadInv
  <2>2. RM!Carries(e, Nat)
    <3>1. CASE e.kind = "IntentReceived"
      <4>1. e.intent \in Intents /\ e.received_at \in Nat
        BY <3>1 DEF Entries
      <4>2. e.intent.deadline_ms \in Nat
        BY <4>1, IntentsAssumption
      <4>3. QED
        BY <3>1, <4>1, <4>2 DEF RM!Carries
    <3>2. CASE e.kind = "IntentExpired"
      BY <3>2 DEF RM!Carries, Entries
    <3>3. QED
      BY <1>3, <3>1, <3>2
  <2>3. RM!History(log', Nat)
    BY <1>1, <1>3, <2>1, <2>2, RM!HistoryOn
  <2>4. SubSeq(log', 1, model.cursor) = SubSeq(log, 1, model.cursor)
    BY <1>1, <1>3, RM!PrefixStays
  <2>5. Len(log') = Len(log) + 1
    BY <1>1, <1>3
  <2>6. Committed(log') = {}
    BY <1>1, <1>3, AppendedLog DEF ReadInv
  <2>7. model'.cursor = model.cursor /\ model'.cursor \in 0..Len(log')
    BY <1>1, <1>3, <2>5
  <2>8. RM!Reads(model', SubSeq(log', 1, model'.cursor), Nat)
    BY <1>1, <1>3, <2>4
  <2>9. QED
    BY <2>3, <2>6, <2>7, <2>8 DEF ReadInv
<1>4. ASSUME UNCHANGED log, NEW end \in (model.cursor + 1)..Len(log),
             model' = R!Folded(model, log, end)
      PROVE  ReadInv'
  <2>1. end \in model.cursor..Len(log) /\ end \in 0..Len(log)
    BY <1>1
  <2>2. RM!Reads(RM!Folded(model, log, end), SubSeq(log, 1, end), Nat)
    BY <1>1, <1>2, <2>1, RM!FoldReads
  <2>3. RM!Reads(model', SubSeq(log, 1, end), Nat)
    BY <1>4, <2>2, SameFold
  <2>4. model'.cursor = end
    BY <1>1, <2>1, <2>3, RM!Prefix DEF RM!Reads
  <2>5. QED
    BY <1>4, <2>1, <2>3, <2>4 DEF ReadInv
<1>5. ASSUME UNCHANGED log, model' = R!Empty
      PROVE  ReadInv'
  <2>1. model'.cursor = 0 /\ SubSeq(log, 1, 0) = <<>>
    BY <1>1, <1>5 DEF R!Empty
  <2>2. RM!Reads(model', <<>>, Nat)
    BY <1>5, SameFold, RM!NothingRead
  <2>3. model'.cursor \in 0..Len(log') /\ SubSeq(log', 1, model'.cursor) = <<>>
    BY <1>1, <1>5, <2>1
  <2>4. QED
    BY <1>1, <1>5, <2>2, <2>3 DEF ReadInv
<1>6. CASE UNCHANGED <<log, model>>
  BY <1>6 DEF ReadInv
<1>7. QED
  BY <1>3, <1>4, <1>5, <1>6, LogMoves, ModelMoves

\* The row of an intent the model has, and what the handlers make of it.
LEMMA RowIsRead ==
  ASSUME TypeOK, ReadInv, NEW id \in DOMAIN model.intents
  PROVE  /\ R!status_of(model, id) # None
         /\ \E p \in Received(log) :
              /\ log[p].intent.id = id
              /\ model.intents[id].position = p - 1
              /\ model.intents[id].received_at_ms = log[p].received_at
<1> DEFINE r == SubSeq(log, 1, model.cursor)
           row == model.intents[id]
<1>1. /\ log \in Seq(Entries) /\ Len(log) \in Nat
      /\ model.cursor \in Nat /\ model.cursor =< Len(log)
  BY DEF TypeOK, ReadInv
<1>2. /\ Len(r) = model.cursor /\ DOMAIN r = 1..model.cursor
      /\ \A p \in 1..model.cursor : r[p] = log[p]
  BY <1>1
<1>3. Received(r) \subseteq Received(log) /\ Committed(r) = {}
      /\ \A p \in Received(r) : r[p] = log[p]
  <2>1. \A p \in DOMAIN r : p \in DOMAIN log /\ r[p] = log[p]
    BY <1>1, <1>2
  <2>2. Committed(log) = {}
    BY DEF ReadInv
  <2> HIDE DEF r
  <2>3. QED
    BY <2>1, <2>2 DEF Received, Committed, Kind
<1>4. RM!Reads(model, r, Nat)
  BY DEF ReadInv
<1> HIDE DEF r
<1>5. id \in RM!IdsIn(r) /\ row \in RM!IntentRows(Nat) /\ RM!IntentRead(row, id, r)
  BY <1>4 DEF RM!Reads
<1>6. PICK p \in Received(r) : /\ r[p].intent.id = id
                               /\ row.position = p - 1
                               /\ row.received_at_ms = r[p].received_at
  BY <1>5, SameSets DEF RM!IntentRead, RM!AdmissionRead
<1>7. row.slot = None
  BY <1>3, <1>5, SameSets DEF RM!IntentRead, RM!PlaceRead
<1>8. /\ R!lifecycle(model, row) \in R!Statuses
      /\ R!lifecycle(model, row) # "failed"
  BY <1>7 DEF R!lifecycle, R!Statuses
<1>9. id \in Ids
  BY <1>1, <1>3, <1>6, EntryFields DEF Ids
<1>10. R!StatusResponse(model, id, row)
         \in [intent_id : Ids, lifecycle : R!Statuses, reason : Nat \cup {None},
              slot : Nat \cup {None}]
  BY <1>7, <1>8, <1>9 DEF R!StatusResponse, R!ReasonOf
<1>11. R!lifecycle(model, row) # None /\ R!StatusResponse(model, id, row) # None
  BY <1>8, <1>10, NoneAssumption DEF R!NoneIsDistinct
<1>12. R!status_of(model, id) # None
  BY <1>11 DEF R!status_of
<1>13. QED
  BY <1>3, <1>6, <1>12

\* An intent that was told of and that the model has not is past the cursor.
LEMMA MissedIsAhead ==
  ASSUME TypeOK, ToldInv, ReadInv, NEW t \in told,
         R!status_of(model, t.intent_id) = None
  PROVE  model.cursor < Len(log)
<1>1. /\ log \in Seq(Entries) /\ Len(log) \in Nat
      /\ model.cursor \in Nat /\ model.cursor =< Len(log)
  BY DEF TypeOK, ReadInv
<1>2. t.intent_id \in ReceivedIds(log)
  BY DEF ToldInv, AcknowledgedIsInTheLog, ReceivedIds
<1>3. t.intent_id \notin DOMAIN model.intents
  BY RowIsRead
<1>4. ASSUME model.cursor = Len(log)
      PROVE  FALSE
  <2>1. SubSeq(log, 1, model.cursor) = log
    BY <1>1, <1>4
  <2>2. RM!Reads(model, log, Nat)
    BY <2>1 DEF ReadInv
  <2>3. DOMAIN model.intents = RM!IdsIn(log)
    BY <2>2 DEF RM!Reads
  <2>4. QED
    BY <1>2, <1>3, <2>3, SameSets
<1>5. QED
  BY <1>1, <1>4

\* A guard held over a miss keeps the model where it is, and the head only grows.
LEMMA GuardInvKeeps ==
  ASSUME TypeOK, GateInv, ToldInv, LookInv, ReadInv, GuardInv,
         [ApiNext]_<<vars, apiVars>>
  PROVE  GuardInv'
<1>1. Len(log) \in Nat /\ Len(log') \in Nat /\ Len(log) =< Len(log')
      /\ model.cursor \in Nat
  <2>1. log \in Seq(Entries) /\ model.cursor \in 0..Len(log)
    BY DEF TypeOK, ReadInv
  <2>2. log' = log \/ \E e \in Entries : log' = Append(log, e)
    BY LogMoves
  <2>3. QED
    BY <2>1, <2>2
<1>2. SUFFICES ASSUME NEW c \in Clients, looking'[c] # None, looking'[c].told
               PROVE  model'.cursor < Len(log')
  BY DEF GuardInv
<1>3. CASE UNCHANGED model /\ looking'[c] = looking[c]
  BY <1>1, <1>2, <1>3 DEF GuardInv
<1>4. ASSUME NEW d \in Clients, NEW i \in Intents, Look(d, i.id)
      PROVE  model'.cursor < Len(log')
  <2>1. UNCHANGED <<vars, model, told>>
    BY <1>4 DEF Look
  <2>2. UNCHANGED log
    BY <2>1 DEF vars
  <2>3. CASE looking'[c] = looking[c]
    BY <1>3, <2>1, <2>3
  <2>4. CASE looking'[c] # looking[c]
    <3> DEFINE missed == [pc |-> "missed", id |-> i.id,
                          told |-> \E t \in told : t.intent_id = i.id]
    <3>1. /\ R!status_of(model, i.id) = None
          /\ looking' = [looking EXCEPT ![d] = missed]
      BY <1>4, <2>4, Zenon DEF Look
    <3>2. looking'[c] = missed
      <4> HIDE DEF missed
      <4>1. QED
        BY <2>4, <3>1 DEF LookInv
    <3>3. missed.told = (\E t \in told : t.intent_id = i.id)
      BY Zenon
    <3>4. \E t \in told : t.intent_id = i.id
      <4> HIDE DEF missed
      <4>1. QED
        BY <1>2, <3>2, <3>3
    <3>5. model.cursor < Len(log)
      BY <3>1, <3>4, MissedIsAhead
    <3>6. QED
      BY <2>1, <2>2, <3>5
  <2>5. QED
    BY <2>3, <2>4
<1>5. ASSUME NEW d \in Clients, Miss(d)
      PROVE  model'.cursor < Len(log')
  <2>1. looking' = [looking EXCEPT ![d] = None] /\ UNCHANGED model
    BY <1>5 DEF Miss
  <2>2. looking'[c] = looking[c]
    BY <1>2, <2>1 DEF LookInv
  <2>3. QED
    BY <1>3, <2>1, <2>2
<1>6. CASE Fold \/ ApiCrash
  BY <1>2, <1>6 DEF Fold, ApiCrash
<1>7. ASSUME NEW d \in Clients,
             \/ \E i \in Intents : Submit(d, i)
             \/ Refuse(d) \/ FailToLog(d) \/ AdmitAt(d) \/ Accept(d) \/ AskBadly(d)
      PROVE  UNCHANGED model /\ looking'[c] = looking[c]
  BY <1>7 DEF Submit, Refuse, FailToLog, AdmitAt, Accept, AskBadly
<1>8. CASE Drop \/ Restarted \/ ApiTick \/ UNCHANGED <<vars, apiVars>>
  BY <1>3, <1>8 DEF Drop, Restarted, ApiTick, apiVars
<1>9. QED
  BY <1>3, <1>4, <1>5, <1>6, <1>7, <1>8 DEF ApiNext

\* What a lookup answers agrees with what was told.
LEMMA LookAnswers ==
  ASSUME TypeOK, GateInv, ToldInv, ReadInv, NEW c \in Clients, NEW i \in Intents,
         Look(c, i.id)
  PROVE  AnswersHold'
<1>1. CASE answer' = None
  BY <1>1 DEF AnswersHold
<1>2. CASE answer' # None
  <2> DEFINE id == i.id
             row == model.intents[id]
             body == R!receipt_of(model, id, clock)
  <2>1. /\ R!status_of(model, id) # None
        /\ answer' = [to |-> Asks(c, id), code |-> 200, body |-> body]
        /\ told' = told
    BY <1>2 DEF Look
  <2>2. id \in DOMAIN model.intents
    BY <2>1 DEF R!status_of
  <2>3. PICK p \in Received(log) : /\ log[p].intent.id = id
                                   /\ row.position = p - 1
                                   /\ row.received_at_ms = log[p].received_at
    BY <2>2, RowIsRead
  <2>4. /\ body.log_position = row.position
        /\ body.guarantee.received_at_ms = row.received_at_ms
        /\ body.guarantee.deadline_ms = deadline_for(row.received_at_ms)
    BY DEF R!receipt_of, R!Receipt, R!InclusionGuarantee, R!deadline_for, deadline_for
  <2>5. ASSUME NEW t \in told, t.intent_id = id
        PROVE  /\ body.log_position = t.log_position
               /\ body.guarantee.received_at_ms = t.received_at
               /\ body.guarantee.deadline_ms = deadline_for(t.received_at)
    <3>1. /\ t.log_position + 1 \in Received(log) /\ t.log_position \in Nat
          /\ log[t.log_position + 1].intent.id = id
          /\ log[t.log_position + 1].received_at = t.received_at
      BY <2>5 DEF ToldInv, AcknowledgedIsInTheLog, Acknowledgements
    <3>2. p = t.log_position + 1
      <4>1. log[p].intent = log[t.log_position + 1].intent
        BY <2>3, <3>1, EntryFields, IntentsAssumption DEF TypeOK
      <4>2. p \in Nat
        BY EntryFields DEF TypeOK
      <4>3. ~ (p < t.log_position + 1) /\ ~ (t.log_position + 1 < p)
        BY <2>3, <3>1, <4>1 DEF GateInv, NoncesAdvance
      <4>4. QED
        BY <3>1, <4>2, <4>3
    <3>3. p - 1 = t.log_position
      BY <3>1, <3>2
    <3> HIDE DEF body, row
    <3>4. QED
      BY <2>3, <2>4, <3>1, <3>2, <3>3
  <2> HIDE DEF body
  <2>6. /\ answer'.code = 200 /\ answer'.to.id = id /\ answer'.body = body
    BY <2>1 DEF Asks
  <2>7. QED
    BY <2>1, <2>5, <2>6 DEF AnswersHold, deadline_for
<1>3. QED
  BY <1>1, <1>2

\* So does every answer.
LEMMA AnswersKeep ==
  ASSUME TypeOK, GateInv, ToldInv, LookInv, ReadInv, GuardInv, AnswersHold,
         [ApiNext]_<<vars, apiVars>>
  PROVE  AnswersHold'
<1>1. ASSUME NEW c \in Clients, NEW i \in Intents, Look(c, i.id)
      PROVE  AnswersHold'
  BY <1>1, LookAnswers
<1>2. ASSUME NEW c \in Clients, Miss(c)
      PROVE  AnswersHold'
  <2>1. /\ looking[c] # None /\ looking[c].pc = "missed"
        /\ answer'.to = looking[c]
        /\ answer'.code = into_response(IF R!Lagging(model, Len(log)) THEN "NotReady"
                                        ELSE "NotFound")
    BY <1>2 DEF Miss, LookInv
  <2>2. looking[c].told => R!Lagging(model, Len(log))
    BY <2>1 DEF GuardInv, R!Lagging
  <2>3. answer'.code = 404 => ~ answer'.to.told
    BY <2>1, <2>2 DEF into_response
  <2>4. answer'.to.pc # "asked"
    BY <2>1
  <2>5. QED
    BY <2>3, <2>4 DEF AnswersHold
<1>3. CASE answer' = None
  BY <1>3 DEF AnswersHold
<1>4. ASSUME answer'.code \notin {404, 200}
      PROVE  AnswersHold'
  BY <1>4 DEF AnswersHold
<1>5. ASSUME NEW c \in Clients, Refuse(c)
      PROVE  AnswersHold'
  BY <1>4, <1>5 DEF Refuse, Answer, status
<1>6. ASSUME NEW c \in Clients, FailToLog(c) \/ AskBadly(c)
      PROVE  AnswersHold'
  BY <1>4, <1>6 DEF FailToLog, AskBadly, Answer, into_response
<1>7. ASSUME NEW c \in Clients, Accept(c)
      PROVE  AnswersHold'
  <2>1. answer'.code = 200 /\ answer'.to = request[c] /\ request[c].pc = "appended"
    BY <1>7 DEF Accept, Answer, Record
  <2>2. QED
    BY <2>1 DEF AnswersHold
<1>8. CASE UNCHANGED <<vars, apiVars>>
  BY <1>8 DEF AnswersHold, apiVars, deadline_for
<1>9. QED
  BY <1>1, <1>2, <1>3, <1>5, <1>6, <1>7, <1>8
     DEF ApiNext, Submit, AdmitAt, Fold, Drop, Restarted, ApiTick, ApiCrash

\* What the lookups rest on.
LookupsInv == ReadInv /\ GuardInv /\ AnswersHold

LEMMA LookupsInvHolds == ApiSpec => []LookupsInv
<1>1. ApiInit => LookupsInv
  <2> SUFFICES ASSUME ApiInit PROVE LookupsInv
    OBVIOUS
  <2>1. Init /\ model = R!Empty /\ answer = None /\ looking = [c \in Clients |-> None]
    BY DEF ApiInit
  <2>2. log = <<>>
    BY <2>1 DEF Init
  <2>3. model.cursor = 0 /\ model.cursor \in 0..Len(log) /\ Len(log) = 0
    BY <2>1, <2>2 DEF R!Empty
  <2>4. RM!Reads(model, SubSeq(log, 1, model.cursor), Nat)
    <3>1. SubSeq(log, 1, model.cursor) = <<>>
      BY <2>2, <2>3
    <3>2. RM!Reads(model, <<>>, Nat)
      BY <2>1, SameFold, RM!NothingRead
    <3>3. QED
      BY <3>1, <3>2
  <2>5. RM!History(log, Nat)
    BY <2>3 DEF RM!History
  <2>6. Committed(log) = {}
    BY <2>2 DEF Committed, Kind
  <2>7. ReadInv
    BY <2>3, <2>4, <2>5, <2>6 DEF ReadInv
  <2>8. GuardInv /\ AnswersHold
    BY <2>1 DEF GuardInv, AnswersHold
  <2>9. QED
    BY <2>7, <2>8 DEF LookupsInv
<1>2. AnswersInv /\ LookupsInv /\ [ApiNext]_<<vars, apiVars>> => LookupsInv'
  BY ReadInvKeeps, GuardInvKeeps, AnswersKeep DEF AnswersInv, LookupsInv
<1>3. QED
  BY <1>1, <1>2, AnswersInvHolds, PTL DEF ApiSpec

\* Once a client has its 200, no lookup that starts later answers "unknown
\* intent", and every receipt repeats the position and the arrival time of the
\* response, over any lag of the projector, drops and restarts with an empty
\* model (api.rs:97-107, README.md:120-138).
THEOREM LookupsAgree == ApiSpec => []AnswersHold
BY LookupsInvHolds, PTL DEF LookupsInv

-----------------------------------------------------------------------------
(* The inclusion promise.                                                  *)

InHand == buffer \cup live \cup misses

\* What the sequencer holds, by what it is doing: admissions past the last
\* slot's cursor and up to its own, told apart by the clock when it closes.
HandInv ==
  /\ ConsumedBy(log) =< Len(log)
  /\ seq = "down" => InHand = {}
  /\ seq = "idle" => live = {} /\ misses = {}
  /\ seq = "closing" =>
       /\ buffer = {}
       /\ closedAt =< clock
       /\ \A p \in live : ~ RanOut(p, closedAt)
       /\ \A p \in misses : RanOut(p, closedAt)
  /\ seq # "down" =>
       /\ ConsumedBy(log) =< cursor
       /\ \A p \in InHand : ConsumedBy(log) < p /\ p =< cursor

\* The k-th id of the slot at c is that of the admission at p, in time.
Includes(c, k, p) ==
  /\ log[c].intents[k] = log[p].intent.id
  /\ p =< ConsumedBy(log)
  /\ log[c].committed_at_ms =< deadline_for(log[p].received_at)

\* The drop at e is that of the admission at p, and was due.
Drops(e, p) ==
  /\ log[e].id = log[p].intent.id
  /\ log[e].guarantee_deadline_ms = deadline_for(log[p].received_at)
  /\ log[e].at_ms > deadline_for(log[p].received_at)
  /\ log[e].at_ms =< clock
  /\ seq = "closing" => log[e].at_ms =< closedAt

\* Every entry of the log has its justification.
KeptInv ==
  /\ \A p \in Received(log) :
       log[p].intent.deadline_ms >= deadline_for(log[p].received_at)
  /\ \A c \in Committed(log) : \A k \in DOMAIN log[c].intents :
       \E p \in Received(log) : Includes(c, k, p)
  /\ \A e \in Expired(log) : \E p \in Received(log) : Drops(e, p)

\* NoDuplicateInclusion, NeverDroppedAndCommitted and NothingForgotten in terms
\* of entries.
Once ==
  \A c, d \in Committed(log) :
    \A j \in DOMAIN log[c].intents, k \in DOMAIN log[d].intents :
      log[c].intents[j] = log[d].intents[k] => c = d /\ j = k

Apart ==
  \A e \in Expired(log), c \in Committed(log) :
    \A k \in DOMAIN log[c].intents : log[e].id # log[c].intents[k]

Dropped(p) == \E e \in Expired(log) : log[e].id = log[p].intent.id

InSlot(p) ==
  \E c \in Committed(log) : \E k \in DOMAIN log[c].intents :
    log[c].intents[k] = log[p].intent.id

Remembered ==
  /\ \A p \in Received(log) :
       p =< ConsumedBy(log) => Dropped(p) \/ InSlot(p)
  /\ seq # "down" =>
       \A p \in Received(log) :
         ConsumedBy(log) < p /\ p =< cursor => p \in InHand \/ Dropped(p)

PromiseInv == HandInv /\ KeptInv /\ Once /\ Apart /\ Remembered

\* An id is received once.
LEMMA OneArrival ==
  ASSUME TypeOK, NoncesAdvance, NEW p \in Received(log), NEW q \in Received(log),
         log[p].intent.id = log[q].intent.id
  PROVE  p = q
<1>1. /\ p \in Int /\ q \in Int
      /\ log[p].intent \in Intents /\ log[q].intent \in Intents
  BY EntryFields DEF TypeOK
<1>2. log[p].intent = log[q].intent
  BY <1>1, IntentsAssumption
<1>3. ~ (p < q) /\ ~ (q < p)
  BY <1>2 DEF NoncesAdvance
<1>4. QED
  BY <1>1, <1>3

\* What the log said it still says after an append.
LEMMA LogGrows ==
  ASSUME TypeOK, NEW e \in Entries, log' = Append(log, e)
  PROVE  /\ Len(log') = Len(log) + 1
         /\ Len(log) \in Nat
         /\ log'[Len(log) + 1] = e
         /\ Received(log') = Received(log)
              \cup (IF e.kind = "IntentReceived" THEN {Len(log) + 1} ELSE {})
         /\ Expired(log') = Expired(log)
              \cup (IF e.kind = "IntentExpired" THEN {Len(log) + 1} ELSE {})
         /\ Committed(log') = Committed(log)
              \cup (IF e.kind = "SlotCommitted" THEN {Len(log) + 1} ELSE {})
         /\ \A p \in Received(log) : log'[p] = log[p] /\ p \in 1..Len(log)
         /\ \A p \in Expired(log) : log'[p] = log[p] /\ p \in 1..Len(log)
         /\ \A p \in Committed(log) : log'[p] = log[p] /\ p \in 1..Len(log)
<1>1. log \in Seq(Entries) /\ Len(log) \in Nat
  BY DEF TypeOK
<1>2. /\ Received(log) \subseteq 1..Len(log)
      /\ Expired(log) \subseteq 1..Len(log)
      /\ Committed(log) \subseteq 1..Len(log)
  BY <1>1, EntryFields
<1>3. QED
  BY <1>1, <1>2, AppendedLog

\* A drop or an inclusion in the log stays.
LEMMA SettledStays ==
  ASSUME TypeOK, NEW e \in Entries, log' = Append(log, e),
         NEW p \in Received(log)
  PROVE  (Dropped(p) => Dropped(p)') /\ (InSlot(p) => InSlot(p)')
<1>1. /\ \A q \in Expired(log) : q \in Expired(log') /\ log'[q] = log[q]
      /\ \A q \in Committed(log) : q \in Committed(log') /\ log'[q] = log[q]
      /\ log'[p] = log[p]
  BY LogGrows
<1>2. QED
  BY <1>1 DEF Dropped, InSlot

\* A step that leaves the log and the sequencer alone, and the clock no earlier.
LEMMA PromiseFrame ==
  ASSUME TypeOK, PromiseInv, UNCHANGED <<log, seqVars>>,
         clock' \in Nat, clock =< clock'
  PROVE  PromiseInv'
<1>1. UNCHANGED <<log, seq, buffer, cursor, closedAt, live, misses>>
  BY DEF seqVars
<1>2. clock \in Nat /\ closedAt \in Nat
  BY DEF TypeOK
<1>3. HandInv'
  BY <1>1, <1>2 DEF PromiseInv, HandInv, InHand, RanOut
<1>4. KeptInv'
  <2>1. \A e \in Expired(log) : log[e].at_ms \in Nat
    BY EntryFields DEF TypeOK
  <2>2. ASSUME NEW e \in Expired(log), NEW p \in Received(log), Drops(e, p)
        PROVE  Drops(e, p)'
    BY <1>1, <1>2, <2>1, <2>2 DEF Drops
  <2>3. \A e \in Expired(log) : \E p \in Received(log) : Drops(e, p)'
    BY <2>2 DEF PromiseInv, KeptInv
  <2>4. QED
    BY <1>1, <2>3 DEF PromiseInv, KeptInv, Includes
<1>5. Once' /\ Apart' /\ Remembered'
  BY <1>1 DEF PromiseInv, Once, Apart, Remembered, Dropped, InSlot, InHand
<1>6. QED
  BY <1>3, <1>4, <1>5 DEF PromiseInv

\* An admission: the check left room for the window.
LEMMA PromiseAfterAdmit ==
  ASSUME TypeOK, PromiseInv, NEW c \in Clients, Admit(c)
  PROVE  PromiseInv'
<1> DEFINE i == request[c].intent
           e == IntentReceived(i, request[c].now)
           n == Len(log) + 1
<1>1. i \in Intents /\ request[c].now \in Nat
  BY RequestFields DEF Admit
<1>2. e \in Entries /\ log' = Append(log, e) /\ e.kind = "IntentReceived"
      /\ e.intent = i /\ e.received_at = request[c].now
  BY <1>1, EntriesMade DEF Admit, IntentReceived
<1>3. UNCHANGED <<clock, seq, buffer, cursor, closedAt, live, misses>>
  BY DEF Admit, seqVars
<1>4. /\ log'[n] = e
      /\ Len(log') = n /\ Len(log) \in Nat
      /\ Received(log') = Received(log) \cup {n}
      /\ Expired(log') = Expired(log) /\ Committed(log') = Committed(log)
      /\ \A p \in Received(log) : log'[p] = log[p] /\ p \in 1..Len(log)
      /\ \A p \in Expired(log) : log'[p] = log[p]
      /\ \A p \in Committed(log) : log'[p] = log[p]
  BY <1>2, LogGrows
<1>5. ConsumedBy(log') = ConsumedBy(log) /\ ConsumedBy(log) \in Nat
  BY <1>2, RecoveryAfterAppend, RecoveryTypes DEF TypeOK
<1>6. HandInv'
  <2>1. InHand \subseteq Received(log)
    BY DEF TypeOK, InHand
  <2>2. \A p \in InHand : RanOut(p, closedAt) <=> RanOut(p, closedAt)'
    BY <1>3, <1>4, <2>1 DEF RanOut
  <2>3. InHand' = InHand /\ live \subseteq InHand /\ misses \subseteq InHand
    BY <1>3 DEF InHand
  <2>4. QED
    BY <1>3, <1>4, <1>5, <2>2, <2>3 DEF PromiseInv, HandInv
<1>7. KeptInv'
  <2>1. \A p \in Received(log') :
          log'[p].intent.deadline_ms >= deadline_for(log'[p].received_at)
    <3>1. i.deadline_ms >= deadline_for(request[c].now)
      BY PassingChecks DEF Admit
    <3>2. QED
      BY <1>2, <1>4, <3>1 DEF PromiseInv, KeptInv
  <2>2. \A d \in Committed(log), p \in Received(log) :
          \A k : Includes(d, k, p) => Includes(d, k, p)'
    BY <1>4, <1>5 DEF Includes
  <2>3. \A d \in Expired(log), p \in Received(log) : Drops(d, p) => Drops(d, p)'
    BY <1>3, <1>4 DEF Drops
  <2>4. QED
    BY <1>4, <2>1, <2>2, <2>3 DEF PromiseInv, KeptInv
<1>8. Once' /\ Apart'
  BY <1>4 DEF PromiseInv, Once, Apart
<1>9. Remembered'
  <2>1. /\ ConsumedBy(log) =< Len(log)
        /\ cursor =< Len(log) /\ cursor \in Nat
    BY <1>4 DEF PromiseInv, HandInv, TypeOK
  <2>2. ~ (n =< ConsumedBy(log)) /\ ~ (n =< cursor)
    BY <1>4, <1>5, <2>1
  <2>3. \A p \in Received(log) :
          (Dropped(p) => Dropped(p)') /\ (InSlot(p) => InSlot(p)')
    BY <1>2, SettledStays
  <2>4. InHand' = InHand
    BY <1>3 DEF InHand
  <2>5. QED
    BY <1>3, <1>4, <1>5, <2>2, <2>3, <2>4 DEF PromiseInv, Remembered
<1>10. QED
  BY <1>6, <1>7, <1>8, <1>9 DEF PromiseInv

\* The sequencer's steps that append nothing: recovery starts empty-handed at
\* the last slot's cursor, a drain adds what is past its own, and closing a
\* slot sorts what it holds by the clock.
LEMMA PromiseAfterReading ==
  ASSUME TypeOK, PromiseInv, RecoverSequencer \/ Drain \/ CloseSlot
  PROVE  PromiseInv'
<1>1. log' = log /\ clock' = clock
  BY DEF RecoverSequencer, Drain, CloseSlot
<1>2. /\ ConsumedBy(log) \in Nat /\ cursor \in 0..Len(log)
      /\ Len(log) \in Nat /\ clock \in Nat
      /\ Received(log) \subseteq 1..Len(log)
      /\ InHand \subseteq Received(log)
      /\ \A p \in Received(log) : deadline_for(log[p].received_at) \in Nat
  BY RecoveryTypes, EntryFields, SequencingAssumption
     DEF TypeOK, InHand, deadline_for
<1>3. Once' /\ Apart'
  BY <1>1 DEF PromiseInv, Once, Apart
<1>4. HandInv'
  <2>1. CASE RecoverSequencer
    <3>1. InHand = {}
      BY <2>1 DEF RecoverSequencer, PromiseInv, HandInv
    <3>2. QED
      BY <1>1, <1>2, <2>1, <3>1
         DEF RecoverSequencer, PromiseInv, HandInv, InHand
  <2>2. CASE Drain
    BY <1>1, <1>2, <2>2 DEF Drain, PromiseInv, HandInv, InHand
  <2>3. CASE CloseSlot
    BY <1>1, <1>2, <2>3 DEF CloseSlot, PromiseInv, HandInv, InHand, RanOut
  <2>4. QED
    BY <2>1, <2>2, <2>3
<1>5. KeptInv'
  <2>1. \A e \in Expired(log), p \in Received(log) : Drops(e, p) => Drops(e, p)'
    <3>1. seq' = "closing" => closedAt' = clock
      BY DEF RecoverSequencer, Drain, CloseSlot
    <3>2. QED
      BY <1>1, <3>1 DEF Drops
  <2>2. QED
    BY <1>1, <2>1 DEF PromiseInv, KeptInv, Includes
<1>6. Remembered'
  <2>1. \A p : (Dropped(p)' <=> Dropped(p)) /\ (InSlot(p)' <=> InSlot(p))
    BY <1>1 DEF Dropped, InSlot
  <2>2. CASE RecoverSequencer
    BY <1>1, <1>2, <2>1, <2>2 DEF RecoverSequencer, PromiseInv, Remembered
  <2>3. CASE Drain
    BY <1>1, <1>2, <2>1, <2>3 DEF Drain, PromiseInv, Remembered, InHand
  <2>4. CASE CloseSlot
    <3>1. live = {} /\ misses = {}
      BY <2>4 DEF CloseSlot, PromiseInv, HandInv
    <3>2. InHand \subseteq InHand'
      BY <2>4, <3>1 DEF CloseSlot, InHand
    <3>3. QED
      BY <1>1, <2>1, <2>4, <3>2 DEF CloseSlot, PromiseInv, Remembered
  <2>5. QED
    BY <2>2, <2>3, <2>4
<1>7. QED
  BY <1>3, <1>4, <1>5, <1>6 DEF PromiseInv

\* A miss: what is dropped lies past the last slot's cursor, so it is in no slot.
LEMMA PromiseAfterMiss ==
  ASSUME TypeOK, NoncesAdvance, PromiseInv, RecordMiss
  PROVE  PromiseInv'
<1>1. PICK p \in misses, e \in Entries :
        /\ e = IntentExpired(log[p].intent.id,
                             deadline_for(log[p].received_at), closedAt)
        /\ e.kind = "IntentExpired"
        /\ log' = Append(log, e)
        /\ misses' = misses \ {p}
  BY MissAppended
<1>n. PICK n : n = Len(log) + 1
  OBVIOUS
<1>2. /\ seq = "closing"
      /\ UNCHANGED <<clock, seq, buffer, cursor, closedAt, live>>
  BY DEF RecordMiss
<1>3. /\ log'[n] = e
      /\ Len(log') = n /\ Len(log) \in Nat
      /\ Received(log') = Received(log) /\ Committed(log') = Committed(log)
      /\ Expired(log') = Expired(log) \cup {n}
      /\ \A q \in Received(log) : log'[q] = log[q] /\ q \in 1..Len(log)
      /\ \A q \in Expired(log) : log'[q] = log[q]
      /\ \A q \in Committed(log) : log'[q] = log[q]
  BY <1>1, <1>n, LogGrows
<1>4. ConsumedBy(log') = ConsumedBy(log) /\ ConsumedBy(log) \in Nat
  BY <1>1, RecoveryAfterAppend, RecoveryTypes DEF TypeOK
<1>5. /\ e.id = log[p].intent.id
      /\ e.guarantee_deadline_ms = deadline_for(log[p].received_at)
      /\ e.at_ms = closedAt
  BY <1>1 DEF IntentExpired
<1>6. /\ p \in Received(log)
      /\ ConsumedBy(log) < p
      /\ RanOut(p, closedAt)
      /\ closedAt =< clock
  BY <1>2 DEF TypeOK, PromiseInv, HandInv, InHand
<1>7. InHand' \subseteq InHand /\ InHand \subseteq InHand' \cup {p}
      /\ InHand \subseteq Received(log)
  BY <1>1, <1>2 DEF InHand, TypeOK
<1>8. HandInv'
  <2>1. \A q \in Received(log) : RanOut(q, closedAt) <=> RanOut(q, closedAt)'
    BY <1>2, <1>3 DEF RanOut
  <2>2. live \subseteq Received(log) /\ misses \subseteq Received(log)
    BY DEF TypeOK
  <2>3. ConsumedBy(log) =< Len(log')
    BY <1>3, <1>4, <1>n DEF PromiseInv, HandInv
  <2>4. /\ buffer' = {} /\ closedAt' =< clock'
        /\ \A q \in live' : ~ RanOut(q, closedAt)'
        /\ \A q \in misses' : RanOut(q, closedAt)'
    BY <1>1, <1>2, <2>1, <2>2 DEF PromiseInv, HandInv
  <2>5. /\ ConsumedBy(log') =< cursor'
        /\ \A q \in InHand' : ConsumedBy(log') < q /\ q =< cursor'
    BY <1>2, <1>4, <1>7 DEF PromiseInv, HandInv
  <2>6. seq' = "closing" /\ ConsumedBy(log') = ConsumedBy(log)
    BY <1>2, <1>4
  <2>7. QED
    BY <2>3, <2>4, <2>5, <2>6 DEF HandInv
<1>9. KeptInv'
  <2>1. \A d \in Committed(log), q \in Received(log) :
          \A k : Includes(d, k, q) => Includes(d, k, q)'
    BY <1>3, <1>4 DEF Includes
  <2>2. \A d \in Expired(log), q \in Received(log) : Drops(d, q) => Drops(d, q)'
    BY <1>2, <1>3 DEF Drops
  <2>3. Drops(n, p)'
    <3>1. deadline_for(log[p].received_at) \in Int /\ closedAt \in Int
          /\ clock \in Int
      BY <1>6, EntryFields, SequencingAssumption DEF TypeOK, deadline_for
    <3>2. closedAt > deadline_for(log[p].received_at)
      BY <1>6, <3>1 DEF RanOut
    <3>3. log'[n] = e /\ log'[p] = log[p]
      BY <1>3, <1>6
    <3>4. QED
      BY <1>2, <1>5, <1>6, <3>1, <3>2, <3>3 DEF Drops
  <2>4. QED
    BY <1>3, <1>6, <2>1, <2>2, <2>3 DEF PromiseInv, KeptInv
<1>10. Once'
  BY <1>3 DEF PromiseInv, Once
<1>11. Apart'
  <2>1. ASSUME NEW c \in Committed(log), NEW k \in DOMAIN log[c].intents,
               log[c].intents[k] = log[p].intent.id
        PROVE  FALSE
    <3>1. PICK q \in Received(log) : Includes(c, k, q)
      BY <2>1 DEF PromiseInv, KeptInv
    <3>2. q = p
      BY <1>6, <2>1, <3>1, OneArrival DEF Includes
    <3>3. p =< ConsumedBy(log) /\ p \in Int
      BY <1>3, <1>6, <3>1, <3>2 DEF Includes
    <3>4. QED
      BY <1>4, <1>6, <3>3
  <2>2. QED
    BY <1>3, <1>5, <2>1 DEF PromiseInv, Apart
<1>12. Remembered'
  <2>1. \A q \in Received(log) :
          (Dropped(q) => Dropped(q)') /\ (InSlot(q) => InSlot(q)')
    BY <1>1, SettledStays
  <2>2. Dropped(p)'
    BY <1>3, <1>5, <1>6 DEF Dropped
  <2>3. QED
    BY <1>2, <1>3, <1>4, <1>7, <2>1, <2>2 DEF PromiseInv, Remembered
<1>13. QED
  BY <1>8, <1>9, <1>10, <1>11, <1>12 DEF PromiseInv

\* A commitment: what goes into the slot lies past the last one's cursor, so it
\* is in no slot yet, and was not due to be dropped, so it was not dropped.
LEMMA PromiseAfterCommit ==
  ASSUME TypeOK, NoncesAdvance, PromiseInv, CommitSlot
  PROVE  PromiseInv'
<1>1. PICK arr \in Arrangements(live), e \in Entries :
        /\ e = SlotCommitted(nextSlot,
                 [k \in DOMAIN arr |-> log[arr[k]].intent.id], cursor, closedAt)
        /\ e.kind = "SlotCommitted"
        /\ log' = Append(log, e)
  BY CommitAppended
<1>n. PICK n : n = Len(log) + 1
  OBVIOUS
<1>2. /\ seq = "closing" /\ seq' = "idle"
      /\ misses = {} /\ live' = {}
      /\ UNCHANGED <<clock, buffer, cursor, closedAt, misses>>
  BY DEF CommitSlot
<1>3. /\ log'[n] = e
      /\ Len(log') = n /\ Len(log) \in Nat
      /\ Received(log') = Received(log) /\ Expired(log') = Expired(log)
      /\ Committed(log') = Committed(log) \cup {n}
      /\ n \notin Committed(log)
      /\ \A q \in Received(log) : log'[q] = log[q] /\ q \in 1..Len(log)
      /\ \A q \in Expired(log) : log'[q] = log[q]
      /\ \A q \in Committed(log) : log'[q] = log[q]
  <2>1. \A q \in Committed(log) : q \in 1..Len(log)
    BY <1>1, LogGrows
  <2>2. n \notin Committed(log)
    BY <1>n, <2>1, LogGrows
  <2>3. QED
    BY <1>1, <1>n, <2>2, LogGrows
<1>4. /\ e.consumed_up_to = cursor
      /\ e.committed_at_ms = closedAt
      /\ e.intents = [k \in DOMAIN arr |-> log[arr[k]].intent.id]
      /\ DOMAIN e.intents = DOMAIN arr
  BY <1>1 DEF SlotCommitted
<1>5. ConsumedBy(log') = cursor /\ ConsumedBy(log) \in Nat /\ cursor \in Nat
      /\ ConsumedBy(log) =< cursor /\ cursor =< Len(log)
  BY <1>1, <1>2, <1>4, RecoveryAfterAppend, RecoveryTypes
     DEF TypeOK, PromiseInv, HandInv
<1>6. /\ \A k \in DOMAIN arr : arr[k] \in live
      /\ \A j, k \in DOMAIN arr : arr[j] = arr[k] => j = k
  BY ArrangedIds
<1>7. \A p \in live : \E k \in DOMAIN arr : arr[k] = p
  BY DEF Arrangements, Bijection, Surjection
<1>8. /\ live \subseteq Received(log)
      /\ \A p \in live : ConsumedBy(log) < p /\ p =< cursor /\ ~ RanOut(p, closedAt)
      /\ buffer = {} /\ closedAt =< clock
  BY <1>2 DEF TypeOK, PromiseInv, HandInv, InHand
<1>9. HandInv'
  <2>1. InHand' = {}
    BY <1>2, <1>8 DEF InHand
  <2>2. cursor' =< Len(log')
    BY <1>2, <1>3, <1>5, <1>n
  <2>3. ConsumedBy(log') = cursor' /\ cursor' \in Nat
    BY <1>2, <1>5
  <2>4. seq' = "idle" /\ live' = {} /\ misses' = {}
    BY <1>2
  <2>5. QED
    BY <2>1, <2>2, <2>3, <2>4 DEF HandInv
<1>10. KeptInv'
  <2>1. ASSUME NEW c \in Committed(log), NEW k \in DOMAIN log[c].intents
        PROVE  \E p \in Received(log') : Includes(c, k, p)'
    <3>1. PICK p \in Received(log) : Includes(c, k, p)
      BY DEF PromiseInv, KeptInv
    <3>2. Includes(c, k, p)'
      <4>1. p =< cursor
        BY <1>3, <1>5, <3>1 DEF Includes
      <4>2. QED
        BY <1>3, <1>5, <3>1, <4>1 DEF Includes
    <3>3. QED
      BY <1>3, <3>2
  <2>2. ASSUME NEW k \in DOMAIN e.intents
        PROVE  \E p \in Received(log') : Includes(n, k, p)'
    <3>1. arr[k] \in live /\ e.intents[k] = log[arr[k]].intent.id
      BY <1>4, <1>6
    <3>2. arr[k] \in Received(log) /\ arr[k] =< cursor /\ ~ RanOut(arr[k], closedAt)
      BY <1>8, <3>1
    <3>3. closedAt =< deadline_for(log[arr[k]].received_at)
      <4>1. deadline_for(log[arr[k]].received_at) \in Int /\ closedAt \in Int
        BY <3>2, EntryFields, SequencingAssumption DEF TypeOK, deadline_for
      <4>2. QED
        BY <3>2, <4>1 DEF RanOut
    <3>4. log'[n] = e /\ log'[arr[k]] = log[arr[k]]
      BY <1>3, <3>2
    <3>5. Includes(n, k, arr[k])'
      BY <1>4, <1>5, <3>1, <3>2, <3>3, <3>4 DEF Includes
    <3>6. QED
      BY <1>3, <3>2, <3>5
  <2>3. \A d \in Expired(log), q \in Received(log) : Drops(d, q) => Drops(d, q)'
    BY <1>2, <1>3 DEF Drops
  <2>4. \A c \in Committed(log') : \A k \in DOMAIN log'[c].intents :
          \E p \in Received(log') : Includes(c, k, p)'
    BY <1>3, <2>1, <2>2
  <2>5. \A d \in Expired(log') : \E p \in Received(log') : Drops(d, p)'
    BY <1>3, <2>3 DEF PromiseInv, KeptInv
  <2>6. \A p \in Received(log') :
          log'[p].intent.deadline_ms >= deadline_for(log'[p].received_at)
    BY <1>3 DEF PromiseInv, KeptInv
  <2>7. QED
    BY <2>4, <2>5, <2>6 DEF KeptInv
<1>11. Once'
  <2>1. ASSUME NEW c \in Committed(log), NEW j \in DOMAIN log[c].intents,
               NEW k \in DOMAIN e.intents, log[c].intents[j] = e.intents[k]
        PROVE  FALSE
    <3>1. PICK q \in Received(log) : Includes(c, j, q)
      BY DEF PromiseInv, KeptInv
    <3>2. arr[k] \in live /\ e.intents[k] = log[arr[k]].intent.id
          /\ arr[k] \in Received(log)
      BY <1>4, <1>6, <1>8
    <3>3. q = arr[k]
      BY <2>1, <3>1, <3>2, OneArrival DEF Includes
    <3>4. q =< ConsumedBy(log) /\ ConsumedBy(log) < q /\ q \in Int
      BY <1>3, <1>8, <3>1, <3>2, <3>3 DEF Includes
    <3>5. QED
      BY <1>5, <3>4
  <2>2. ASSUME NEW j \in DOMAIN e.intents, NEW k \in DOMAIN e.intents,
               e.intents[j] = e.intents[k]
        PROVE  j = k
    <3>1. /\ arr[j] \in Received(log) /\ arr[k] \in Received(log)
          /\ log[arr[j]].intent.id = log[arr[k]].intent.id
      BY <1>4, <1>6, <1>8, <2>2
    <3>2. arr[j] = arr[k]
      BY <3>1, OneArrival
    <3>3. QED
      BY <1>4, <1>6, <3>2
  <2>3. QED
    BY <1>3, <2>1, <2>2 DEF PromiseInv, Once
<1>12. Apart'
  <2>1. ASSUME NEW d \in Expired(log), NEW k \in DOMAIN e.intents,
               log[d].id = e.intents[k]
        PROVE  FALSE
    <3>1. PICK q \in Received(log) : Drops(d, q)
      BY DEF PromiseInv, KeptInv
    <3>2. arr[k] \in live /\ e.intents[k] = log[arr[k]].intent.id
          /\ arr[k] \in Received(log)
      BY <1>4, <1>6, <1>8
    <3>3. q = arr[k]
      BY <2>1, <3>1, <3>2, OneArrival DEF Drops
    <3>4. /\ log[d].at_ms > deadline_for(log[q].received_at)
          /\ log[d].at_ms =< closedAt
          /\ ~ (deadline_for(log[q].received_at) < closedAt)
      BY <1>2, <1>8, <3>1, <3>2, <3>3 DEF Drops, RanOut
    <3>5. log[d].at_ms \in Int /\ closedAt \in Int
          /\ deadline_for(log[q].received_at) \in Int
      BY EntryFields, SequencingAssumption DEF TypeOK, deadline_for
    <3>6. QED
      BY <3>4, <3>5
  <2>2. QED
    BY <1>3, <2>1 DEF PromiseInv, Apart
<1>13. Remembered'
  <2>1. \A q \in Received(log) :
          (Dropped(q) => Dropped(q)') /\ (InSlot(q) => InSlot(q)')
    BY <1>1, SettledStays
  <2>2. ASSUME NEW p \in live
        PROVE  InSlot(p)'
    <3>1. PICK k \in DOMAIN arr : arr[k] = p
      BY <1>7
    <3>2. k \in DOMAIN e.intents /\ e.intents[k] = log[p].intent.id
          /\ p \in Received(log)
      BY <1>4, <1>8, <3>1
    <3>3. QED
      BY <1>3, <3>2 DEF InSlot
  <2>3. InHand = live
    BY <1>2, <1>8 DEF InHand
  <2>4. ASSUME NEW p \in Received(log), p =< cursor
        PROVE  Dropped(p)' \/ InSlot(p)'
    <3>1. CASE p =< ConsumedBy(log)
      BY <2>1, <3>1 DEF PromiseInv, Remembered
    <3>2. CASE ConsumedBy(log) < p
      BY <1>2, <2>1, <2>2, <2>3, <2>4, <3>2 DEF PromiseInv, Remembered
    <3>3. p \in Int
      BY <1>3
    <3>4. QED
      BY <1>5, <3>1, <3>2, <3>3
  <2>5. \A p \in Received(log) : ~ (cursor < p /\ p =< cursor)
    BY <1>3, <1>5
  <2>6. QED
    BY <1>2, <1>3, <1>5, <2>4, <2>5 DEF Remembered
<1>14. QED
  BY <1>9, <1>10, <1>11, <1>12, <1>13 DEF PromiseInv

\* A crash: nothing is in hand, and the log is what it was.
LEMMA PromiseAfterCrash ==
  ASSUME TypeOK, PromiseInv, Crash
  PROVE  PromiseInv'
<1>1. /\ log' = log /\ clock' = clock /\ seq' = "down"
      /\ buffer' = {} /\ live' = {} /\ misses' = {}
  BY DEF Crash
<1>2. HandInv'
  BY <1>1 DEF PromiseInv, HandInv, InHand
<1>3. \A e \in Expired(log), p \in Received(log) : Drops(e, p) => Drops(e, p)'
  BY <1>1 DEF Drops
<1>4. KeptInv'
  BY <1>1, <1>3 DEF PromiseInv, KeptInv, Includes
<1>5. Once' /\ Apart' /\ Remembered'
  BY <1>1 DEF PromiseInv, Once, Apart, Remembered, Dropped, InSlot
<1>6. QED
  BY <1>2, <1>4, <1>5 DEF PromiseInv

\* What an id's arrival and deadline are, in terms of the entry that admitted it.
LEMMA ArrivalIs ==
  ASSUME TypeOK, NoncesAdvance, NEW p \in Received(log)
  PROVE  /\ ArrivalOf(log[p].intent.id) = log[p].received_at
         /\ DeadlineOf(log[p].intent.id) = log[p].intent.deadline_ms
         /\ log[p].intent.id \in ReceivedIds(log)
<1>1. log[p].intent \in Intents
  BY EntryFields DEF TypeOK
<1>2. \A q \in Received(log) : log[q].intent.id = log[p].intent.id => q = p
  BY OneArrival
<1>3. (CHOOSE q \in Received(log) : log[q].intent.id = log[p].intent.id) = p
  BY <1>2
<1>4. \A i \in Intents : i.id = log[p].intent.id => i = log[p].intent
  BY <1>1, IntentsAssumption
<1>5. (CHOOSE i \in Intents : i.id = log[p].intent.id) = log[p].intent
  BY <1>1, <1>4
<1>6. QED
  BY <1>3, <1>5 DEF ArrivalOf, DeadlineOf, ReceivedIds

\* The invariant says what the four properties say.
LEMMA PromiseFollows ==
  ASSUME TypeOK, NoncesAdvance, PromiseInv
  PROVE  /\ PromiseKept
         /\ NoDuplicateInclusion
         /\ NeverDroppedAndCommitted
         /\ NothingForgotten
<1>1. ASSUME NEW c \in Committed(log), NEW id \in Range(log[c].intents)
      PROVE  /\ id \in ReceivedIds(log)
             /\ log[c].committed_at_ms =< deadline_for(ArrivalOf(id))
             /\ log[c].committed_at_ms =< DeadlineOf(id)
  <2>1. PICK k \in DOMAIN log[c].intents : log[c].intents[k] = id
    BY DEF Range
  <2>2. PICK p \in Received(log) : Includes(c, k, p)
    BY DEF PromiseInv, KeptInv
  <2>3. log[p].intent.id = id
    BY <2>1, <2>2 DEF Includes
  <2>4. /\ ArrivalOf(id) = log[p].received_at
        /\ DeadlineOf(id) = log[p].intent.deadline_ms
        /\ id \in ReceivedIds(log)
    BY <2>3, ArrivalIs
  <2>5. /\ log[c].committed_at_ms =< deadline_for(log[p].received_at)
        /\ deadline_for(log[p].received_at) =< log[p].intent.deadline_ms
    BY <2>2 DEF Includes, PromiseInv, KeptInv
  <2>6. /\ log[c].committed_at_ms \in Int /\ log[p].intent.deadline_ms \in Int
        /\ deadline_for(log[p].received_at) \in Int
    <3>1. log[c].committed_at_ms \in Nat /\ log[p].received_at \in Nat
          /\ log[p].intent \in Intents
      BY EntryFields DEF TypeOK
    <3>2. log[p].intent.deadline_ms \in Nat
      BY <3>1, IntentsAssumption
    <3>3. QED
      BY <3>1, <3>2, SequencingAssumption DEF deadline_for
  <2>7. QED
    BY <2>4, <2>5, <2>6
<1>2. ASSUME NEW e \in Expired(log)
      PROVE  /\ log[e].id \in ReceivedIds(log)
             /\ log[e].guarantee_deadline_ms = deadline_for(ArrivalOf(log[e].id))
             /\ log[e].at_ms > log[e].guarantee_deadline_ms
  <2>1. PICK p \in Received(log) : Drops(e, p)
    BY DEF PromiseInv, KeptInv
  <2>2. QED
    BY <2>1, ArrivalIs DEF Drops
<1>3. PromiseKept
  BY <1>1, <1>2 DEF PromiseKept
<1>4. NoDuplicateInclusion
  <2> SUFFICES ASSUME NEW id \in Ids, NEW x \in Inclusions(id),
                      NEW y \in Inclusions(id)
               PROVE  x = y
    BY DEF NoDuplicateInclusion
  <2>1. PICK c \in Committed(log) :
          \E j \in DOMAIN log[c].intents :
            x = <<c, j>> /\ log[c].intents[j] = id
    BY DEF Inclusions
  <2>2. PICK d \in Committed(log) :
          \E k \in DOMAIN log[d].intents :
            y = <<d, k>> /\ log[d].intents[k] = id
    BY DEF Inclusions
  <2>3. QED
    BY <2>1, <2>2 DEF PromiseInv, Once
<1>5. NeverDroppedAndCommitted
  <2> SUFFICES ASSUME NEW id \in ExpiredIds(log), id \in CommittedIds(log)
               PROVE  FALSE
    BY DEF NeverDroppedAndCommitted
  <2>1. PICK e \in Expired(log) : log[e].id = id
    BY DEF ExpiredIds
  <2>2. PICK c \in Committed(log) :
          \E k \in DOMAIN log[c].intents : log[c].intents[k] = id
    BY DEF CommittedIds, Range
  <2>3. QED
    BY <2>1, <2>2 DEF PromiseInv, Apart
<1>6. NothingForgotten
  <2>1. \A p \in Received(log) :
          Dropped(p) => log[p].intent.id \in ExpiredIds(log)
    BY DEF Dropped, ExpiredIds
  <2>2. \A p \in Received(log) :
          InSlot(p) => log[p].intent.id \in CommittedIds(log)
    BY DEF InSlot, CommittedIds, Range
  <2>3. QED
    BY <2>1, <2>2 DEF PromiseInv, Remembered, InHand, NothingForgotten
<1>7. QED
  BY <1>3, <1>4, <1>5, <1>6

\* The invariant holds from the start and through every step.
LEMMA PromiseInvHolds == Spec => []PromiseInv
<1>1. Init => PromiseInv
  <2> SUFFICES ASSUME Init PROVE PromiseInv
    OBVIOUS
  <2>1. /\ Received(log) = {} /\ Expired(log) = {} /\ Committed(log) = {}
        /\ Len(log) = 0
    BY DEF Init, Received, Expired, Committed, Kind
  <2>2. ConsumedBy(log) = 0
    BY <2>1 DEF ConsumedBy
  <2>3. HandInv
    BY <2>1, <2>2 DEF Init, HandInv, InHand
  <2>4. KeptInv /\ Once /\ Apart /\ Remembered
    BY <2>1 DEF KeptInv, Once, Apart, Remembered
  <2>5. QED
    BY <2>3, <2>4 DEF PromiseInv
<1>2. TypeOK /\ TypeOK' /\ NoncesAdvance /\ PromiseInv /\ [Next]_vars => PromiseInv'
  <2> SUFFICES ASSUME TypeOK, TypeOK', NoncesAdvance, PromiseInv, [Next]_vars
               PROVE  PromiseInv'
    OBVIOUS
  <2>1. clock \in Nat /\ clock' \in Nat
    BY DEF TypeOK
  <2>2. ASSUME UNCHANGED <<log, seqVars>>, clock =< clock'
        PROVE  PromiseInv'
    BY <2>1, <2>2, PromiseFrame
  <2>3. CASE UNCHANGED vars
    BY <2>1, <2>2, <2>3 DEF vars
  <2>4. CASE RecoverGate \/ Tick
    BY <2>1, <2>2, <2>4 DEF RecoverGate, Tick
  <2>5. ASSUME NEW c \in Clients, NEW i \in Intents, Arrive(c, i)
        PROVE  PromiseInv'
    BY <2>1, <2>2, <2>5 DEF Arrive
  <2>6. ASSUME NEW c \in Clients, Reject(c) \/ AppendFails(c) \/ Record(c)
        PROVE  PromiseInv'
    BY <2>1, <2>2, <2>6 DEF Reject, AppendFails, Record
  <2>7. ASSUME NEW c \in Clients, Admit(c)
        PROVE  PromiseInv'
    BY <2>7, PromiseAfterAdmit
  <2>8. CASE RecoverSequencer \/ Drain \/ CloseSlot
    BY <2>8, PromiseAfterReading
  <2>9. CASE RecordMiss
    BY <2>9, PromiseAfterMiss
  <2>10. CASE CommitSlot
    BY <2>10, PromiseAfterCommit
  <2>11. CASE Crash
    BY <2>11, PromiseAfterCrash
  <2>12. QED
    BY <2>3, <2>4, <2>5, <2>6, <2>7, <2>8, <2>9, <2>10, <2>11
       DEF Next, Gate, Sequencer
<1>3. QED
  BY <1>1, <1>2, TypeCorrect, GateCorrect, PTL DEF Spec

\* The inclusion promise (README.md:179-189, 427; sequencer.rs:78-99, 141-143,
\* 205-235) in every state: an intent is in a slot in time or dropped after its
\* window, never twice, never both, and never neither once a slot has passed it.
THEOREM PromiseCorrect ==
  Spec => [](/\ PromiseKept
             /\ NoDuplicateInclusion
             /\ NeverDroppedAndCommitted
             /\ NothingForgotten)
<1>1. TypeOK /\ NoncesAdvance /\ PromiseInv
        => /\ PromiseKept
           /\ NoDuplicateInclusion
           /\ NeverDroppedAndCommitted
           /\ NothingForgotten
  BY PromiseFollows
<1>2. QED
  BY <1>1, PromiseInvHolds, TypeCorrect, GateCorrect, PTL

\* An intent is in one slot at most, in one place (sequencer.rs:78-91, 228), any
\* number of restarts notwithstanding.
THEOREM IncludedOnce == Spec => []NoDuplicateInclusion
BY PromiseCorrect, PTL

\* A miss recorded before a crash is not followed by a commitment
\* (sequencer.rs:213-231), though the decision is made again.
THEOREM DroppedXorCommitted == Spec => []NeverDroppedAndCommitted
BY PromiseCorrect, PTL

\* Nothing the last slot's consumed_up_to passed is left without an outcome
\* (sequencer.rs:223-231), and a live sequencer holds everything it read since.
THEOREM CursorForgetsNothing == Spec => []NothingForgotten
BY PromiseCorrect, PTL

-----------------------------------------------------------------------------
(* The order of a slot (Policy): for any buffer there is one, it is a      *)
(* function of the buffered set, and what one market gets of it does not   *)
(* depend on the others.                                                   *)

\* A Vec<Pending> as the gate lets it come about: no two intents have one id.
IsBuffer(b) ==
  /\ DOMAIN b \subseteq Int
  /\ IsFiniteSet(DOMAIN b)
  /\ \A k \in DOMAIN b :
       /\ b[k].market \in Int /\ b[k].nonce \in Int /\ b[k].priority_fee \in Int
       /\ b[k].received_at \in Int /\ b[k].id \in Int
  /\ \A j, k \in DOMAIN b : b[j].id = b[k].id => j = k

\* What is still to come of an arrangement from its k-th place on.
RestOf(arr, k) == {arr[l] : l \in {m \in DOMAIN arr : m >= k}}

LEMMA ArrangementOf ==
  ASSUME NEW S, NEW arr \in Arrangements(S), IsFiniteSet(S)
  PROVE  /\ DOMAIN arr = 1..Cardinality(S)
         /\ Cardinality(S) \in Nat
         /\ \A k \in DOMAIN arr : arr[k] \in S
         /\ \A j, k \in DOMAIN arr : arr[j] = arr[k] => j = k
         /\ \A x \in S : \E k \in DOMAIN arr : arr[k] = x
<1> PICK places : places = 1..Cardinality(S)
  OBVIOUS
<1>1. /\ arr \in [places -> S]
      /\ \A j, k \in DOMAIN arr : arr[j] = arr[k] => j = k
      /\ \A x \in S : \E k \in places : arr[k] = x
  BY DEF Arrangements, Bijection, Injection, Surjection, IsInjective
<1>2. Cardinality(S) \in Nat
  BY FS_CardinalityType
<1>3. DOMAIN arr = places
  BY <1>1
<1>4. \A k \in DOMAIN arr : arr[k] \in S
  BY <1>1
<1>5. QED
  BY <1>1, <1>2, <1>3, <1>4, Zenon

\* What is left to come is what has not come.
LEMMA RestIsTheOthers ==
  ASSUME NEW S, NEW arr \in Arrangements(S), IsFiniteSet(S),
         NEW k \in 1..Cardinality(S)
  PROVE  /\ RestOf(arr, k) = S \ {arr[l] : l \in 1..(k - 1)}
         /\ arr[k] \in RestOf(arr, k)
<1>1. /\ DOMAIN arr = 1..Cardinality(S)
      /\ Cardinality(S) \in Nat
      /\ \A l \in DOMAIN arr : arr[l] \in S
      /\ \A j, l \in DOMAIN arr : arr[j] = arr[l] => j = l
      /\ \A x \in S : \E l \in DOMAIN arr : arr[l] = x
  BY ArrangementOf
<1>2. \A l \in DOMAIN arr : l >= k <=> l \notin 1..(k - 1)
  BY <1>1
<1>3. 1..(k - 1) \subseteq DOMAIN arr
  BY <1>1
<1>4. RestOf(arr, k) \subseteq S \ {arr[l] : l \in 1..(k - 1)}
  BY <1>1, <1>2, <1>3 DEF RestOf
<1>5. ASSUME NEW x \in S \ {arr[l] : l \in 1..(k - 1)}
      PROVE  x \in RestOf(arr, k)
  <2>1. PICK l \in DOMAIN arr : arr[l] = x
    BY <1>1
  <2>2. l \notin 1..(k - 1)
    BY <2>1
  <2>3. QED
    BY <1>2, <2>1, <2>2 DEF RestOf
<1>6. k \in DOMAIN arr /\ k >= k
  BY <1>1
<1>7. QED
  BY <1>4, <1>5, <1>6 DEF RestOf

\* At most one intent can be popped next.
LEMMA OnePops ==
  ASSUME NEW b, IsBuffer(b), NEW rest \in SUBSET DOMAIN b,
         NEW j \in rest, NEW k \in rest, PopsNext(b, rest, j), PopsNext(b, rest, k)
  PROVE  j = k
<1>1. SUFFICES ASSUME j # k PROVE FALSE
  OBVIOUS
<1>2. b[j].market = b[k].market
  BY DEF PopsNext, IsBuffer
<1>3. SortsAhead(b[j], b[k]) /\ SortsAhead(b[k], b[j])
  BY <1>1, <1>2 DEF PopsNext
<1>4. /\ b[j].priority_fee \in Int /\ b[k].priority_fee \in Int
      /\ b[j].received_at \in Int /\ b[k].received_at \in Int
      /\ b[j].id \in Int /\ b[k].id \in Int
  BY DEF IsBuffer
<1>5. QED
  BY <1>3, <1>4 DEF SortsAhead

\* No two orders follow the policy: the first place where they differ would be
\* two intents that can be popped from the same queues.
LEMMA OneOrder ==
  ASSUME NEW b, IsBuffer(b), NEW arr \in Arrangements(DOMAIN b),
         NEW other \in Arrangements(DOMAIN b),
         InPolicyOrder(arr, b), InPolicyOrder(other, b)
  PROVE  arr = other
<1> PICK n : n = Cardinality(DOMAIN b)
  OBVIOUS
<1>1. /\ n \in Nat /\ DOMAIN arr = 1..n /\ DOMAIN other = 1..n
      /\ IsFiniteSet(DOMAIN b)
  BY ArrangementOf DEF IsBuffer
<1> DEFINE Differ == {k \in 1..n : arr[k] # other[k]}
<1>2. SUFFICES ASSUME Differ # {} PROVE FALSE
  <2>1. arr \in [1..n -> DOMAIN b] /\ other \in [1..n -> DOMAIN b]
    BY <1>1 DEF Arrangements, Bijection, Injection
  <2>2. \A k \in 1..n : arr[k] = other[k]
    BY <1>2
  <2>3. /\ arr = [k \in 1..n |-> arr[k]]
        /\ other = [k \in 1..n |-> other[k]]
    BY <2>1
  <2>4. QED
    BY <2>2, <2>3
<1>3. PICK k \in Differ : \A l \in Differ : <<l, k>> \notin OpToRel(<, Nat)
  <2>1. Differ \subseteq Nat
    OBVIOUS
  <2>2. QED
    BY <1>2, <2>1, NatLessThanWellFounded, WFMin
<1>4. \A l \in 1..(k - 1) : arr[l] = other[l]
  <2>1. \A l \in 1..(k - 1) : l \in Nat /\ l \in 1..n /\ l < k
    BY <1>1
  <2>2. \A l \in Differ : ~ (l \in Nat /\ k \in Nat /\ l < k)
    BY <1>3 DEF OpToRel
  <2>3. k \in Nat
    OBVIOUS
  <2>4. QED
    BY <2>1, <2>2, <2>3
<1>5. {arr[l] : l \in 1..(k - 1)} = {other[l] : l \in 1..(k - 1)}
  BY <1>4
<1> PICK rest : rest = RestOf(arr, k)
  OBVIOUS
<1>6. /\ rest = DOMAIN b \ {arr[l] : l \in 1..(k - 1)}
      /\ arr[k] \in rest
  BY <1>1, RestIsTheOthers
<1>7. /\ RestOf(other, k) = DOMAIN b \ {other[l] : l \in 1..(k - 1)}
      /\ other[k] \in RestOf(other, k)
  BY <1>1, RestIsTheOthers
<1>8. RestOf(other, k) = rest
  BY <1>5, <1>6, <1>7
<1>9. PopsNext(b, rest, arr[k]) /\ PopsNext(b, rest, other[k])
  BY <1>1, <1>8 DEF InPolicyOrder, RestOf
<1>10. arr[k] = other[k]
  BY <1>6, <1>7, <1>8, <1>9, OnePops
<1>11. QED
  BY <1>10

\* A finite nonempty set has a member that no other comes before.  A smallest
\* subset without one would, less any of its members, have one.
LEMMA FirstExists ==
  ASSUME NEW S, IsFiniteSet(S), S # {}, NEW Less,
         \A x \in S : <<x, x>> \notin Less,
         \A x, y, z \in S : <<x, y>> \in Less /\ <<y, z>> \in Less => <<x, z>> \in Less
  PROVE  \E m \in S : \A x \in S : <<x, m>> \notin Less
<1> DEFINE HasFirst(T) == \E m \in T : \A x \in T : <<x, m>> \notin Less
           Bad == {T \in SUBSET S : T # {} /\ ~ HasFirst(T)}
<1>1. Bad \subseteq FiniteSubsetsOf(S)
  BY FS_FiniteSubsetsOfFinite
<1>2. SUFFICES ASSUME Bad # {} PROVE FALSE
  OBVIOUS
<1>3. IsWellFoundedOn(StrictSubsetOrdering(S), FiniteSubsetsOf(S))
  BY FS_StrictSubsetOrderingWellFounded
<1>4. PICK T \in Bad : \A U \in Bad : <<U, T>> \notin StrictSubsetOrdering(S)
  <2> HIDE DEF Bad
  <2>1. QED
    BY <1>1, <1>2, <1>3, WFMin
<1>5. PICK x \in T : TRUE
  BY <1>4
<1>6. <<T \ {x}, T>> \in StrictSubsetOrdering(S)
  BY <1>4, <1>5 DEF StrictSubsetOrdering
<1>7. T \ {x} \notin Bad
  BY <1>4, <1>6
<1>8. CASE T \ {x} = {}
  <2>1. HasFirst(T)
    BY <1>4, <1>5, <1>8
  <2>2. QED
    BY <1>4, <2>1
<1>9. CASE T \ {x} # {}
  <2>1. PICK m \in T \ {x} : \A y \in T \ {x} : <<y, m>> \notin Less
    BY <1>4, <1>7, <1>9
  <2>2. CASE <<x, m>> \notin Less
    <3>1. \A y \in T : <<y, m>> \notin Less
      BY <2>1, <2>2
    <3>2. QED
      BY <1>4, <2>1, <3>1
  <2>3. CASE <<x, m>> \in Less
    <3>1. \A y \in T : <<y, x>> \notin Less
      BY <1>4, <1>5, <2>1, <2>3
    <3>2. QED
      BY <1>4, <1>5, <3>1
  <2>4. QED
    BY <2>2, <2>3
<1>10. QED
  BY <1>8, <1>9

\* One that f makes smallest.
LEMMA SmallestBy ==
  ASSUME NEW S, IsFiniteSet(S), S # {}, NEW f, \A x \in S : f[x] \in Int
  PROVE  \E m \in S : \A x \in S : f[m] =< f[x]
<1> DEFINE Less == {pair \in S \X S : f[pair[1]] < f[pair[2]]}
<1>1. \A x, y \in S : <<x, y>> \in Less <=> f[x] < f[y]
  OBVIOUS
<1> HIDE DEF Less
<1>2. \A x \in S : <<x, x>> \notin Less
  BY <1>1
<1>3. \A x, y, z \in S : <<x, y>> \in Less /\ <<y, z>> \in Less => <<x, z>> \in Less
  BY <1>1
<1>4. PICK m \in S : \A x \in S : <<x, m>> \notin Less
  BY <1>2, <1>3, FirstExists
<1>5. ASSUME NEW x \in S PROVE f[m] =< f[x]
  <2>1. ~ (f[x] < f[m])
    BY <1>1, <1>4
  <2>2. f[x] \in Int /\ f[m] \in Int
    OBVIOUS
  <2>3. QED
    BY <2>1, <2>2
<1>6. QED
  BY <1>5

\* Whatever the queues hold, one of the intents can be popped.
LEMMA SomePops ==
  ASSUME NEW b, IsBuffer(b), NEW rest \in SUBSET DOMAIN b, rest # {}
  PROVE  \E k \in rest : PopsNext(b, rest, k)
<1>1. /\ IsFiniteSet(rest)
      /\ rest \subseteq Int
      /\ \A k \in rest :
           /\ b[k].market \in Int /\ b[k].nonce \in Int /\ b[k].priority_fee \in Int
           /\ b[k].received_at \in Int /\ b[k].id \in Int
      /\ \A j, k \in rest : b[j].id = b[k].id => j = k
  BY FS_Subset DEF IsBuffer
<1>2. PICK first \in rest : \A k \in rest : b[first].market =< b[k].market
  <2> PICK market : market = [k \in rest |-> b[k].market]
    OBVIOUS
  <2>1. \A k \in rest : market[k] = b[k].market /\ market[k] \in Int
    BY <1>1
  <2>2. PICK first \in rest : \A k \in rest : market[first] =< market[k]
    BY <1>1, <2>1, SmallestBy
  <2>3. QED
    BY <2>1, <2>2
<1> DEFINE domain == {k \in rest : b[k].market = b[first].market}
<1>3. PICK front \in domain : AtFront(b, rest, front)
  <2> DEFINE Less == {pair \in domain \X domain : QueuedBefore(b, pair[1], pair[2])}
  <2>1. \A x, y \in domain : <<x, y>> \in Less <=> QueuedBefore(b, x, y)
    BY Zenon
  <2>2. domain \subseteq rest /\ first \in domain
    OBVIOUS
  <2>3. IsFiniteSet(domain)
    <3> HIDE DEF domain
    <3>1. QED
      BY <1>1, <2>2, FS_Subset
  <2>4. \A x \in rest : ~ QueuedBefore(b, x, x)
    BY <1>1 DEF QueuedBefore
  <2>5. \A x, y, z \in rest :
          QueuedBefore(b, x, y) /\ QueuedBefore(b, y, z) => QueuedBefore(b, x, z)
    BY <1>1 DEF QueuedBefore
  <2>6. \A k \in domain, j \in rest : QueuedBefore(b, j, k) => j \in domain
    BY DEF QueuedBefore
  <2> HIDE DEF domain, Less
  <2>7. /\ \A x \in domain : <<x, x>> \notin Less
        /\ \A x, y, z \in domain : <<x, y>> \in Less /\ <<y, z>> \in Less => <<x, z>> \in Less
    BY <2>1, <2>2, <2>4, <2>5
  <2>8. \E m \in domain : \A x \in domain : <<x, m>> \notin Less
    BY <2>2, <2>3, <2>7, FirstExists
  <2>9. QED
    BY <2>1, <2>6, <2>8 DEF AtFront
<1> DEFINE heads == {k \in domain : AtFront(b, rest, k)}
<1>4. PICK k \in heads : \A j \in heads : ~ SortsAhead(b[j], b[k])
  <2> DEFINE Less == {pair \in heads \X heads : SortsAhead(b[pair[1]], b[pair[2]])}
  <2>1. \A x, y \in heads : <<x, y>> \in Less <=> SortsAhead(b[x], b[y])
    BY Zenon
  <2>2. heads \subseteq rest /\ front \in heads
    BY <1>3
  <2>3. IsFiniteSet(heads)
    <3> HIDE DEF heads
    <3>1. QED
      BY <1>1, <2>2, FS_Subset
  <2>4. \A x \in rest : ~ SortsAhead(b[x], b[x])
    BY <1>1 DEF SortsAhead
  <2>5. \A x, y, z \in rest :
          SortsAhead(b[x], b[y]) /\ SortsAhead(b[y], b[z]) => SortsAhead(b[x], b[z])
    BY <1>1 DEF SortsAhead
  <2> HIDE DEF heads, Less
  <2>6. /\ \A x \in heads : <<x, x>> \notin Less
        /\ \A x, y, z \in heads : <<x, y>> \in Less /\ <<y, z>> \in Less => <<x, z>> \in Less
    BY <2>1, <2>2, <2>4, <2>5
  <2>7. \E m \in heads : \A x \in heads : <<x, m>> \notin Less
    BY <2>2, <2>3, <2>6, FirstExists
  <2>8. QED
    BY <2>1, <2>7
<1>5. k \in rest /\ b[k].market = b[first].market /\ AtFront(b, rest, k)
  BY <1>4
<1>6. ASSUME NEW j \in rest \ {k}, b[j].market = b[k].market, AtFront(b, rest, j)
      PROVE  SortsAhead(b[k], b[j])
  <2>1. j \in heads
    BY <1>5, <1>6
  <2>2. ~ SortsAhead(b[j], b[k])
    <3> HIDE DEF heads
    <3>1. QED
      BY <1>4, <2>1
  <2>3. b[j].id # b[k].id
    BY <1>1, <1>5
  <2>4. QED
    BY <1>1, <1>5, <2>2, <2>3 DEF SortsAhead
<1>7. PopsNext(b, rest, k)
  BY <1>2, <1>5, <1>6 DEF PopsNext
<1>8. QED
  BY <1>5, <1>7

\* arr lists S, whose size is n, each member once.
Lists(arr, n, S) ==
  /\ arr \in [1..n -> S]
  /\ \A j, l \in 1..n : arr[j] = arr[l] => j = l
  /\ \A x \in S : \E l \in 1..n : arr[l] = x

\* longer is arr with k in front.
InFront(longer, k, arr, n) ==
  /\ longer = [l \in 1..(n + 1) |-> longer[l]]
  /\ longer[1] = k
  /\ \A l \in 1..n : longer[l + 1] = arr[l]

\* After its first place longer is arr, one place later.
GoesOnAs(longer, arr, n) ==
  \A l \in 1..(n + 1) : l # 1 =>
    /\ l - 1 \in 1..n
    /\ longer[l] = arr[l - 1]
    /\ RestOf(longer, l) = RestOf(arr, l - 1)

LEMMA FrontExists ==
  ASSUME NEW n \in Nat, NEW k, NEW arr
  PROVE  \E longer : InFront(longer, k, arr, n)
<1> PICK places : places = 1..(n + 1)
  OBVIOUS
<1>1. 1 \in places /\ \A l \in 1..n : l + 1 \in places /\ l + 1 # 1 /\ (l + 1) - 1 = l
  OBVIOUS
<1> PICK longer : longer = [l \in places |-> IF l = 1 THEN k ELSE arr[l - 1]]
  OBVIOUS
<1>2. longer[1] = k /\ longer = [l \in places |-> longer[l]]
  BY <1>1
<1>3. ASSUME NEW l \in 1..n PROVE longer[l + 1] = arr[l]
  <2>1. longer[l + 1] = arr[(l + 1) - 1]
    BY <1>1
  <2>2. QED
    BY <1>1, <2>1
<1>4. QED
  BY <1>2, <1>3 DEF InFront

\* With a newcomer in front, the rest at each place is as it was.
LEMMA ListedInFront ==
  ASSUME NEW n \in Nat, NEW S, NEW k, k \notin S, NEW arr, Lists(arr, n, S),
         NEW longer, InFront(longer, k, arr, n)
  PROVE  /\ Lists(longer, n + 1, S \cup {k})
         /\ RestOf(longer, 1) = S \cup {k}
         /\ GoesOnAs(longer, arr, n)
<1> PICK places : places = 1..(n + 1)
  OBVIOUS
<1> PICK T : T = S \cup {k}
  OBVIOUS
<1>1. /\ DOMAIN arr = 1..n
      /\ \A l \in 1..n : arr[l] \in S
      /\ \A j, l \in 1..n : arr[j] = arr[l] => j = l
      /\ \A x \in S : \E l \in 1..n : arr[l] = x
  BY DEF Lists
<1>2. /\ longer = [l \in places |-> longer[l]]
      /\ longer[1] = k
      /\ \A l \in 1..n : longer[l + 1] = arr[l]
  BY DEF InFront
<1>3. DOMAIN longer = places
  BY <1>2
<1>4. \A l \in places : l # 1 => l - 1 \in 1..n /\ (l - 1) + 1 = l
  OBVIOUS
<1>5. \A l \in places : l # 1 => longer[l] = arr[l - 1]
  BY <1>2, <1>4
<1>6. 1 \in places /\ \A l \in 1..n : l + 1 \in places
  OBVIOUS
<1>7. \A l \in places : longer[l] \in T
  BY <1>1, <1>2, <1>4, <1>5
<1>8. ASSUME NEW j \in places, NEW l \in places, longer[j] = longer[l]
      PROVE  j = l
  <2>1. CASE j = 1 \/ l = 1
    BY <1>1, <1>2, <1>4, <1>5, <1>8, <2>1
  <2>2. CASE j # 1 /\ l # 1
    <3>1. j - 1 = l - 1
      BY <1>1, <1>4, <1>5, <1>8, <2>2
    <3>2. QED
      BY <3>1
  <2>3. QED
    BY <2>1, <2>2
<1>9. ASSUME NEW x \in T
      PROVE  \E l \in places : longer[l] = x
  <2>1. CASE x = k
    BY <1>2, <1>6, <2>1
  <2>2. CASE x \in S
    <3>1. PICK l \in 1..n : arr[l] = x
      BY <1>1, <2>2
    <3>2. QED
      BY <1>2, <1>6, <3>1
  <2>3. QED
    BY <2>1, <2>2
<1>10. Lists(longer, n + 1, T)
  <2>1. longer \in [places -> T]
    BY <1>2, <1>7
  <2>2. QED
    BY <1>8, <1>9, <2>1 DEF Lists
<1>11. RestOf(longer, 1) = T
  <2>1. \A l \in places : l >= 1
    OBVIOUS
  <2>2. QED
    BY <1>3, <1>7, <1>9, <2>1 DEF RestOf
<1>12. ASSUME NEW l \in places, l # 1
       PROVE  RestOf(longer, l) = RestOf(arr, l - 1)
  <2>1. ASSUME NEW m \in places, m >= l
        PROVE  m - 1 \in 1..n /\ m - 1 >= l - 1 /\ longer[m] = arr[m - 1]
    <3>1. m # 1 /\ m - 1 >= l - 1
      BY <1>12, <2>1
    <3>2. QED
      BY <1>4, <1>5, <3>1
  <2>2. ASSUME NEW m \in 1..n, m >= l - 1
        PROVE  m + 1 \in places /\ m + 1 >= l /\ longer[m + 1] = arr[m]
    <3>1. m + 1 >= l
      BY <2>2
    <3>2. QED
      BY <1>2, <1>6, <3>1
  <2>3. RestOf(longer, l) \subseteq RestOf(arr, l - 1)
    BY <1>1, <1>3, <2>1 DEF RestOf
  <2>4. RestOf(arr, l - 1) \subseteq RestOf(longer, l)
    BY <1>1, <1>3, <2>2 DEF RestOf
  <2>5. QED
    BY <2>3, <2>4
<1>13. QED
  <2>1. GoesOnAs(longer, arr, n)
    BY <1>4, <1>5, <1>12 DEF GoesOnAs
  <2>2. QED
    BY <1>10, <1>11, <2>1

\* An intent popped goes before the order of the others.
LEMMA PoppedFirst ==
  ASSUME NEW b, NEW S, IsFiniteSet(S), NEW k, k \notin S,
         PopsNext(b, S \cup {k}, k),
         NEW arr \in Arrangements(S), InPolicyOrder(arr, b)
  PROVE  \E longer \in Arrangements(S \cup {k}) : InPolicyOrder(longer, b)
<1> PICK n : n = Cardinality(S)
  OBVIOUS
<1> PICK T : T = S \cup {k}
  OBVIOUS
<1>1. n \in Nat /\ Cardinality(T) = n + 1
  BY FS_AddElement, FS_CardinalityType
<1>2. Lists(arr, n, S)
  BY DEF Arrangements, Bijection, Injection, Surjection, IsInjective, Lists
<1>3. PICK longer : InFront(longer, k, arr, n)
  BY <1>1, FrontExists
<1>4. /\ Lists(longer, n + 1, S \cup {k})
      /\ RestOf(longer, 1) = S \cup {k}
      /\ GoesOnAs(longer, arr, n)
  <2>1. n \in Nat
    BY <1>1
  <2>2. QED
    BY <1>2, <1>3, <2>1, ListedInFront
<1>5. longer \in Arrangements(T)
  BY <1>1, <1>4
     DEF Arrangements, Bijection, Injection, Surjection, IsInjective, Lists
<1>6. ASSUME NEW l \in 1..(n + 1)
      PROVE  PopsNext(b, RestOf(longer, l), longer[l])
  <2>1. CASE l = 1
    BY <1>3, <1>4, <2>1 DEF InFront
  <2>2. CASE l # 1
    <3>1. l - 1 \in DOMAIN arr
      BY <1>2, <1>4, <2>2 DEF Lists, GoesOnAs
    <3>2. PopsNext(b, RestOf(arr, l - 1), arr[l - 1])
      BY <3>1 DEF InPolicyOrder, RestOf
    <3>3. QED
      BY <1>4, <2>2, <3>2 DEF GoesOnAs
  <2>3. QED
    BY <2>1, <2>2
<1>7. DOMAIN longer = 1..(n + 1)
  BY <1>4 DEF Lists
<1>8. InPolicyOrder(longer, b)
  BY <1>6, <1>7 DEF InPolicyOrder, RestOf
<1>9. QED
  BY <1>5, <1>8

\* There is an order that follows the policy: a smallest set without one would,
\* less the intent it pops, have one.
LEMMA OrderExists ==
  ASSUME NEW b, IsBuffer(b)
  PROVE  \E arr \in Arrangements(DOMAIN b) : InPolicyOrder(arr, b)
<1> PICK S : S = DOMAIN b
  OBVIOUS
<1> DEFINE HasOrder(T) == \E arr \in Arrangements(T) : InPolicyOrder(arr, b)
           Bad == {T \in SUBSET S : ~ HasOrder(T)}
<1>1. IsFiniteSet(S)
  BY DEF IsBuffer
<1>2. Bad \subseteq FiniteSubsetsOf(S)
  BY <1>1, FS_FiniteSubsetsOfFinite
<1>3. SUFFICES ASSUME Bad # {} PROVE FALSE
  BY Zenon
<1>4. IsWellFoundedOn(StrictSubsetOrdering(S), FiniteSubsetsOf(S))
  BY FS_StrictSubsetOrderingWellFounded
<1>5. PICK T \in Bad : \A U \in Bad : <<U, T>> \notin StrictSubsetOrdering(S)
  <2> HIDE DEF Bad
  <2>1. QED
    BY <1>2, <1>3, <1>4, WFMin
<1>6. T \in SUBSET S /\ ~ HasOrder(T)
  BY <1>5, Zenon
<1>7. IsFiniteSet(T)
  BY <1>1, <1>6, FS_Subset
<1>8. CASE T = {}
  <2>1. Cardinality(T) = 0
    BY <1>8, FS_EmptySet
  <2>2. <<>> \in [1..0 -> {}] /\ DOMAIN <<>> = {} /\ 1..0 = {}
    OBVIOUS
  <2>3. <<>> \in Arrangements(T)
    BY <1>8, <2>1, <2>2
       DEF Arrangements, Bijection, Injection, Surjection, IsInjective
  <2>4. InPolicyOrder(<<>>, b)
    BY <2>2 DEF InPolicyOrder
  <2>5. HasOrder(T)
    BY <2>3, <2>4, Zenon
  <2>6. QED
    BY <1>6, <2>5
<1>9. CASE T # {}
  <2>1. PICK k \in T : PopsNext(b, T, k)
    BY <1>6, <1>9, SomePops
  <2>2. <<T \ {k}, T>> \in StrictSubsetOrdering(S)
    BY <1>6, <2>1 DEF StrictSubsetOrdering
  <2>3. T \ {k} \notin Bad
    BY <1>5, <2>2, Zenon
  <2>4. T \ {k} \in SUBSET S
    BY <1>6
  <2>5. HasOrder(T \ {k})
    BY <2>3, <2>4, Zenon
  <2>6. PICK arr \in Arrangements(T \ {k}) : InPolicyOrder(arr, b)
    BY <2>5, Zenon
  <2>7. HasOrder(T)
    <3>1. PICK S2 : S2 = T \ {k}
      OBVIOUS
    <3>2. IsFiniteSet(S2) /\ T = S2 \cup {k} /\ k \notin S2
      BY <1>7, <2>1, <3>1, FS_RemoveElement
    <3>3. \E longer \in Arrangements(S2 \cup {k}) : InPolicyOrder(longer, b)
      BY <2>1, <2>6, <3>1, <3>2, PoppedFirst
    <3>4. QED
      BY <3>2, <3>3, Zenon
  <2>8. QED
    BY <1>6, <2>7
<1>10. QED
  BY <1>8, <1>9

\* No two intents of a submitter in a market have one nonce, as the gate has it.
NoncesApart(b) ==
  \A j, k \in DOMAIN b :
    /\ b[j].market = b[k].market
    /\ b[j].submitter = b[k].submitter
    /\ b[j].nonce = b[k].nonce
    => j = k

\* m takes b's intents to where c holds them.
Renumbers(m, b, c) ==
  /\ m \in Bijection(DOMAIN b, DOMAIN c)
  /\ \A k \in DOMAIN b : c[m[k]] = b[k]

Moved(m, rest) == {m[j] : j \in rest}

\* Whatever the arrival order, the same intent pops.
LEMMA PopsAsBefore ==
  ASSUME NEW b, IsBuffer(b), NoncesApart(b), NEW c, IsBuffer(c),
         NEW m, Renumbers(m, b, c),
         NEW rest \in SUBSET DOMAIN b, NEW k \in rest, PopsNext(b, rest, k)
  PROVE  PopsNext(c, Moved(m, rest), m[k])
<1> PICK others : others = {m[j] : j \in rest}
  OBVIOUS
<1>1. /\ \A j \in DOMAIN b : m[j] \in DOMAIN c /\ c[m[j]] = b[j]
      /\ \A i, j \in DOMAIN b : m[i] = m[j] => i = j
  BY DEF Renumbers, Bijection, Injection, IsInjective
<1>2. ASSUME NEW i \in DOMAIN b, NEW j \in DOMAIN b
      PROVE  QueuedBefore(b, i, j) <=> QueuedBefore(c, m[i], m[j])
  <2>1. c[m[i]] = b[i] /\ c[m[j]] = b[j]
    BY <1>1
  <2>2. i \in Int /\ b[i].nonce \in Int
    BY DEF IsBuffer
  <2>3. CASE i = j
    <3>1. m[i] \in Int
      BY <1>1 DEF IsBuffer
    <3>2. ~ QueuedBefore(b, i, i)
      BY <2>2 DEF QueuedBefore
    <3>3. ~ QueuedBefore(c, m[i], m[i])
      BY <2>1, <2>2, <3>1 DEF QueuedBefore
    <3>4. QED
      BY <2>3, <3>2, <3>3
  <2>4. CASE i # j
    <3>1. b[i].market = b[j].market /\ b[i].submitter = b[j].submitter
            => b[i].nonce # b[j].nonce
      BY <2>4 DEF NoncesApart
    <3>2. QueuedBefore(b, i, j) <=>
            /\ b[i].market = b[j].market
            /\ b[i].submitter = b[j].submitter
            /\ b[i].nonce < b[j].nonce
      BY <3>1 DEF QueuedBefore
    <3>3. QueuedBefore(c, m[i], m[j]) <=>
            /\ b[i].market = b[j].market
            /\ b[i].submitter = b[j].submitter
            /\ b[i].nonce < b[j].nonce
      BY <2>1, <3>1 DEF QueuedBefore
    <3>4. QED
      BY <3>2, <3>3
  <2>5. QED
    BY <2>3, <2>4
<1>3. ASSUME NEW j \in rest
      PROVE  AtFront(b, rest, j) <=> AtFront(c, others, m[j])
  BY <1>2 DEF AtFront
<1>4. \A j \in rest : b[k].market =< b[j].market
  BY DEF PopsNext
<1>5. \A x \in others : c[m[k]].market =< c[x].market
  BY <1>1, <1>4
<1>6. AtFront(c, others, m[k])
  BY <1>3 DEF PopsNext
<1>7. ASSUME NEW x \in others \ {m[k]},
             c[x].market = c[m[k]].market, AtFront(c, others, x)
      PROVE  SortsAhead(c[m[k]], c[x])
  <2>1. PICK j \in rest : x = m[j]
    BY <1>7
  <2>2. j # k /\ b[j].market = b[k].market /\ AtFront(b, rest, j)
    BY <1>1, <1>3, <1>7, <2>1
  <2>3. SortsAhead(b[k], b[j])
    BY <2>1, <2>2 DEF PopsNext
  <2>4. c[m[k]] = b[k] /\ c[x] = b[j]
    BY <1>1, <2>1
  <2>5. QED
    BY <2>3, <2>4
<1>8. QED
  <2>1. PopsNext(c, others, m[k])
    BY <1>5, <1>6, <1>7 DEF PopsNext
  <2>2. QED
    BY <2>1 DEF Moved

\* What two buffers hold is the same, in whatever arrival order.
SameIntents(b, c) == {b[k] : k \in DOMAIN b} = {c[k] : k \in DOMAIN c}

\* The intents of b as arr orders them.
SlotOf(b, arr) == [k \in DOMAIN arr |-> b[arr[k]]]

\* "The slot is a pure function of the buffered set" (README.md:170-173), where
\* sequencer.rs:101-136 goes through a Vec in arrival order: two buffers with the
\* same intents, in whatever order they came, are committed in the same order.
THEOREM SlotIsOfTheSet ==
  ASSUME NEW b, IsBuffer(b), NoncesApart(b), NEW c, IsBuffer(c), SameIntents(b, c),
         NEW arr \in Arrangements(DOMAIN b), InPolicyOrder(arr, b),
         NEW other \in Arrangements(DOMAIN c), InPolicyOrder(other, c)
  PROVE  SlotOf(b, arr) = SlotOf(c, other)
<1> PICK m : m = [k \in DOMAIN b |-> CHOOSE j \in DOMAIN c : c[j] = b[k]]
  OBVIOUS
<1>1. \A k \in DOMAIN b : m[k] \in DOMAIN c /\ c[m[k]] = b[k]
  <2>1. \A k \in DOMAIN b : \E j \in DOMAIN c : c[j] = b[k]
    BY DEF SameIntents
  <2>2. QED
    BY <2>1
<1>2. Renumbers(m, b, c)
  <2>1. m \in [DOMAIN b -> DOMAIN c]
    BY <1>1
  <2>2. \A j, k \in DOMAIN b : m[j] = m[k] => j = k
    BY <1>1 DEF IsBuffer
  <2>3. ASSUME NEW j \in DOMAIN c
        PROVE  \E k \in DOMAIN b : m[k] = j
    <3>1. PICK k \in DOMAIN b : b[k] = c[j]
      BY DEF SameIntents
    <3>2. m[k] \in DOMAIN c /\ c[m[k]].id = c[j].id
      BY <1>1, <3>1
    <3>3. QED
      BY <3>2 DEF IsBuffer
  <2>4. QED
    BY <1>1, <2>1, <2>2, <2>3
       DEF Renumbers, Bijection, Injection, Surjection, IsInjective
<1> PICK n : n = Cardinality(DOMAIN b)
  OBVIOUS
<1>3. n = Cardinality(DOMAIN c)
  BY <1>2, FS_Bijection DEF Renumbers, ExistsBijection, IsBuffer
<1>4. /\ n \in Nat /\ DOMAIN arr = 1..n
      /\ \A k \in 1..n : arr[k] \in DOMAIN b
      /\ \A j, k \in 1..n : arr[j] = arr[k] => j = k
      /\ \A x \in DOMAIN b : \E k \in 1..n : arr[k] = x
  <2>1. IsFiniteSet(DOMAIN b)
    BY DEF IsBuffer
  <2>2. /\ DOMAIN arr = 1..n
        /\ n \in Nat
        /\ \A k \in DOMAIN arr : arr[k] \in DOMAIN b
        /\ \A j, k \in DOMAIN arr : arr[j] = arr[k] => j = k
        /\ \A x \in DOMAIN b : \E k \in DOMAIN arr : arr[k] = x
    BY <2>1, ArrangementOf
  <2>3. QED
    BY <2>2
<1> PICK renumbered : renumbered = [k \in 1..n |-> m[arr[k]]]
  OBVIOUS
<1>5. DOMAIN renumbered = 1..n /\ \A k \in 1..n : renumbered[k] = m[arr[k]]
  OBVIOUS
<1>6. renumbered \in Arrangements(DOMAIN c)
  <2>1. /\ \A k \in DOMAIN b : m[k] \in DOMAIN c
        /\ \A j, k \in DOMAIN b : m[j] = m[k] => j = k
        /\ \A x \in DOMAIN c : \E k \in DOMAIN b : m[k] = x
    BY <1>2 DEF Renumbers, Bijection, Injection, Surjection, IsInjective
  <2>2. renumbered \in [1..n -> DOMAIN c]
    BY <1>4, <2>1
  <2>3. \A j, k \in 1..n : renumbered[j] = renumbered[k] => j = k
    BY <1>4, <1>5, <2>1
  <2>4. ASSUME NEW x \in DOMAIN c
        PROVE  \E k \in 1..n : renumbered[k] = x
    <3>1. PICK y \in DOMAIN b : m[y] = x
      BY <2>1
    <3>2. PICK k \in 1..n : arr[k] = y
      BY <1>4
    <3>3. QED
      BY <1>5, <3>1, <3>2
  <2>5. QED
    BY <1>3, <2>2, <2>3, <2>4
       DEF Arrangements, Bijection, Injection, Surjection, IsInjective
<1>7. ASSUME NEW k \in 1..n
      PROVE  PopsNext(c, RestOf(renumbered, k), renumbered[k])
  <2> PICK rest : rest = RestOf(arr, k)
    OBVIOUS
  <2>1. rest \in SUBSET DOMAIN b /\ arr[k] \in rest
    BY <1>4 DEF RestOf
  <2>2. PopsNext(b, rest, arr[k])
    BY <1>4 DEF InPolicyOrder, RestOf
  <2> PICK others : others = {m[j] : j \in rest}
    OBVIOUS
  <2>3. RestOf(renumbered, k) = others
    <3>1. RestOf(renumbered, k) \subseteq others
      BY <1>4, <1>5 DEF RestOf
    <3>2. ASSUME NEW x \in others
          PROVE  x \in RestOf(renumbered, k)
      <4>1. PICK y \in rest : x = m[y]
        OBVIOUS
      <4>2. PICK l \in 1..n : l >= k /\ y = arr[l]
        BY <1>4 DEF RestOf
      <4>3. l \in DOMAIN renumbered /\ l >= k /\ x = renumbered[l]
        BY <1>5, <4>1, <4>2
      <4>4. QED
        BY <4>3 DEF RestOf
    <3>3. QED
      BY <3>1, <3>2
  <2> PICK x : x = arr[k]
    OBVIOUS
  <2>4. PopsNext(c, Moved(m, rest), m[x])
    <3>1. rest \in SUBSET DOMAIN b /\ x \in rest /\ PopsNext(b, rest, x)
      BY <2>1, <2>2
    <3>2. QED
      BY <1>2, <3>1, PopsAsBefore
  <2>5. QED
    BY <1>5, <2>3, <2>4 DEF Moved
<1>8. InPolicyOrder(renumbered, c)
  BY <1>5, <1>7 DEF InPolicyOrder, RestOf
<1>9. renumbered = other
  BY <1>6, <1>8, OneOrder
<1>10. ASSUME NEW k \in 1..n
       PROVE  c[other[k]] = b[arr[k]]
  <2>1. other[k] = m[arr[k]]
    BY <1>5, <1>9
  <2>2. arr[k] \in DOMAIN b
    BY <1>4
  <2>3. QED
    BY <1>1, <2>1, <2>2
<1>11. DOMAIN other = 1..n
  BY <1>5, <1>9
<1>12. QED
  BY <1>4, <1>10, <1>11 DEF SlotOf

\* place says where in arr each member of S stands.
Places(place, arr, S) ==
  /\ \A x \in S : place[x] \in DOMAIN arr /\ arr[place[x]] = x
  /\ \A k \in DOMAIN arr : arr[k] \in S /\ place[arr[k]] = k
  /\ DOMAIN arr \subseteq Int

LEMMA PlacesExist ==
  ASSUME NEW S, IsFiniteSet(S), NEW arr \in Arrangements(S)
  PROVE  \E place : Places(place, arr, S)
<1>1. /\ DOMAIN arr = 1..Cardinality(S)
      /\ Cardinality(S) \in Nat
      /\ \A k \in DOMAIN arr : arr[k] \in S
      /\ \A j, k \in DOMAIN arr : arr[j] = arr[k] => j = k
      /\ \A x \in S : \E k \in DOMAIN arr : arr[k] = x
  BY ArrangementOf
<1> PICK place : place = [x \in S |-> CHOOSE k \in DOMAIN arr : arr[k] = x]
  OBVIOUS
<1>2. \A x \in S : place[x] \in DOMAIN arr /\ arr[place[x]] = x
  BY <1>1
<1>3. \A k \in DOMAIN arr : arr[k] \in S /\ place[arr[k]] = k
  BY <1>1, <1>2
<1>4. DOMAIN arr \subseteq Int
  BY <1>1
<1>5. QED
  BY <1>2, <1>3, <1>4 DEF Places

\* From its place on: what has no smaller place.
LEMMA RestByPlace ==
  ASSUME NEW S, NEW arr, NEW place, Places(place, arr, S), NEW k \in DOMAIN arr
  PROVE  RestOf(arr, k) = {y \in S : place[y] >= k}
<1>1. RestOf(arr, k) \subseteq {y \in S : place[y] >= k}
  BY DEF RestOf, Places
<1>2. ASSUME NEW y \in S, place[y] >= k
      PROVE  y \in RestOf(arr, k)
  <2>1. place[y] \in DOMAIN arr /\ y = arr[place[y]]
    BY DEF Places
  <2>2. QED
    BY <1>2, <2>1 DEF RestOf
<1>3. QED
  BY <1>1, <1>2

\* What pops of all markets' queues pops of its own market's.
LEMMA PopsOfItsMarket ==
  ASSUME NEW b, NEW c, NEW m, c = MarketOf(b, m),
         NEW rest \in SUBSET DOMAIN b, NEW own, own = rest \cap DOMAIN c,
         NEW k \in own, PopsNext(b, rest, k)
  PROVE  PopsNext(c, own, k)
<1>1. \A j \in DOMAIN c : j \in DOMAIN b /\ c[j] = b[j] /\ c[j].market = m
  BY DEF MarketOf
<1>2. \A i \in DOMAIN b : b[i].market = m => i \in DOMAIN c
  BY DEF MarketOf
<1>3. own \subseteq DOMAIN c /\ own \subseteq rest
  OBVIOUS
<1>4. ASSUME NEW j \in own
      PROVE  AtFront(c, own, j) <=> AtFront(b, rest, j)
  <2>1. ASSUME NEW i \in own
        PROVE  QueuedBefore(c, i, j) <=> QueuedBefore(b, i, j)
    BY <1>1, <1>3 DEF QueuedBefore
  <2>2. ASSUME NEW i \in rest, QueuedBefore(b, i, j)
        PROVE  i \in own
    <3>1. b[i].market = m
      BY <1>1, <1>3, <2>2 DEF QueuedBefore
    <3>2. QED
      BY <1>2, <3>1
  <2>3. QED
    BY <1>3, <2>1, <2>2 DEF AtFront
<1>5. \A j \in own : c[k].market = c[j].market
  BY <1>1, <1>3
<1>6. c[k].market \in Int => \A j \in own : c[k].market =< c[j].market
  BY <1>5
<1>7. QED
  BY <1>1, <1>3, <1>4, <1>5, <1>6 DEF PopsNext

\* Of a market's intents left, the policy takes the one first that stands first
\* in the order of all markets.
LEMMA MarketKeepsOrder ==
  ASSUME NEW b, IsBuffer(b), NEW m, NEW c, c = MarketOf(b, m),
         NEW arr \in Arrangements(DOMAIN b), InPolicyOrder(arr, b),
         NEW other \in Arrangements(DOMAIN c), InPolicyOrder(other, c),
         NEW place, Places(place, arr, DOMAIN b),
         NEW k \in DOMAIN other, NEW l \in DOMAIN other, k < l
  PROVE  place[other[k]] < place[other[l]]
<1>1. /\ IsBuffer(c) /\ IsFiniteSet(DOMAIN c)
      /\ DOMAIN c \subseteq DOMAIN b
      /\ \A j \in DOMAIN c : b[j].market = m
  <2>1. DOMAIN c \subseteq DOMAIN b /\ \A j \in DOMAIN c : c[j] = b[j] /\ b[j].market = m
    BY DEF MarketOf
  <2>2. IsFiniteSet(DOMAIN c)
    BY <2>1, FS_Subset DEF IsBuffer
  <2>3. QED
    BY <2>1, <2>2 DEF IsBuffer
<1> PICK n : n = Cardinality(DOMAIN c)
  OBVIOUS
<1>2. /\ n \in Nat /\ DOMAIN other = 1..n
      /\ \A j \in 1..n : other[j] \in DOMAIN c
      /\ \A i, j \in 1..n : other[i] = other[j] => i = j
      /\ \A x \in DOMAIN c : \E j \in 1..n : other[j] = x
  <2>1. /\ DOMAIN other = 1..n
        /\ n \in Nat
        /\ \A j \in DOMAIN other : other[j] \in DOMAIN c
        /\ \A i, j \in DOMAIN other : other[i] = other[j] => i = j
        /\ \A x \in DOMAIN c : \E j \in DOMAIN other : other[j] = x
    BY <1>1, ArrangementOf
  <2>2. QED
    BY <2>1
<1>3. \A x \in DOMAIN c : place[x] \in Int /\ place[x] \in DOMAIN arr /\ arr[place[x]] = x
  BY <1>1 DEF Places
<1> DEFINE First(j) == \A i \in 1..n : i > j => place[other[j]] < place[other[i]]
           Bad == {j \in 1..n : ~ First(j)}
<1>4. SUFFICES ASSUME Bad # {} PROVE FALSE
  BY <1>2
<1>5. PICK j \in Bad : \A i \in Bad : <<i, j>> \notin OpToRel(<, Nat)
  <2>1. Bad \subseteq Nat
    OBVIOUS
  <2> HIDE DEF Bad
  <2>2. QED
    BY <1>4, <2>1, NatLessThanWellFounded, WFMin
<1>6. j \in 1..n /\ ~ First(j)
  OBVIOUS
<1>7. \A i \in 1..n : i < j => First(i)
  <2>1. \A i \in Bad : ~ (i \in Nat /\ j \in Nat /\ i < j)
    BY <1>5 DEF OpToRel
  <2>2. \A i \in 1..n : i \in Nat
    OBVIOUS
  <2> HIDE DEF First
  <2>3. QED
    BY <1>6, <2>1, <2>2
<1> PICK own : own = RestOf(other, j)
  OBVIOUS
<1>8. /\ own \subseteq DOMAIN c
      /\ other[j] \in own
      /\ \A y \in own : \E i \in 1..n : i >= j /\ y = other[i]
      /\ \A i \in 1..n : i >= j => other[i] \in own
  BY <1>2, <1>6 DEF RestOf
<1>9. PICK x \in own : \A y \in own : place[x] =< place[y]
  <2>1. IsFiniteSet(own)
    BY <1>1, <1>8, FS_Subset
  <2>2. own # {} /\ \A y \in own : place[y] \in Int
    BY <1>3, <1>8
  <2>3. QED
    BY <2>1, <2>2, SmallestBy
<1>10. x \in DOMAIN c /\ place[x] \in DOMAIN arr /\ arr[place[x]] = x
  BY <1>3, <1>8
<1> PICK rest : rest = RestOf(arr, place[x])
  OBVIOUS
<1>11. rest = {y \in DOMAIN b : place[y] >= place[x]}
  BY <1>10, RestByPlace
<1>12. own = rest \cap DOMAIN c
  <2>1. own \subseteq rest \cap DOMAIN c
    <3>1. \A y \in own : y \in DOMAIN c /\ y \in DOMAIN b /\ place[y] >= place[x]
      BY <1>1, <1>3, <1>8, <1>9
    <3>2. QED
      BY <1>11, <3>1
  <2>2. ASSUME NEW y \in DOMAIN c, y \in rest, y \notin own
        PROVE  FALSE
    <3>1. PICK i \in 1..n : other[i] = y
      BY <1>2
    <3>2. i < j
      BY <1>6, <1>8, <2>2, <3>1
    <3>3. PICK h \in 1..n : h >= j /\ x = other[h]
      BY <1>8
    <3>4. i < h
      BY <1>6, <3>2, <3>3
    <3>5. place[other[i]] < place[other[h]]
      BY <1>7, <3>2, <3>4
    <3>6. place[y] < place[x]
      BY <3>1, <3>3, <3>5
    <3>7. place[y] >= place[x]
      BY <1>11, <2>2
    <3>8. place[x] \in Int /\ place[y] \in Int
      BY <1>3, <1>10
    <3>9. QED
      BY <3>6, <3>7, <3>8
  <2>3. QED
    BY <2>1, <2>2
<1>13. PopsNext(b, rest, x)
  BY <1>10 DEF InPolicyOrder, RestOf
<1>14. rest \in SUBSET DOMAIN b
  BY <1>11
<1>15. PopsNext(c, own, x)
  BY <1>12, <1>13, <1>14, PopsOfItsMarket
<1>16. PopsNext(c, own, other[j])
  BY <1>2, <1>6 DEF InPolicyOrder, RestOf
<1>17. x = other[j]
  BY <1>1, <1>8, <1>15, <1>16, OnePops
<1>18. First(j)
  <2>1. ASSUME NEW i \in 1..n, i > j
        PROVE  place[other[j]] < place[other[i]]
    <3>1. other[i] \in own /\ other[i] # x
      BY <1>2, <1>6, <1>8, <1>17, <2>1
    <3>2. place[x] =< place[other[i]]
      BY <1>9, <3>1
    <3>3. place[x] # place[other[i]]
      BY <1>3, <1>8, <1>10, <3>1
    <3>4. place[x] \in Int /\ place[other[i]] \in Int
      BY <1>3, <1>8, <1>10, <3>1
    <3>5. QED
      BY <1>17, <3>2, <3>3, <3>4
  <2>2. QED
    BY <2>1
<1>19. QED
  BY <1>6, <1>18

\* Markets are ordering domains of their own (README.md:152-153): what is
\* buffered for other markets does not change which of two intents of a market
\* comes first (sequencer.rs:101-136).
THEOREM MarketsApart ==
  ASSUME NEW b, IsBuffer(b), NEW m, NEW c, c = MarketOf(b, m),
         NEW arr \in Arrangements(DOMAIN b), InPolicyOrder(arr, b),
         NEW other \in Arrangements(DOMAIN c), InPolicyOrder(other, c),
         NEW i \in DOMAIN arr, NEW j \in DOMAIN arr,
         NEW k \in DOMAIN other, NEW l \in DOMAIN other,
         arr[i] = other[k], arr[j] = other[l]
  PROVE  i < j <=> k < l
<1>1. DOMAIN c \subseteq DOMAIN b /\ IsFiniteSet(DOMAIN c) /\ IsFiniteSet(DOMAIN b)
  <2>1. DOMAIN c \subseteq DOMAIN b
    BY DEF MarketOf
  <2>2. QED
    BY <2>1, FS_Subset DEF IsBuffer
<1>2. PICK place : Places(place, arr, DOMAIN b)
  BY <1>1, PlacesExist
<1>3. place[other[k]] = i /\ place[other[l]] = j /\ i \in Int /\ j \in Int
  BY <1>2 DEF Places
<1>4. k \in Int /\ l \in Int
  <2>1. DOMAIN other = 1..Cardinality(DOMAIN c)
    BY <1>1, ArrangementOf
  <2>2. QED
    BY <2>1
<1>5. k < l => i < j
  BY <1>2, <1>3, MarketKeepsOrder
<1>6. l < k => j < i
  BY <1>2, <1>3, MarketKeepsOrder
<1>7. k = l => i = j
  BY <1>3
<1>8. QED
  BY <1>3, <1>4, <1>5, <1>6, <1>7

\* What the sequencer orders when it commits.
Held == [p \in live |-> Pending(p)]

\* There is one way to order it.
OneSlotToCommit ==
  \E arr \in Arrangements(live) :
    /\ InPolicyOrder(arr, Held)
    /\ \A other \in Arrangements(live) : InPolicyOrder(other, Held) => other = arr

\* The gate lets no id and no nonce in twice.
LEMMA HeldIsABuffer ==
  ASSUME TypeOK, NoncesAdvance
  PROVE  IsBuffer(Held) /\ NoncesApart(Held) /\ DOMAIN Held = live
<1>1. /\ live \subseteq Received(log)
      /\ live \subseteq 1..Len(log) /\ Len(log) \in Nat
      /\ \A p \in live : log[p].intent \in Intents /\ log[p].received_at \in Nat
  BY EntryFields DEF TypeOK
<1>2. DOMAIN Held = live /\ live \subseteq Int /\ IsFiniteSet(live)
  <2>1. IsFiniteSet(1..Len(log))
    BY <1>1, FS_Interval
  <2>2. IsFiniteSet(live)
    BY <1>1, <2>1, FS_Subset
  <2>3. QED
    BY <1>1, <2>2 DEF Held
<1>3. \A p \in live :
        /\ Held[p].market = log[p].intent.market
        /\ Held[p].submitter = log[p].intent.submitter
        /\ Held[p].nonce = log[p].intent.nonce
        /\ Held[p].priority_fee = log[p].intent.priority_fee
        /\ Held[p].received_at = log[p].received_at
        /\ Held[p].id = log[p].intent.id
  BY DEF Held, Pending
<1>4. \A p \in live :
        /\ Held[p].market \in Int /\ Held[p].nonce \in Int
        /\ Held[p].priority_fee \in Int
        /\ Held[p].received_at \in Int /\ Held[p].id \in Int
  BY <1>1, <1>3, IntentsAssumption
<1>5. \A p, q \in live : Held[p].id = Held[q].id => p = q
  BY <1>1, <1>3, OneArrival
<1>6. ASSUME NEW p \in live, NEW q \in live,
             Held[p].submitter = Held[q].submitter, Held[p].nonce = Held[q].nonce
      PROVE  p = q
  <2>1. log[p].intent.nonce = log[q].intent.nonce /\ log[p].intent.nonce \in Int
    BY <1>3, <1>4, <1>6
  <2>2. ~ (p < q) /\ ~ (q < p)
    BY <1>1, <1>3, <1>6, <2>1 DEF NoncesAdvance
  <2>3. QED
    BY <1>2, <2>2
<1>7. QED
  BY <1>2, <1>4, <1>5, <1>6 DEF IsBuffer, NoncesApart

\* When the boundary ticks (sequencer.rs:205-235), the policy leaves no choice and
\* never nothing to choose: whatever is held, exactly one order of it can be
\* committed.
THEOREM SlotIsDetermined == Spec => []OneSlotToCommit
<1>1. ASSUME TypeOK, NoncesAdvance PROVE OneSlotToCommit
  <2>1. IsBuffer(Held) /\ DOMAIN Held = live
    BY <1>1, HeldIsABuffer
  <2>2. PICK arr \in Arrangements(live) : InPolicyOrder(arr, Held)
    BY <2>1, OrderExists
  <2>3. \A other \in Arrangements(live) : InPolicyOrder(other, Held) => other = arr
    BY <2>1, <2>2, OneOrder
  <2>4. QED
    BY <2>2, <2>3 DEF OneSlotToCommit
<1>2. QED
  BY <1>1, TypeCorrect, GateCorrect, PTL

-----------------------------------------------------------------------------
(* The loop of order_slot (OrderSlot) follows the policy.                  *)

\* k goes before j: the order InKeyOrder puts them in.
KeyedBefore(key, j, k) == key[j] < key[k] \/ (key[j] = key[k] /\ j < k)

\* One more in front keeps an arrangement sorted if it goes before the others.
LEMMA SortedInFront ==
  ASSUME NEW S, IsFiniteSet(S), NEW k, k \notin S, NEW key,
         \A x \in S : KeyedBefore(key, k, x),
         NEW arr \in Arrangements(S), InKeyOrder(arr, key)
  PROVE  \E longer \in Arrangements(S \cup {k}) : InKeyOrder(longer, key)
<1> PICK n : n = Cardinality(S)
  OBVIOUS
<1> PICK T : T = S \cup {k}
  OBVIOUS
<1>1. n \in Nat /\ Cardinality(T) = n + 1
  BY FS_AddElement, FS_CardinalityType
<1>2. Lists(arr, n, S)
  BY DEF Arrangements, Bijection, Injection, Surjection, IsInjective, Lists
<1>3. PICK longer : InFront(longer, k, arr, n)
  BY <1>1, FrontExists
<1>4. /\ Lists(longer, n + 1, S \cup {k})
      /\ GoesOnAs(longer, arr, n)
  <2>1. n \in Nat
    BY <1>1
  <2>2. QED
    BY <1>2, <1>3, <2>1, ListedInFront
<1>5. longer \in Arrangements(T)
  BY <1>1, <1>4
     DEF Arrangements, Bijection, Injection, Surjection, IsInjective, Lists
<1>6. ASSUME NEW i \in 1..(n + 1), NEW j \in 1..(n + 1), i < j
      PROVE  KeyedBefore(key, longer[i], longer[j])
  <2>1. /\ j # 1 /\ j - 1 \in 1..n /\ longer[j] = arr[j - 1]
        /\ \A l \in 1..n : arr[l] \in S
        /\ DOMAIN arr = 1..n
    BY <1>1, <1>2, <1>4, <1>6 DEF Lists, GoesOnAs
  <2>2. CASE i = 1
    BY <1>3, <2>1, <2>2 DEF InFront
  <2>3. CASE i # 1
    <3>1. i - 1 \in 1..n /\ longer[i] = arr[i - 1] /\ i - 1 < j - 1
      BY <1>1, <1>4, <1>6, <2>3 DEF GoesOnAs
    <3>2. QED
      BY <2>1, <3>1 DEF InKeyOrder, KeyedBefore
  <2>4. QED
    BY <2>2, <2>3
<1>7. DOMAIN longer = 1..(n + 1)
  BY <1>4 DEF Lists
<1>8. InKeyOrder(longer, key)
  BY <1>6, <1>7 DEF InKeyOrder, KeyedBefore
<1>9. QED
  BY <1>5, <1>8

\* sort_by_key sorts: a smallest set without a sorted arrangement would, less the
\* one that goes first, have one.
LEMMA SortExists ==
  ASSUME NEW S, IsFiniteSet(S), S \subseteq Int, NEW key, \A x \in S : key[x] \in Int
  PROVE  /\ sort_by_key(S, key) \in Arrangements(S)
         /\ InKeyOrder(sort_by_key(S, key), key)
<1> DEFINE Sortable(T) == \E arr \in Arrangements(T) : InKeyOrder(arr, key)
           Bad == {T \in SUBSET S : ~ Sortable(T)}
<1>1. Bad \subseteq FiniteSubsetsOf(S)
  BY FS_FiniteSubsetsOfFinite
<1>2. SUFFICES ASSUME Bad # {} PROVE FALSE
  <2>1. SUFFICES ASSUME Sortable(S) PROVE
          /\ sort_by_key(S, key) \in Arrangements(S)
          /\ InKeyOrder(sort_by_key(S, key), key)
    BY Zenon
  <2>2. QED
    BY <2>1, Zenon DEF sort_by_key
<1>3. IsWellFoundedOn(StrictSubsetOrdering(S), FiniteSubsetsOf(S))
  BY FS_StrictSubsetOrderingWellFounded
<1>4. PICK T \in Bad : \A U \in Bad : <<U, T>> \notin StrictSubsetOrdering(S)
  <2> HIDE DEF Bad
  <2>1. QED
    BY <1>1, <1>2, <1>3, WFMin
<1>5. T \in SUBSET S /\ ~ Sortable(T)
  BY <1>4, Zenon
<1>6. IsFiniteSet(T)
  BY <1>5, FS_Subset
<1>7. CASE T = {}
  <2>1. Cardinality(T) = 0
    BY <1>7, FS_EmptySet
  <2>2. <<>> \in [1..0 -> {}] /\ DOMAIN <<>> = {} /\ 1..0 = {}
    OBVIOUS
  <2>3. <<>> \in Arrangements(T)
    BY <1>7, <2>1, <2>2
       DEF Arrangements, Bijection, Injection, Surjection, IsInjective
  <2>4. InKeyOrder(<<>>, key)
    BY <2>2 DEF InKeyOrder
  <2>5. Sortable(T)
    BY <2>3, <2>4, Zenon
  <2>6. QED
    BY <1>5, <2>5
<1>8. CASE T # {}
  <2>1. PICK k \in T : \A x \in T \ {k} : KeyedBefore(key, k, x)
    <3> DEFINE Less == {pair \in T \X T : KeyedBefore(key, pair[1], pair[2])}
    <3>1. \A x, y \in T : <<x, y>> \in Less <=> KeyedBefore(key, x, y)
      BY Zenon
    <3>2. \A x \in T : x \in Int /\ key[x] \in Int
      BY <1>5
    <3> HIDE DEF Less
    <3>3. \A x \in T : <<x, x>> \notin Less
      BY <3>1, <3>2 DEF KeyedBefore
    <3>4. \A x, y, z \in T : <<x, y>> \in Less /\ <<y, z>> \in Less => <<x, z>> \in Less
      BY <3>1, <3>2 DEF KeyedBefore
    <3>5. PICK k \in T : \A x \in T : <<x, k>> \notin Less
      BY <1>6, <1>8, <3>3, <3>4, FirstExists
    <3>6. ASSUME NEW x \in T \ {k}
          PROVE  KeyedBefore(key, k, x)
      <4>1. ~ KeyedBefore(key, x, k)
        BY <3>1, <3>5
      <4>2. x \in Int /\ k \in Int /\ key[x] \in Int /\ key[k] \in Int /\ x # k
        BY <3>2
      <4>3. QED
        BY <4>1, <4>2 DEF KeyedBefore
    <3>7. QED
      BY <3>6
  <2>2. <<T \ {k}, T>> \in StrictSubsetOrdering(S)
    BY <1>5, <2>1 DEF StrictSubsetOrdering
  <2>3. T \ {k} \notin Bad
    BY <1>4, <2>2, Zenon
  <2>4. T \ {k} \in SUBSET S
    BY <1>5
  <2>5. Sortable(T \ {k})
    BY <2>3, <2>4, Zenon
  <2>6. PICK arr \in Arrangements(T \ {k}) : InKeyOrder(arr, key)
    BY <2>5, Zenon
  <2>7. Sortable(T)
    <3>1. PICK S2 : S2 = T \ {k}
      OBVIOUS
    <3>2. IsFiniteSet(S2) /\ T = S2 \cup {k} /\ k \notin S2
      BY <1>6, <2>1, <3>1, FS_RemoveElement
    <3>3. \E longer \in Arrangements(S2 \cup {k}) : InKeyOrder(longer, key)
      BY <2>1, <2>6, <3>1, <3>2, SortedInFront
    <3>4. QED
      BY <3>2, <3>3, Zenon
  <2>8. QED
    BY <1>5, <2>7
<1>9. QED
  BY <1>7, <1>8

\* The queue of one submitter stays in this order (sequencer.rs:117-119).
EarlierNonce(b, j, k) == b[j].nonce < b[k].nonce \/ (b[j].nonce = b[k].nonce /\ j < k)

\* q holds the places in T, in nonce order.
IsQueue(b, q, T) ==
  /\ q \in Seq(T)
  /\ \A i, j \in 1..Len(q) : i < j => EarlierNonce(b, q[i], q[j])
  /\ \A x \in T : \E i \in 1..Len(q) : q[i] = x

Theirs(b, rest, a) == {k \in rest : b[k].submitter = a}

\* The queues hold what rest is to come, each submitter's in its own.
QueuesHold(b, queues, rest) ==
  /\ \A k \in rest : b[k].submitter \in DOMAIN queues
  /\ \A a \in DOMAIN queues : IsQueue(b, queues[a], Theirs(b, rest, a))

\* The front of a queue is its earliest nonce, and popping it leaves a queue.
LEMMA QueueFront ==
  ASSUME NEW b, NEW T, T \subseteq Int, \A x \in T : b[x].nonce \in Int,
         NEW q, IsQueue(b, q, T), q # <<>>
  PROVE  /\ Head(q) \in T
         /\ \A x \in T \ {Head(q)} : EarlierNonce(b, Head(q), x)
         /\ IsQueue(b, Tail(q), T \ {Head(q)})
<1> PICK h : h = Head(q)
  OBVIOUS
<1> PICK n : n = Len(q)
  OBVIOUS
<1>1. /\ n \in Nat /\ n >= 1 /\ 1 \in 1..n
      /\ h = q[1]
      /\ \A i \in 1..n : q[i] \in T
  BY DEF IsQueue
<1>2. h \in T
  BY <1>1
<1>3. \A i, j \in 1..n : i < j => EarlierNonce(b, q[i], q[j])
  BY DEF IsQueue
<1>4. ASSUME NEW x \in T \ {h} PROVE EarlierNonce(b, h, x)
  <2>1. PICK i \in 1..n : q[i] = x
    BY DEF IsQueue
  <2>2. 1 < i
    BY <1>1, <2>1
  <2>3. QED
    BY <1>1, <1>3, <2>1, <2>2
<1>5. \A x, y \in T : EarlierNonce(b, x, y) => x # y
  BY DEF EarlierNonce
<1>6. /\ Len(Tail(q)) = n - 1
      /\ \A i \in 1..(n - 1) : Tail(q)[i] = q[i + 1] /\ i + 1 \in 1..n /\ 1 < i + 1
      /\ Tail(q) \in Seq(T)
  BY <1>1 DEF IsQueue
<1> PICK tail : tail = Tail(q)
  OBVIOUS
<1> PICK U : U = T \ {h}
  OBVIOUS
<1>7. \A i \in 1..(n - 1) : tail[i] \in U
  BY <1>1, <1>2, <1>3, <1>5, <1>6
<1>8. tail \in Seq(U)
  <2>1. tail \in Seq(T) /\ Len(tail) = n - 1
    BY <1>6
  <2>2. tail \in [1..Len(tail) -> T]
    BY <2>1, LenProperties
  <2>3. tail \in [1..Len(tail) -> U]
    BY <1>7, <2>1, <2>2
  <2>4. Len(tail) \in Nat
    BY <2>1, LenProperties
  <2>5. QED
    <3>1. \E c \in Nat : tail \in [1..c -> U]
      BY <2>3, <2>4
    <3>2. QED
      BY <3>1, SeqDef
<1>9. \A i, j \in 1..(n - 1) : i < j => EarlierNonce(b, tail[i], tail[j])
  BY <1>1, <1>3, <1>6
<1>10. ASSUME NEW x \in U PROVE \E i \in 1..(n - 1) : tail[i] = x
  <2>1. PICK i \in 1..n : q[i] = x
    BY DEF IsQueue
  <2>2. i - 1 \in 1..(n - 1) /\ (i - 1) + 1 = i
    BY <1>1, <2>1
  <2>3. tail[i - 1] = x
    BY <1>6, <2>1, <2>2
  <2>4. QED
    BY <2>2, <2>3
<1>11. IsQueue(b, tail, U)
  BY <1>6, <1>8, <1>9, <1>10 DEF IsQueue
<1>12. QED
  BY <1>2, <1>4, <1>11

\* The list arr has each of the n members of S once.
HasEach(S, n, arr) ==
  /\ n \in Nat /\ arr \in Seq(S) /\ Len(arr) = n
  /\ \A k \in 1..n : arr[k] \in S
  /\ \A j, k \in 1..n : arr[j] = arr[k] => j = k
  /\ \A x \in S : \E k \in 1..n : arr[k] = x

\* An arrangement is such a list.
LEMMA ArrangedHasEach ==
  ASSUME NEW S, IsFiniteSet(S), NEW arr \in Arrangements(S)
  PROVE  HasEach(S, Cardinality(S), arr)
<1> PICK n : n = Cardinality(S)
  OBVIOUS
<1>1. /\ DOMAIN arr = 1..n /\ n \in Nat
      /\ \A k \in DOMAIN arr : arr[k] \in S
      /\ \A j, k \in DOMAIN arr : arr[j] = arr[k] => j = k
      /\ \A x \in S : \E k \in DOMAIN arr : arr[k] = x
  BY ArrangementOf
<1>2. arr \in [1..n -> S]
  BY DEF Arrangements, Bijection, Injection
<1>3. arr \in Seq(S)
  BY <1>1, <1>2, SeqDef
<1>4. Len(arr) = n
  BY <1>1, <1>3
<1>5. HasEach(S, n, arr)
  BY <1>1, <1>3, <1>4 DEF HasEach
<1>6. QED
  BY <1>5

\* What the sort leaves is a queue.
LEMMA SortedIsQueue ==
  ASSUME NEW b, NEW T, IsFiniteSet(T), T \subseteq Int,
         NEW key, \A x \in T : key[x] = b[x].nonce /\ key[x] \in Int
  PROVE  IsQueue(b, sort_by_key(T, key), T)
<1> PICK q : q = sort_by_key(T, key)
  OBVIOUS
<1>1. q \in Arrangements(T) /\ InKeyOrder(q, key)
  BY SortExists
<1>2. HasEach(T, Cardinality(T), q)
  BY <1>1, ArrangedHasEach
<1>3. DOMAIN q = 1..Len(q) /\ \A i \in DOMAIN q : q[i] \in T
  BY <1>2 DEF HasEach
<1>4. ASSUME NEW i \in DOMAIN q, NEW j \in DOMAIN q, i < j
      PROVE  EarlierNonce(b, q[i], q[j])
  <2>1. key[q[i]] < key[q[j]] \/ (key[q[i]] = key[q[j]] /\ q[i] < q[j])
    BY <1>1, <1>4 DEF InKeyOrder
  <2>2. key[q[i]] = b[q[i]].nonce /\ key[q[j]] = b[q[j]].nonce
    BY <1>3
  <2>3. QED
    BY <2>1, <2>2 DEF EarlierNonce
<1>5. QED
  BY <1>2, <1>3, <1>4 DEF IsQueue, HasEach

\* The queues hold the whole domain before the first turn (sequencer.rs:110-119).
LEMMA QueuesStart ==
  ASSUME NEW b, IsBuffer(b), NEW S \in SUBSET DOMAIN b
  PROVE  QueuesHold(b, QueuesOf(b, S), S)
<1>1. /\ S \subseteq Int /\ IsFiniteSet(S)
      /\ \A k \in S : b[k].nonce \in Int
  BY FS_Subset DEF IsBuffer
<1> PICK key : key = [k \in S |-> b[k].nonce]
  OBVIOUS
<1> PICK queues : queues = QueuesOf(b, S)
  OBVIOUS
<1>2. /\ DOMAIN queues = {b[k].submitter : k \in S}
      /\ \A a \in DOMAIN queues : queues[a] = sort_by_key(Theirs(b, S, a), key)
  BY DEF QueuesOf, Theirs
<1>3. ASSUME NEW a \in DOMAIN queues
      PROVE  IsQueue(b, queues[a], Theirs(b, S, a))
  <2> PICK T : T = Theirs(b, S, a)
    OBVIOUS
  <2>1. T \subseteq S
    BY DEF Theirs
  <2>2. IsFiniteSet(T) /\ T \subseteq Int
    BY <1>1, <2>1, FS_Subset
  <2>3. \A x \in T : key[x] = b[x].nonce /\ key[x] \in Int
    BY <1>1, <2>1
  <2>4. IsQueue(b, sort_by_key(T, key), T)
    BY <2>2, <2>3, SortedIsQueue
  <2>5. QED
    BY <1>2, <2>4
<1>4. QED
  BY <1>2, <1>3 DEF QueuesHold

\* One domain: the buffered intents of one market.
OneMarket(b, S) == \A j, k \in S : b[j].market = b[k].market

\* The head of a submitter's queue is the one of its intents with none queued
\* before it.
LEMMA HeadsAreFronts ==
  ASSUME NEW b, IsBuffer(b), NEW rest \in SUBSET DOMAIN b, OneMarket(b, rest),
         NEW queues, QueuesHold(b, queues, rest),
         NEW a \in DOMAIN queues, queues[a] # <<>>
  PROVE  /\ Head(queues[a]) \in rest
         /\ b[Head(queues[a])].submitter = a
         /\ AtFront(b, rest, Head(queues[a]))
         /\ \A k \in rest :
              b[k].submitter = a /\ AtFront(b, rest, k) => k = Head(queues[a])
<1> PICK T : T = Theirs(b, rest, a)
  OBVIOUS
<1> PICK h : h = Head(queues[a])
  OBVIOUS
<1>1. /\ T \subseteq Int
      /\ \A x \in T : x \in rest /\ b[x].nonce \in Int /\ b[x].submitter = a
      /\ \A x \in rest : b[x].submitter = a => x \in T
  BY DEF Theirs, IsBuffer
<1>2. h \in T /\ \A x \in T \ {h} : EarlierNonce(b, h, x)
  <2>1. IsQueue(b, queues[a], T)
    BY DEF QueuesHold
  <2>2. QED
    BY <1>1, <2>1, QueueFront
<1>3. ASSUME NEW j \in rest, QueuedBefore(b, j, h) PROVE FALSE
  <2>1. j \in T
    BY <1>1, <1>2, <1>3 DEF QueuedBefore
  <2>2. j = h \/ EarlierNonce(b, h, j)
    BY <1>2, <2>1
  <2>3. j \in Int /\ h \in Int /\ b[j].nonce \in Int /\ b[h].nonce \in Int
    BY <1>1, <1>2, <2>1
  <2>4. QED
    BY <1>3, <2>2, <2>3 DEF QueuedBefore, EarlierNonce
<1>4. ASSUME NEW k \in rest, b[k].submitter = a, AtFront(b, rest, k), k # h
      PROVE  FALSE
  <2>1. k \in T /\ h \in rest /\ b[h].submitter = a
    BY <1>1, <1>2, <1>4
  <2>2. EarlierNonce(b, h, k)
    BY <1>2, <1>4, <2>1
  <2>3. QueuedBefore(b, h, k)
    BY <1>4, <2>1, <2>2 DEF QueuedBefore, EarlierNonce, OneMarket
  <2>4. QED
    BY <1>4, <2>1, <2>3 DEF AtFront
<1>5. QED
  BY <1>1, <1>2, <1>3, <1>4 DEF AtFront

\* The winning head is the intent the policy takes next.
LEMMA WinnerPops ==
  ASSUME NEW b, IsBuffer(b), NEW rest \in SUBSET DOMAIN b, OneMarket(b, rest),
         rest # {}, NEW queues, QueuesHold(b, queues, rest)
  PROVE  LET a == WinningHead(b, queues)
         IN  /\ a \in DOMAIN queues /\ queues[a] # <<>>
             /\ PopsNext(b, rest, Head(queues[a]))
<1> PICK heads : heads = {a \in DOMAIN queues : queues[a] # <<>>}
  OBVIOUS
<1>1. PICK k \in rest : PopsNext(b, rest, k)
  BY SomePops
<1> PICK w : w = b[k].submitter
  OBVIOUS
<1>2. w \in heads /\ Head(queues[w]) = k
  <2>1. w \in DOMAIN queues /\ IsQueue(b, queues[w], Theirs(b, rest, w))
    BY DEF QueuesHold
  <2>2. k \in Theirs(b, rest, w)
    BY DEF Theirs
  <2>3. queues[w] # <<>>
    BY <2>1, <2>2 DEF IsQueue
  <2>4. AtFront(b, rest, k)
    BY <1>1 DEF PopsNext
  <2>5. k = Head(queues[w])
    BY <2>1, <2>3, <2>4, HeadsAreFronts
  <2>6. QED
    BY <2>1, <2>3, <2>5
<1>3. ASSUME NEW a \in heads \ {w}
      PROVE  SortsAhead(b[k], b[Head(queues[a])])
  <2> PICK h : h = Head(queues[a])
    OBVIOUS
  <2>1. h \in rest /\ b[h].submitter = a /\ AtFront(b, rest, h)
    BY HeadsAreFronts
  <2>2. h # k
    BY <2>1
  <2>3. b[h].market = b[k].market
    BY <2>1 DEF OneMarket
  <2>4. QED
    BY <1>1, <2>1, <2>2, <2>3 DEF PopsNext
<1>4. \A a \in heads \ {w} : Beats(b, queues, w, a)
  BY <1>2, <1>3 DEF Beats
<1> PICK a : a = WinningHead(b, queues)
  OBVIOUS
<1>5. a \in heads /\ \A c \in heads \ {a} : Beats(b, queues, a, c)
  <2>1. \E c \in heads : \A d \in heads \ {c} : Beats(b, queues, c, d)
    BY <1>2, <1>4
  <2>2. a = CHOOSE c \in heads : \A d \in heads \ {c} : Beats(b, queues, c, d)
    BY DEF WinningHead
  <2>3. QED
    BY <2>1, <2>2, Zenon
<1>6. a = w
  <2>1. SUFFICES ASSUME a # w PROVE FALSE
    OBVIOUS
  <2> PICK h : h = Head(queues[a])
    OBVIOUS
  <2>2. SortsAhead(b[k], b[h])
    BY <1>3, <1>5, <2>1
  <2>3. Beats(b, queues, a, w)
    BY <1>2, <1>5, <2>1
  <2>4. SortsAhead(b[h], b[k])
    BY <1>2, <2>2, <2>3 DEF Beats
  <2>5. h \in rest
    BY <1>5, HeadsAreFronts
  <2>6. /\ b[h].priority_fee \in Int /\ b[k].priority_fee \in Int
        /\ b[h].received_at \in Int /\ b[k].received_at \in Int
        /\ b[h].id \in Int /\ b[k].id \in Int
    BY <2>5 DEF IsBuffer
  <2>7. QED
    BY <2>2, <2>4, <2>6 DEF SortsAhead
<1>7. QED
  BY <1>1, <1>2, <1>6

\* Popping it leaves the queues holding the others.
LEMMA QueuesAfterPop ==
  ASSUME NEW b, IsBuffer(b), NEW rest \in SUBSET DOMAIN b, OneMarket(b, rest),
         NEW queues, QueuesHold(b, queues, rest),
         NEW a \in DOMAIN queues, queues[a] # <<>>
  PROVE  QueuesHold(b, [queues EXCEPT ![a] = Tail(@)], rest \ {Head(queues[a])})
<1> PICK h : h = Head(queues[a])
  OBVIOUS
<1> PICK left : left = rest \ {h}
  OBVIOUS
<1> PICK next : next = [queues EXCEPT ![a] = Tail(@)]
  OBVIOUS
<1>1. h \in rest /\ b[h].submitter = a
  BY HeadsAreFronts
<1>2. /\ DOMAIN next = DOMAIN queues
      /\ next[a] = Tail(queues[a])
      /\ \A c \in DOMAIN queues \ {a} : next[c] = queues[c]
  OBVIOUS
<1>3. IsQueue(b, next[a], Theirs(b, left, a))
  <2> PICK T : T = Theirs(b, rest, a)
    OBVIOUS
  <2>1. T \subseteq Int /\ \A x \in T : b[x].nonce \in Int
    BY DEF Theirs, IsBuffer
  <2>2. IsQueue(b, queues[a], T)
    BY DEF QueuesHold
  <2>3. IsQueue(b, Tail(queues[a]), T \ {h})
    BY <2>1, <2>2, QueueFront
  <2>4. T \ {h} = Theirs(b, left, a)
    BY DEF Theirs
  <2>5. QED
    BY <1>2, <2>3, <2>4
<1>4. ASSUME NEW c \in DOMAIN queues \ {a}
      PROVE  IsQueue(b, next[c], Theirs(b, left, c))
  <2>1. Theirs(b, left, c) = Theirs(b, rest, c)
    BY <1>1 DEF Theirs
  <2>2. QED
    BY <1>2, <2>1 DEF QueuesHold
<1>5. \A k \in left : b[k].submitter \in DOMAIN next
  BY <1>2 DEF QueuesHold
<1>6. QED
  BY <1>2, <1>3, <1>4, <1>5 DEF QueuesHold

\* f is the state of the merge of order_domain after each turn of its loop.
MergesOver(f, b, S, n) ==
  f = [i \in 0..n |->
         IF i = 0 THEN [out |-> <<>>, queues |-> QueuesOf(b, S)] ELSE Pop(b, f[i - 1])]

\* There is such a function.
LEMMA MergeExists ==
  ASSUME NEW b, NEW S, NEW hi \in Nat
  PROVE  \E f : MergesOver(f, b, S, hi)
<1> PICK start : start = [out |-> <<>>, queues |-> QueuesOf(b, S)]
  OBVIOUS
<1> DEFINE Good == {h \in Nat : \E f : MergesOver(f, b, S, h)}
<1>1. 0 \in Good
  <2> DEFINE f == [n \in 0..0 |-> start]
  <2>1. MergesOver(f, b, S, 0)
    BY DEF MergesOver
  <2>2. QED
    BY <2>1
<1>2. ASSUME NEW h \in 0..(hi - 1), h \in Good
      PROVE  h + 1 \in Good
  <2>1. PICK f : MergesOver(f, b, S, h)
    BY <1>2
  <2> DEFINE g == [n \in 0..(h + 1) |-> IF n = h + 1 THEN Pop(b, f[h]) ELSE f[n]]
  <2>2. h \in Nat /\ h + 1 \in Nat /\ (h + 1) - 1 = h
    OBVIOUS
  <2>3. \A n \in 0..h : f[n] = IF n = 0 THEN start ELSE Pop(b, f[n - 1])
    BY <2>1 DEF MergesOver
  <2>4. ASSUME NEW n \in 0..(h + 1)
        PROVE  g[n] = IF n = 0 THEN start ELSE Pop(b, g[n - 1])
    <3>1. CASE n = h + 1
      <4>1. n # 0 /\ n - 1 = h /\ h \in 0..(h + 1) /\ h # h + 1
        BY <2>2, <3>1
      <4>2. g[n] = Pop(b, f[h])
        BY <3>1
      <4>3. g[n - 1] = f[h]
        BY <4>1
      <4>4. QED
        BY <4>1, <4>2, <4>3
    <3>2. CASE n # h + 1
      <4>1. n \in 0..h
        BY <2>2, <3>2
      <4>2. g[n] = f[n]
        BY <3>2
      <4>3. CASE n = 0
        BY <2>3, <4>1, <4>2, <4>3
      <4>4. CASE n # 0
        <5>1. n - 1 \in 0..(h + 1) /\ n - 1 # h + 1
          BY <2>2, <4>1, <4>4
        <5>2. g[n - 1] = f[n - 1]
          BY <5>1
        <5>3. QED
          BY <2>3, <4>1, <4>2, <4>4, <5>2
      <4>5. QED
        BY <4>3, <4>4
    <3>3. QED
      BY <3>1, <3>2
  <2>5. g = [n \in 0..(h + 1) |-> IF n = 0 THEN start ELSE Pop(b, g[n - 1])]
    <3> HIDE DEF g
    <3>1. DOMAIN g = 0..(h + 1) /\ g = [n \in 0..(h + 1) |-> g[n]]
      BY DEF g
    <3>2. QED
      BY <2>4, <3>1
  <2>6. MergesOver(g, b, S, h + 1)
    BY <2>5 DEF MergesOver
  <2>7. QED
    BY <2>2, <2>6
<1>3. 0..hi \subseteq Good
  <2> HIDE DEF Good
  <2>1. QED
    BY <1>1, <1>2, RM!StepByStep
<1>4. hi \in Good
  BY <1>3
<1>5. QED
  BY <1>4

\* order_domain returns what the last turn has popped.
LEMMA MergeSteps ==
  ASSUME NEW b, NEW S, IsFiniteSet(S), NEW n \in Nat, n = Cardinality(S)
  PROVE  \E f : /\ f[0].out = <<>> /\ f[0].queues = QueuesOf(b, S)
                /\ \A i \in 0..(n - 1) : f[i + 1] = Pop(b, f[i])
                /\ order_domain(b, S) = f[n].out
<1> DEFINE f == CHOOSE g : MergesOver(g, b, S, n)
<1>1. MergesOver(f, b, S, n)
  BY MergeExists
<1>2. order_domain(b, S) = f[n].out
  BY DEF order_domain, MergesOver
<1> HIDE DEF f
<1>3. f[0].out = <<>> /\ f[0].queues = QueuesOf(b, S)
  BY <1>1 DEF MergesOver
<1>4. ASSUME NEW i \in 0..(n - 1)
      PROVE  f[i + 1] = Pop(b, f[i])
  <2>1. i + 1 \in 0..n /\ i + 1 # 0 /\ (i + 1) - 1 = i
    OBVIOUS
  <2>2. QED
    BY <1>1, <2>1 DEF MergesOver
<1>5. QED
  BY <1>2, <1>3, <1>4

\* What is to come of S when out has come up to its n-th place.
ToCome(S, out, n) == S \ {out[l] : l \in 1..n}

\* After n turns: what is popped was the next to pop each time, and the queues
\* hold the others.
MergeState(b, S, n, out, queues) ==
  /\ out \in Seq(S) /\ Len(out) = n
  /\ \A j, k \in 1..n : out[j] = out[k] => j = k
  /\ \A k \in 1..n : PopsNext(b, ToCome(S, out, k - 1), out[k])
  /\ Cardinality(ToCome(S, out, n)) = Cardinality(S) - n
  /\ QueuesHold(b, queues, ToCome(S, out, n))

\* A turn of the loop keeps it so.
LEMMA MergeTurn ==
  ASSUME NEW b, IsBuffer(b), NEW S \in SUBSET DOMAIN b, OneMarket(b, S),
         NEW n \in Nat, n < Cardinality(S),
         NEW merge, NEW out, out = merge.out, NEW queues, queues = merge.queues,
         MergeState(b, S, n, out, queues)
  PROVE  MergeState(b, S, n + 1, Pop(b, merge).out, Pop(b, merge).queues)
<1> PICK rest : rest = ToCome(S, out, n)
  OBVIOUS
<1> PICK a : a = WinningHead(b, queues)
  OBVIOUS
<1> PICK h : h = Head(queues[a])
  OBVIOUS
<1> PICK longer : longer = Append(out, h)
  OBVIOUS
<1>1. /\ rest \subseteq S /\ rest \in SUBSET DOMAIN b
      /\ IsFiniteSet(rest) /\ IsFiniteSet(S)
      /\ OneMarket(b, rest)
  <2>1. rest \subseteq S
    BY DEF ToCome
  <2>2. QED
    BY <2>1, FS_Subset DEF IsBuffer, OneMarket
<1>2. rest # {}
  <2>1. Cardinality(S) \in Nat /\ Cardinality(rest) = Cardinality(S) - n
    BY <1>1, FS_CardinalityType DEF MergeState
  <2>2. Cardinality(rest) # 0
    BY <2>1
  <2>3. QED
    BY <2>2, FS_EmptySet
<1>3. QueuesHold(b, queues, rest)
  BY DEF MergeState
<1>4. a \in DOMAIN queues /\ queues[a] # <<>> /\ PopsNext(b, rest, h)
  BY <1>1, <1>2, <1>3, WinnerPops
<1>5. h \in rest
  BY <1>1, <1>3, <1>4, HeadsAreFronts
<1>6. QueuesHold(b, [queues EXCEPT ![a] = Tail(@)], rest \ {h})
  BY <1>1, <1>3, <1>4, QueuesAfterPop
<1>7. /\ longer \in Seq(S) /\ Len(longer) = n + 1
      /\ longer[n + 1] = h
      /\ \A l \in 1..n : longer[l] = out[l] /\ out[l] \in S
  BY <1>1, <1>5 DEF MergeState
<1>8. \A k \in 0..n : ToCome(S, longer, k) = ToCome(S, out, k)
  BY <1>7 DEF ToCome
<1>9. ToCome(S, longer, n + 1) = rest \ {h}
  <2>1. \A l \in 1..(n + 1) : l = n + 1 \/ l \in 1..n
    OBVIOUS
  <2>2. 1..n \subseteq 1..(n + 1) /\ n + 1 \in 1..(n + 1)
    OBVIOUS
  <2>3. {longer[l] : l \in 1..(n + 1)} = {out[l] : l \in 1..n} \cup {h}
    BY <1>7, <2>1, <2>2
  <2>4. QED
    BY <2>3 DEF ToCome
<1>10. \A l \in 1..n : out[l] # h
  BY <1>5 DEF ToCome
<1>11. ASSUME NEW j \in 1..(n + 1), NEW k \in 1..(n + 1), longer[j] = longer[k]
       PROVE  j = k
  <2>1. \A i, l \in 1..n : out[i] = out[l] => i = l
    BY DEF MergeState
  <2>2. (j = n + 1 \/ j \in 1..n) /\ (k = n + 1 \/ k \in 1..n)
    OBVIOUS
  <2>3. QED
    BY <1>7, <1>10, <1>11, <2>1, <2>2
<1>12. ASSUME NEW k \in 1..(n + 1)
       PROVE  PopsNext(b, ToCome(S, longer, k - 1), longer[k])
  <2>1. ToCome(S, longer, k - 1) = ToCome(S, out, k - 1)
    BY <1>8
  <2>2. CASE k = n + 1
    BY <1>4, <1>7, <2>1, <2>2
  <2>3. CASE k # n + 1
    <3>1. k \in 1..n
      BY <2>3
    <3>2. QED
      BY <1>7, <2>1, <3>1 DEF MergeState
  <2>4. QED
    BY <2>2, <2>3
<1>13. Cardinality(rest \ {h}) = Cardinality(S) - (n + 1)
  <2>1. Cardinality(S) \in Nat /\ Cardinality(rest) = Cardinality(S) - n
    BY <1>1, FS_CardinalityType DEF MergeState
  <2>2. Cardinality(rest \ {h}) = Cardinality(rest) - 1
    <3>1. Cardinality(rest \ {h}) =
            IF h \in rest THEN Cardinality(rest) - 1 ELSE Cardinality(rest)
      BY <1>1, FS_RemoveElement, Zenon
    <3>2. QED
      BY <1>5, <3>1
  <2>3. QED
    BY <2>1, <2>2
<1>14. /\ Pop(b, merge).out = longer
       /\ Pop(b, merge).queues = [queues EXCEPT ![a] = Tail(@)]
  BY DEF Pop
<1> PICK left : left = ToCome(S, longer, n + 1)
  OBVIOUS
<1> PICK others : others = [queues EXCEPT ![a] = Tail(@)]
  OBVIOUS
<1>15. QueuesHold(b, others, left) /\ Cardinality(left) = Cardinality(S) - (n + 1)
  BY <1>6, <1>9, <1>13
<1>16. MergeState(b, S, n + 1, longer, others)
  BY <1>7, <1>11, <1>12, <1>15 DEF MergeState
<1>17. QED
  BY <1>14, <1>16

\* arr is the order of S that the policy defines.
OrderOf(b, S, arr) == arr \in Seq(S) /\ arr \in Arrangements(S) /\ InPolicyOrder(arr, b)

\* A list of as many as S has, none twice, each the next to pop, is the order.
LEMMA PoppedIsOrder ==
  ASSUME NEW b, NEW S, IsFiniteSet(S), NEW n, n = Cardinality(S), NEW out,
         HasEach(S, n, out),
         \A k \in 1..n : PopsNext(b, ToCome(S, out, k - 1), out[k])
  PROVE  OrderOf(b, S, out)
<1>1. n \in Nat /\ DOMAIN out = 1..n /\ out \in [1..n -> S]
  BY DEF HasEach
<1>2. out \in Arrangements(S)
  BY <1>1 DEF HasEach, Arrangements, Bijection, Injection, Surjection, IsInjective
<1>3. out \in Seq(S)
  BY DEF HasEach
<1>4. ASSUME NEW k \in DOMAIN out
      PROVE  PopsNext(b, RestOf(out, k), out[k])
  <2>1. k \in 1..n
    BY <1>1
  <2>2. RestOf(out, k) = ToCome(S, out, k - 1)
    BY <1>2, <2>1, RestIsTheOthers DEF ToCome
  <2>3. QED
    BY <2>1, <2>2
<1>5. InPolicyOrder(out, b)
  BY <1>4 DEF InPolicyOrder, RestOf
<1>6. QED
  BY <1>2, <1>3, <1>5 DEF OrderOf

\* The merge of a domain (sequencer.rs:121-136) gives it its order.
LEMMA DomainOrdered ==
  ASSUME NEW b, IsBuffer(b), NEW S \in SUBSET DOMAIN b, OneMarket(b, S)
  PROVE  OrderOf(b, S, order_domain(b, S))
<1> PICK n : n = Cardinality(S)
  OBVIOUS
<1>1. IsFiniteSet(S) /\ n \in Nat
  BY FS_Subset, FS_CardinalityType DEF IsBuffer
<1>2. PICK f : /\ f[0].out = <<>> /\ f[0].queues = QueuesOf(b, S)
               /\ \A i \in 0..(n - 1) : f[i + 1] = Pop(b, f[i])
               /\ order_domain(b, S) = f[n].out
  BY <1>1, MergeSteps
<1> DEFINE Good == {i \in 0..n : MergeState(b, S, i, f[i].out, f[i].queues)}
<1>3. 0 \in Good
  <2>1. ToCome(S, <<>>, 0) = S
    BY DEF ToCome
  <2>2. QueuesHold(b, f[0].queues, S)
    BY <1>2, QueuesStart
  <2>3. /\ <<>> \in Seq(S) /\ Len(<<>>) = 0 /\ 1..0 = {} /\ 0 \in 0..n
        /\ Cardinality(S) = Cardinality(S) - 0
    BY <1>1
  <2>4. MergeState(b, S, 0, <<>>, f[0].queues)
    BY <2>1, <2>2, <2>3 DEF MergeState
  <2>5. QED
    BY <1>2, <2>3, <2>4
<1>4. ASSUME NEW i \in 0..(n - 1), i \in Good
      PROVE  i + 1 \in Good
  <2>1. i \in Nat /\ i < n /\ i + 1 \in 0..n
    BY <1>1
  <2>2. MergeState(b, S, i, f[i].out, f[i].queues)
    BY <1>4
  <2>3. MergeState(b, S, i + 1, Pop(b, f[i]).out, Pop(b, f[i]).queues)
    BY <2>1, <2>2, MergeTurn
  <2>4. QED
    BY <1>2, <2>1, <2>3
<1>5. 0..n \subseteq Good
  <2> HIDE DEF Good
  <2>1. QED
    BY <1>1, <1>3, <1>4, RM!StepByStep
<1> PICK out : out = f[n].out
  OBVIOUS
<1>6. MergeState(b, S, n, out, f[n].queues)
  BY <1>1, <1>5
<1>7. ToCome(S, out, n) = {}
  <2>1. ToCome(S, out, n) \subseteq S
    BY DEF ToCome
  <2>2. Cardinality(ToCome(S, out, n)) = 0
    BY <1>1, <1>6 DEF MergeState
  <2>3. QED
    BY <1>1, <2>1, <2>2, FS_Subset, FS_EmptySet
<1>8. HasEach(S, n, out)
  BY <1>1, <1>6, <1>7 DEF MergeState, HasEach, ToCome
<1>9. OrderOf(b, S, out)
  BY <1>1, <1>6, <1>8, PoppedIsOrder DEF MergeState
<1>10. QED
  BY <1>2, <1>9

\* The converse: what an order pops.
LEMMA OrderPops ==
  ASSUME NEW b, NEW S, IsFiniteSet(S), NEW n, n = Cardinality(S), NEW arr, OrderOf(b, S, arr)
  PROVE  /\ HasEach(S, n, arr)
         /\ \A k \in 1..n : PopsNext(b, ToCome(S, arr, k - 1), arr[k])
<1>1. arr \in Seq(S) /\ arr \in Arrangements(S) /\ InPolicyOrder(arr, b)
  BY DEF OrderOf
<1>2. HasEach(S, n, arr)
  BY <1>1, ArrangedHasEach
<1>3. DOMAIN arr = 1..n
  BY <1>2 DEF HasEach
<1>4. ASSUME NEW k \in 1..n
      PROVE  PopsNext(b, ToCome(S, arr, k - 1), arr[k])
  <2>1. RestOf(arr, k) = ToCome(S, arr, k - 1)
    BY <1>1, RestIsTheOthers DEF ToCome
  <2>2. PopsNext(b, RestOf(arr, k), arr[k])
    BY <1>1, <1>3 DEF InPolicyOrder, RestOf
  <2>3. QED
    BY <2>1, <2>2
<1>5. QED
  BY <1>2, <1>4

\* all is the list arr and then the list brr.
Joins(all, arr, n, brr, m) ==
  /\ n \in Nat /\ m \in Nat
  /\ \A k \in 1..n : all[k] = arr[k] /\ k \in 1..(n + m)
  /\ \A k \in 1..m : all[n + k] = brr[k] /\ n + k \in 1..(n + m)
  /\ \A k \in 1..(n + m) : k \in 1..n \/ \E l \in 1..m : k = n + l

\* \o joins two lists.
LEMMA Concatenated ==
  ASSUME NEW S, NEW U, NEW n, NEW m, NEW arr, NEW brr,
         HasEach(S, n, arr), HasEach(U, m, brr)
  PROVE  /\ arr \o brr \in Seq(S \cup U) /\ Len(arr \o brr) = n + m
         /\ Joins(arr \o brr, arr, n, brr, m)
<1> PICK T : T = S \cup U
  OBVIOUS
<1> PICK all : all = arr \o brr
  OBVIOUS
<1>1. n \in Nat /\ m \in Nat /\ n = Len(arr) /\ m = Len(brr)
  BY DEF HasEach
<1>2. arr \in Seq(T) /\ brr \in Seq(T)
  BY SeqMonotonic DEF HasEach
<1>3. all \in Seq(T) /\ Len(all) = n + m
  BY <1>1, <1>2
<1>4. \A k \in 1..n : all[k] = arr[k] /\ k \in 1..(n + m)
  BY <1>1, <1>2
<1>5. ASSUME NEW k \in 1..m
      PROVE  all[n + k] = brr[k] /\ n + k \in 1..(n + m)
  <2>1. n + k \in 1..(n + m) /\ ~ (n + k =< n) /\ (n + k) - n = k
    BY <1>1
  <2>2. QED
    BY <1>1, <1>2, <2>1, ConcatProperties
<1>6. ASSUME NEW k \in 1..(n + m), k \notin 1..n
      PROVE  \E l \in 1..m : k = n + l
  <2>1. k - n \in 1..m /\ k = n + (k - n)
    BY <1>1, <1>6
  <2>2. QED
    BY <2>1
<1>7. QED
  BY <1>1, <1>3, <1>4, <1>5, <1>6 DEF Joins

\* What is to come of S from the k-th place of out on.
LeftAt(S, out, k) == ToCome(S, out, k - 1)

\* What is to come of a joint list: some of the first part and all of the second,
LEMMA ToComeOfFirst ==
  ASSUME NEW S, NEW U, S \cap U = {}, NEW n, NEW m, NEW arr, NEW brr,
         HasEach(S, n, arr), NEW all, Joins(all, arr, n, brr, m), NEW k \in 1..n
  PROVE  /\ LeftAt(S \cup U, all, k) = LeftAt(S, arr, k) \cup U
         /\ arr[k] \in LeftAt(S, arr, k)
<1>1. n \in Nat /\ \A l \in 1..n : all[l] = arr[l] /\ arr[l] \in S
  BY DEF Joins, HasEach
<1>2. \A l \in 1..(k - 1) : l \in 1..n /\ l # k
  BY <1>1
<1> PICK before : before = 1..(k - 1)
  OBVIOUS
<1>3. \A l \in before : all[l] = arr[l] /\ arr[l] \notin U
  BY <1>1, <1>2
<1>4. {all[l] : l \in before} = {arr[l] : l \in before}
  BY <1>3
<1>5. ToCome(S \cup U, all, k - 1) = ToCome(S, arr, k - 1) \cup U
  BY <1>3, <1>4 DEF ToCome
<1>6. \A l \in before : arr[l] # arr[k]
  BY <1>2 DEF HasEach
<1>7. arr[k] \in ToCome(S, arr, k - 1)
  BY <1>1, <1>6 DEF ToCome
<1>8. QED
  BY <1>5, <1>7 DEF LeftAt

\* ... then of the second alone.
LEMMA ToComeOfSecond ==
  ASSUME NEW S, NEW U, S \cap U = {}, NEW n, NEW m, NEW arr, NEW brr,
         HasEach(S, n, arr), HasEach(U, m, brr),
         NEW all, Joins(all, arr, n, brr, m), NEW k \in 1..m
  PROVE  ToCome(S \cup U, all, (n + k) - 1) = ToCome(U, brr, k - 1)
<1> PICK before : before = 1..((n + k) - 1)
  OBVIOUS
<1> PICK earlier : earlier = 1..(k - 1)
  OBVIOUS
<1>1. n \in Nat /\ m \in Nat
  BY DEF HasEach
<1>2. \A l \in 1..n : l \in before
  BY <1>1
<1>3. \A l \in earlier : l \in 1..m /\ n + l \in before
  BY <1>1
<1>4. \A l \in before : l \in 1..(n + m)
  BY <1>1
<1>5. \A i \in 1..m : n + i \in before => i \in earlier
  BY <1>1
<1>6. ASSUME NEW x \in S \cup U, x \notin {all[l] : l \in before}
      PROVE  x \in U /\ x \notin {brr[l] : l \in earlier}
  <2>1. x \notin S
    <3>1. \A l \in 1..n : all[l] # x /\ all[l] = arr[l]
      BY <1>2, <1>6 DEF Joins
    <3>2. \A y \in S : \E l \in 1..n : arr[l] = y
      BY DEF HasEach
    <3>3. QED
      BY <3>1, <3>2
  <2>2. \A l \in earlier : brr[l] # x
    BY <1>3, <1>6 DEF Joins
  <2>3. QED
    BY <2>1, <2>2
<1>7. ASSUME NEW x \in U, x \notin {brr[l] : l \in earlier},
             NEW l \in before, all[l] = x
      PROVE  FALSE
  <2>1. l \notin 1..n
    BY <1>7 DEF Joins, HasEach
  <2>2. PICK i \in 1..m : l = n + i
    BY <1>4, <2>1 DEF Joins
  <2>3. i \in earlier /\ all[l] = brr[i]
    BY <1>5, <2>2 DEF Joins
  <2>4. QED
    BY <1>7, <2>3
<1>8. QED
  BY <1>6, <1>7 DEF ToCome

\* Two lists of disjoint sets make one list of both.
LEMMA JointHasEach ==
  ASSUME NEW S, NEW U, S \cap U = {}, NEW n, NEW m, NEW arr, NEW brr,
         HasEach(S, n, arr), HasEach(U, m, brr),
         NEW sum, sum = n + m
  PROVE  HasEach(S \cup U, sum, arr \o brr)
<1> PICK all : all = arr \o brr
  OBVIOUS
<1>0. Joins(all, arr, n, brr, m)
  BY Concatenated, Zenon
<1>1. \A k \in 1..n : all[k] = arr[k] /\ all[k] \in S
  BY <1>0 DEF Joins, HasEach
<1>2. \A k \in 1..m : all[n + k] = brr[k] /\ all[n + k] \in U
  BY <1>0 DEF Joins, HasEach
<1>3. ASSUME NEW j \in 1..(n + m), NEW k \in 1..(n + m), all[j] = all[k]
      PROVE  j = k
  <2>1. CASE j \in 1..n /\ k \in 1..n
    BY <1>1, <1>3, <2>1 DEF HasEach
  <2>2. ASSUME NEW l \in 1..m, j = n + l, NEW i \in 1..m, k = n + i
        PROVE  j = k
    <3>1. brr[l] = brr[i]
      BY <1>2, <1>3, <2>2
    <3>2. l = i
      BY <3>1 DEF HasEach
    <3>3. QED
      BY <2>2, <3>2
  <2>3. ASSUME NEW l \in 1..m, j = n + l, k \in 1..n
        PROVE  FALSE
    BY <1>1, <1>2, <1>3, <2>3
  <2>4. ASSUME NEW l \in 1..m, k = n + l, j \in 1..n
        PROVE  FALSE
    BY <1>1, <1>2, <1>3, <2>4
  <2>5. QED
    BY <2>1, <2>2, <2>3, <2>4, <1>0 DEF Joins
<1>4. ASSUME NEW x \in S \cup U
      PROVE  \E k \in 1..(n + m) : all[k] = x
  <2>1. CASE x \in S
    <3>1. PICK k \in 1..n : arr[k] = x
      BY <2>1 DEF HasEach
    <3>2. all[k] = x /\ k \in 1..(n + m)
      BY <1>0, <3>1 DEF Joins
    <3>3. QED
      BY <3>2
  <2>2. CASE x \in U
    <3>1. PICK k \in 1..m : brr[k] = x
      BY <2>2 DEF HasEach
    <3>2. all[n + k] = x /\ n + k \in 1..(n + m)
      BY <1>0, <3>1 DEF Joins
    <3>3. QED
      BY <3>2
  <2>3. QED
    BY <2>1, <2>2
<1>5. all \in Seq(S \cup U)
  BY Concatenated, Zenon
<1>6. Len(all) = n + m /\ sum \in Nat
  <2>1. arr \in Seq(S) /\ brr \in Seq(U) /\ Len(arr) = n /\ Len(brr) = m
    BY DEF HasEach
  <2>2. n \in Nat /\ m \in Nat
    BY DEF HasEach
  <2>3. arr \in Seq(S \cup U) /\ brr \in Seq(S \cup U)
    BY <2>1, SeqMonotonic
  <2>4. Len(all) = Len(arr) + Len(brr)
    BY <2>3, ConcatProperties
  <2>5. QED
    BY <2>1, <2>2, <2>4
<1>7. ASSUME NEW k \in 1..(n + m)
      PROVE  all[k] \in S \cup U
  <2>1. k \in 1..n \/ \E l \in 1..m : k = n + l
    BY <1>0 DEF Joins
  <2>2. QED
    BY <1>1, <1>2, <2>1
<1>8. HasEach(S \cup U, sum, all)
  BY <1>3, <1>4, <1>5, <1>6, <1>7 DEF HasEach
<1>9. QED
  BY <1>8

\* The markets of S come before those of U.
Earlier(b, S, U) ==
  /\ \A j \in S \cup U : b[j].market \in Int
  /\ \A j \in S, l \in U : b[j].market < b[l].market

\* An intent that goes first still does when intents of later markets are held too.
LEMMA PopsBeforeLater ==
  ASSUME NEW b, NEW S, NEW U, Earlier(b, S, U),
         NEW rest \in SUBSET S, NEW x \in rest, PopsNext(b, rest, x)
  PROVE  PopsNext(b, rest \cup U, x)
<1>1. \A j \in U : b[x].market =< b[j].market
  BY DEF Earlier
<1>2. \A j \in S, l \in U : b[j].market # b[l].market
  BY DEF Earlier
<1>3. \A j \in rest : AtFront(b, rest \cup U, j) <=> AtFront(b, rest, j)
  BY <1>2 DEF AtFront, QueuedBefore
<1>4. QED
  BY <1>1, <1>2, <1>3 DEF PopsNext

\* One domain's order after the other's is the order of both.
LEMMA DomainsInOrder ==
  ASSUME NEW b, NEW S, IsFiniteSet(S), NEW U, IsFiniteSet(U), Earlier(b, S, U),
         NEW arr, OrderOf(b, S, arr), NEW brr, OrderOf(b, U, brr)
  PROVE  OrderOf(b, S \cup U, arr \o brr)
<1> PICK T : T = S \cup U
  OBVIOUS
<1> PICK n : n = Cardinality(S)
  OBVIOUS
<1> PICK m : m = Cardinality(U)
  OBVIOUS
<1> PICK all : all = arr \o brr
  OBVIOUS
<1>1. /\ HasEach(S, n, arr)
      /\ \A k \in 1..n : PopsNext(b, ToCome(S, arr, k - 1), arr[k])
  BY OrderPops
<1>2. /\ HasEach(U, m, brr)
      /\ \A k \in 1..m : PopsNext(b, ToCome(U, brr, k - 1), brr[k])
  BY OrderPops
<1>3. S \cap U = {}
  BY DEF Earlier
<1>4. n \in Nat /\ m \in Nat
  BY <1>1, <1>2 DEF HasEach
<1>5. Cardinality(T) = n + m /\ IsFiniteSet(T)
  <2>1. Cardinality(S \cap U) = 0
    BY <1>3, FS_EmptySet
  <2>2. /\ IsFiniteSet(S \cup U)
        /\ Cardinality(S \cup U) = Cardinality(S) + Cardinality(U) - Cardinality(S \cap U)
    BY FS_Union, Zenon
  <2>3. QED
    BY <1>4, <2>1, <2>2
<1>6. HasEach(T, n + m, all)
  BY <1>1, <1>2, <1>3, JointHasEach
<1>7. Joins(all, arr, n, brr, m)
  BY <1>1, <1>2, Concatenated, Zenon
<1>8. ASSUME NEW k \in 1..n
      PROVE  PopsNext(b, ToCome(T, all, k - 1), all[k])
  <2> PICK rest : rest = LeftAt(S, arr, k)
    OBVIOUS
  <2>1. LeftAt(S \cup U, all, k) = rest \cup U /\ arr[k] \in rest
    <3>1. HasEach(S, n, arr) /\ Joins(all, arr, n, brr, m) /\ S \cap U = {} /\ k \in 1..n
      BY <1>1, <1>3, <1>7
    <3>2. LeftAt(S \cup U, all, k) = LeftAt(S, arr, k) \cup U
      BY <3>1, ToComeOfFirst
    <3>3. arr[k] \in LeftAt(S, arr, k)
      BY <3>1, ToComeOfFirst
    <3>4. QED
      BY <3>2, <3>3
  <2>2. rest \in SUBSET S
    BY DEF LeftAt, ToCome
  <2>3. PopsNext(b, rest, arr[k])
    BY <1>1 DEF LeftAt
  <2>4. PopsNext(b, rest \cup U, arr[k])
    BY <2>1, <2>2, <2>3, PopsBeforeLater
  <2>5. ToCome(T, all, k - 1) = rest \cup U
    BY <2>1 DEF LeftAt
  <2>6. QED
    BY <1>7, <2>4, <2>5 DEF Joins
<1>9. ASSUME NEW l \in 1..m
      PROVE  PopsNext(b, ToCome(T, all, (n + l) - 1), all[n + l])
  <2>1. ToCome(T, all, (n + l) - 1) = ToCome(U, brr, l - 1)
    BY <1>1, <1>2, <1>3, <1>7, ToComeOfSecond
  <2>2. QED
    BY <1>2, <1>7, <2>1 DEF Joins
<1>10. ASSUME NEW k \in 1..(n + m)
       PROVE  PopsNext(b, ToCome(T, all, k - 1), all[k])
  <2>1. k \in 1..n \/ \E l \in 1..m : k = n + l
    BY <1>7 DEF Joins
  <2>2. QED
    BY <1>8, <1>9, <2>1
<1>11. OrderOf(b, T, all)
  BY <1>5, <1>6, <1>10, PoppedIsOrder
<1>12. QED
  BY <1>11

\* d[1], d[2], ... one after the other, as far as each of them.
Flattens(f, d, n) == f = [i \in 0..n |-> IF i = 0 THEN <<>> ELSE f[i - 1] \o d[i]]

\* There is such a function.
LEMMA FlattenExists ==
  ASSUME NEW d, NEW hi \in Nat
  PROVE  \E f : Flattens(f, d, hi)
<1> DEFINE Good == {h \in Nat : \E f : Flattens(f, d, h)}
<1>1. 0 \in Good
  <2> DEFINE f == [n \in 0..0 |-> <<>>]
  <2>1. Flattens(f, d, 0)
    BY DEF Flattens
  <2>2. QED
    BY <2>1
<1>2. ASSUME NEW h \in 0..(hi - 1), h \in Good
      PROVE  h + 1 \in Good
  <2>1. PICK f : Flattens(f, d, h)
    BY <1>2
  <2> DEFINE g == [n \in 0..(h + 1) |-> IF n = h + 1 THEN f[h] \o d[n] ELSE f[n]]
  <2>2. h \in Nat /\ h + 1 \in Nat /\ (h + 1) - 1 = h
    OBVIOUS
  <2>3. \A n \in 0..h : f[n] = IF n = 0 THEN <<>> ELSE f[n - 1] \o d[n]
    BY <2>1 DEF Flattens
  <2>4. ASSUME NEW n \in 0..(h + 1)
        PROVE  g[n] = IF n = 0 THEN <<>> ELSE g[n - 1] \o d[n]
    <3>1. CASE n = h + 1
      <4>1. n # 0 /\ n - 1 = h /\ h \in 0..(h + 1) /\ h # h + 1
        BY <2>2, <3>1
      <4>2. g[n] = f[h] \o d[n]
        BY <3>1
      <4>3. g[n - 1] = f[h]
        BY <4>1
      <4>4. QED
        BY <4>1, <4>2, <4>3
    <3>2. CASE n # h + 1
      <4>1. n \in 0..h
        BY <2>2, <3>2
      <4>2. g[n] = f[n]
        BY <3>2
      <4>3. CASE n = 0
        BY <2>3, <4>1, <4>2, <4>3
      <4>4. CASE n # 0
        <5>1. n - 1 \in 0..(h + 1) /\ n - 1 # h + 1
          BY <2>2, <4>1, <4>4
        <5>2. g[n - 1] = f[n - 1]
          BY <5>1
        <5>3. QED
          BY <2>3, <4>1, <4>2, <4>4, <5>2
      <4>5. QED
        BY <4>3, <4>4
    <3>3. QED
      BY <3>1, <3>2
  <2>5. g = [n \in 0..(h + 1) |-> IF n = 0 THEN <<>> ELSE g[n - 1] \o d[n]]
    <3> HIDE DEF g
    <3>1. DOMAIN g = 0..(h + 1) /\ g = [n \in 0..(h + 1) |-> g[n]]
      BY DEF g
    <3>2. QED
      BY <2>4, <3>1
  <2>6. Flattens(g, d, h + 1)
    BY <2>5 DEF Flattens
  <2>7. QED
    BY <2>2, <2>6
<1>3. 0..hi \subseteq Good
  <2> HIDE DEF Good
  <2>1. QED
    BY <1>1, <1>2, RM!StepByStep
<1>4. hi \in Good
  BY <1>3
<1>5. QED
  BY <1>4

\* The ordering domain of market m.
DomainOf(b, m) == {k \in DOMAIN b : b[k].market = m}

\* What order_slot has emitted after each of the markets.
DomainsUpTo(b, markets, n, f) ==
  /\ f[0] = <<>>
  /\ \A i \in 0..(n - 1) :
       f[i + 1] = f[i] \o order_domain(b, DomainOf(b, markets[i + 1]))
  /\ Domains(b) = f[n]

\* There is such a function: what the recursion of Domains computes.
LEMMA DomainSteps ==
  ASSUME NEW b, Len(MarketsOf(b)) \in Nat
  PROVE  \E f : DomainsUpTo(b, MarketsOf(b), Len(MarketsOf(b)), f)
<1> PICK markets : markets = MarketsOf(b)
  OBVIOUS
<1> PICK n \in Nat : n = Len(markets)
  OBVIOUS
<1> DEFINE d == [i \in 1..n |-> order_domain(b, DomainOf(b, markets[i]))]
           f == CHOOSE g : g = [i \in 0..n |->
                  IF i = 0 THEN <<>>
                  ELSE g[i - 1] \o order_domain(b, DomainOf(b, markets[i]))]
<1>1. f = [i \in 0..n |->
             IF i = 0 THEN <<>>
             ELSE f[i - 1] \o order_domain(b, DomainOf(b, markets[i]))]
  <2>1. PICK g : Flattens(g, d, n)
    BY FlattenExists
  <2>2. \A i \in 0..n : i # 0 => i \in 1..n
    OBVIOUS
  <2>3. g = [i \in 0..n |->
               IF i = 0 THEN <<>>
               ELSE g[i - 1] \o order_domain(b, DomainOf(b, markets[i]))]
    BY <2>1, <2>2 DEF Flattens
  <2>4. QED
    BY <2>3
<1>2. Domains(b) = f[n]
  BY DEF Domains, DomainOf
<1> HIDE DEF d, f
<1>3. f[0] = <<>>
  BY <1>1
<1>4. ASSUME NEW i \in 0..(n - 1)
      PROVE  f[i + 1] = f[i] \o order_domain(b, DomainOf(b, markets[i + 1]))
  <2>1. i + 1 \in 0..n /\ i + 1 # 0 /\ (i + 1) - 1 = i
    OBVIOUS
  <2>2. QED
    BY <1>1, <2>1
<1>5. DomainsUpTo(b, markets, n, f)
  BY <1>2, <1>3, <1>4 DEF DomainsUpTo
<1>6. QED
  BY <1>5

\* arr has the numbers in S in their order.
Ascends(arr, S) ==
  /\ Len(arr) \in Nat
  /\ \A i \in 1..Len(arr) : arr[i] \in Int
  /\ \A i, j \in 1..Len(arr) : i < j => arr[i] < arr[j]
  /\ \A m \in S : \E i \in 1..Len(arr) : arr[i] = m

\* sort_by_key puts numbers in their order.
LEMMA SortedNumbers ==
  ASSUME NEW S, S \subseteq Int, IsFiniteSet(S)
  PROVE  Ascends(sort_by_key(S, [m \in S |-> m]), S)
<1> PICK key : key = [m \in S |-> m]
  OBVIOUS
<1> PICK arr : arr = sort_by_key(S, key)
  OBVIOUS
<1>1. \A m \in S : key[m] = m
  OBVIOUS
<1>2. arr \in Arrangements(S) /\ InKeyOrder(arr, key)
  BY <1>1, SortExists
<1>3. HasEach(S, Cardinality(S), arr)
  BY <1>2, ArrangedHasEach
<1>4. /\ DOMAIN arr = 1..Len(arr) /\ Len(arr) \in Nat
      /\ \A i \in DOMAIN arr : arr[i] \in S
      /\ \A m \in S : \E i \in DOMAIN arr : arr[i] = m
  <2> PICK n : n = Cardinality(S)
    OBVIOUS
  <2>1. n \in Nat /\ arr \in Seq(S) /\ Len(arr) = n
    BY <1>3 DEF HasEach
  <2>2. DOMAIN arr = 1..n
    BY <2>1
  <2>3. \A i \in 1..n : arr[i] \in S
    BY <1>3 DEF HasEach
  <2>4. \A m \in S : \E i \in 1..n : arr[i] = m
    BY <1>3 DEF HasEach
  <2>5. QED
    BY <2>1, <2>2, <2>3, <2>4
<1>5. ASSUME NEW i \in DOMAIN arr, NEW j \in DOMAIN arr, i < j
      PROVE  arr[i] < arr[j]
  <2>1. \/ key[arr[i]] < key[arr[j]]
        \/ key[arr[i]] = key[arr[j]] /\ arr[i] < arr[j]
    BY <1>2, <1>5 DEF InKeyOrder
  <2>2. QED
    BY <1>1, <1>4, <2>1
<1>6. \A i \in DOMAIN arr : arr[i] \in Int
  BY <1>4
<1>7. Ascends(arr, S)
  BY <1>4, <1>5, <1>6 DEF Ascends
<1>8. QED
  BY <1>7

\* The markets come in their order (sequencer.rs:101-108).
LEMMA MarketsInOrder ==
  ASSUME NEW b, IsBuffer(b), NEW markets, markets = MarketsOf(b)
  PROVE  /\ Len(markets) \in Nat
         /\ \A i \in 1..Len(markets) : markets[i] \in Int
         /\ \A i, j \in 1..Len(markets) : i < j => markets[i] < markets[j]
         /\ \A k \in DOMAIN b : \E i \in 1..Len(markets) : b[k].market = markets[i]
<1> PICK S : S = {b[k].market : k \in DOMAIN b}
  OBVIOUS
<1>1. S \subseteq Int /\ IsFiniteSet(S)
  <2> PICK f : f = [k \in DOMAIN b |-> b[k].market]
    OBVIOUS
  <2>1. f \in Surjection(DOMAIN b, S)
    BY DEF Surjection
  <2>2. IsFiniteSet(DOMAIN b)
    BY DEF IsBuffer
  <2>3. IsFiniteSet(S)
    BY <2>1, <2>2, FS_Surjection
  <2>4. QED
    BY <2>3 DEF IsBuffer
<1>2. markets = sort_by_key(S, [m \in S |-> m])
  BY DEF MarketsOf
<1>3. \A k \in DOMAIN b : b[k].market \in S
  OBVIOUS
<1>4. QED
  <2>1. Ascends(markets, S)
    BY <1>1, <1>2, SortedNumbers
  <2>2. QED
    BY <1>3, <2>1 DEF Ascends

\* What stands in the first i markets.
Covered(b, markets, i) == {k \in DOMAIN b : \E l \in 1..i : b[k].market = markets[l]}

\* The loop gives a buffer the order of the policy.
THEOREM LoopOrders ==
  ASSUME NEW b, IsBuffer(b)
  PROVE  OrderOf(b, DOMAIN b, Domains(b))
<1> PICK markets : markets = MarketsOf(b)
  OBVIOUS
<1> PICK n : n = Len(markets)
  OBVIOUS
<1>1. /\ n \in Nat
      /\ \A i \in 1..n : markets[i] \in Int
      /\ \A i, j \in 1..n : i < j => markets[i] < markets[j]
      /\ \A k \in DOMAIN b : \E i \in 1..n : b[k].market = markets[i]
  BY MarketsInOrder
<1>2. PICK f : DomainsUpTo(b, markets, n, f)
  BY <1>1, DomainSteps
<1>3. IsFiniteSet(DOMAIN b) /\ \A k \in DOMAIN b : b[k].market \in Int
  BY DEF IsBuffer
<1> DEFINE Good == {i \in 0..n : OrderOf(b, Covered(b, markets, i), f[i])}
<1>4. 0 \in Good
  <2>1. Covered(b, markets, 0) = {}
    BY DEF Covered
  <2>2. Cardinality({}) = 0 /\ IsFiniteSet({})
    BY FS_EmptySet
  <2>3. HasEach({}, 0, <<>>) /\ 1..0 = {}
    BY DEF HasEach
  <2>4. OrderOf(b, {}, <<>>)
    BY <2>2, <2>3, PoppedIsOrder
  <2>5. OrderOf(b, Covered(b, markets, 0), f[0])
    BY <1>2, <2>1, <2>4 DEF DomainsUpTo
  <2>6. 0 \in 0..n
    BY <1>1
  <2>7. QED
    BY <2>5, <2>6
<1>5. ASSUME NEW i \in 0..(n - 1), i \in Good
      PROVE  i + 1 \in Good
  <2> PICK S : S = Covered(b, markets, i)
    OBVIOUS
  <2> PICK U : U = DomainOf(b, markets[i + 1])
    OBVIOUS
  <2>1. i \in Nat /\ i + 1 \in 1..n /\ i + 1 \in 0..n /\ \A l \in 1..i : l \in 1..n /\ l < i + 1
    BY <1>1
  <2>2. S \subseteq DOMAIN b /\ U \subseteq DOMAIN b
    BY DEF Covered, DomainOf
  <2>3. IsFiniteSet(S) /\ IsFiniteSet(U)
    BY <1>3, <2>2, FS_Subset
  <2>4. ASSUME NEW j \in S, NEW k \in U
        PROVE  b[j].market < b[k].market
    <3>1. PICK l \in 1..i : b[j].market = markets[l]
      BY DEF Covered
    <3>2. b[k].market = markets[i + 1]
      BY DEF DomainOf
    <3>3. QED
      BY <1>1, <2>1, <3>1, <3>2
  <2>5. Earlier(b, S, U)
    BY <1>3, <2>2, <2>4 DEF Earlier
  <2>6. OrderOf(b, U, order_domain(b, U))
    <3>1. OneMarket(b, U)
      BY DEF OneMarket, DomainOf
    <3>2. QED
      BY <2>2, <3>1, DomainOrdered
  <2>7. OrderOf(b, S, f[i])
    BY <1>5
  <2>8. OrderOf(b, S \cup U, f[i] \o order_domain(b, U))
    BY <2>3, <2>5, <2>6, <2>7, DomainsInOrder
  <2>9. S \cup U = Covered(b, markets, i + 1)
    <3>1. \A l \in 1..(i + 1) : l \in 1..i \/ l = i + 1
      BY <2>1
    <3>2. \A l \in 1..i : l \in 1..(i + 1)
      BY <2>1
    <3>3. i + 1 \in 1..(i + 1)
      BY <2>1
    <3>4. QED
      BY <3>1, <3>2, <3>3 DEF Covered, DomainOf
  <2>10. f[i + 1] = f[i] \o order_domain(b, U)
    BY <1>2 DEF DomainsUpTo
  <2>11. QED
    BY <2>1, <2>8, <2>9, <2>10
<1>6. 0..n \subseteq Good
  <2> HIDE DEF Good
  <2>1. QED
    BY <1>1, <1>4, <1>5, RM!StepByStep
<1>7. OrderOf(b, Covered(b, markets, n), f[n])
  BY <1>1, <1>6
<1>8. Covered(b, markets, n) = DOMAIN b
  BY <1>1 DEF Covered
<1>9. Domains(b) = f[n]
  BY <1>2 DEF DomainsUpTo
<1>10. QED
  BY <1>7, <1>8, <1>9

\* What the machine's buffer may hold.
OrderInv ==
  /\ pending \in Seq(Candidates)
  /\ \A j, k \in DOMAIN pending : pending[j].id = pending[k].id => j = k
  /\ \A j, k \in DOMAIN pending :
       pending[j].submitter = pending[k].submitter /\ pending[j].nonce = pending[k].nonce
       => j = k

\* It always is.
LEMMA OrderInvHolds == OrderSpec => []OrderInv
<1>1. OrderInit => OrderInv
  BY DEF OrderInit, OrderInv
<1>2. OrderInv /\ [OrderNext]_pending => OrderInv'
  <2>1. SUFFICES ASSUME OrderInv, [OrderNext]_pending PROVE OrderInv'
    OBVIOUS
  <2>2. CASE Take
    <3>1. pending' = <<>>
      BY <2>2 DEF Take
    <3>2. QED
      BY <3>1 DEF OrderInv
  <2>3. ASSUME NEW p \in Candidates, Push(p)
        PROVE  OrderInv'
    <3> PICK n : n = Len(pending)
      OBVIOUS
    <3>1. /\ n \in Nat /\ DOMAIN pending = 1..n
          /\ pending' \in Seq(Candidates) /\ DOMAIN pending' = 1..(n + 1)
          /\ pending'[n + 1] = p
          /\ \A k \in 1..n : pending'[k] = pending[k]
      BY <2>1, <2>3 DEF OrderInv, Push
    <3>2. \A k \in DOMAIN pending' : k = n + 1 \/ (k \in DOMAIN pending /\ k # n + 1)
      BY <3>1
    <3>3. \A k \in DOMAIN pending :
            /\ pending[k].id # p.id
            /\ ~ (pending[k].submitter = p.submitter /\ pending[k].nonce = p.nonce)
      BY <2>3 DEF Push
    <3>4. ASSUME NEW j \in DOMAIN pending', NEW k \in DOMAIN pending',
                 pending'[j].id = pending'[k].id
          PROVE  j = k
      BY <2>1, <3>1, <3>2, <3>3, <3>4 DEF OrderInv
    <3>5. ASSUME NEW j \in DOMAIN pending', NEW k \in DOMAIN pending',
                 pending'[j].submitter = pending'[k].submitter,
                 pending'[j].nonce = pending'[k].nonce
          PROVE  j = k
      BY <2>1, <3>1, <3>2, <3>3, <3>5 DEF OrderInv
    <3>6. QED
      BY <3>1, <3>4, <3>5 DEF OrderInv
  <2>4. CASE UNCHANGED pending
    BY <2>1, <2>4 DEF OrderInv
  <2>5. QED
    BY <2>1, <2>2, <2>3, <2>4 DEF OrderNext
<1>3. QED
  BY <1>1, <1>2, PTL DEF OrderSpec

\* So what order_slot is called with is a buffer.
LEMMA PendingIsABuffer ==
  ASSUME OrderInv
  PROVE  /\ IsBuffer(pending) /\ NoncesApart(pending)
         /\ DOMAIN pending = 1..Len(pending) /\ Len(pending) \in Nat
         /\ Cardinality(DOMAIN pending) = Len(pending)
<1> PICK n : n = Len(pending)
  OBVIOUS
<1>1. /\ DOMAIN pending = 1..n /\ n \in Nat
      /\ \A k \in DOMAIN pending : pending[k] \in Candidates
  BY DEF OrderInv
<1>2. IsFiniteSet(1..n) /\ Cardinality(1..n) = n
  <2>1. 1 \in Int /\ n \in Int
    BY <1>1
  <2>2. /\ IsFiniteSet(1..n)
        /\ Cardinality(1..n) = IF 1 > n THEN 0 ELSE n - 1 + 1
    BY <2>1, FS_Interval
  <2>3. QED
    BY <1>1, <2>2
<1>3. \A k \in DOMAIN pending :
        /\ pending[k].market \in Int /\ pending[k].nonce \in Int
        /\ pending[k].priority_fee \in Int
        /\ pending[k].received_at \in Int /\ pending[k].id \in Int
  BY <1>1, CandidatesAssumption
<1>4. IsBuffer(pending)
  BY <1>1, <1>2, <1>3 DEF IsBuffer, OrderInv
<1>5. NoncesApart(pending)
  BY DEF NoncesApart, OrderInv
<1>6. QED
  BY <1>1, <1>2, <1>4, <1>5

\* The loop of order_slot (sequencer.rs:101-136) returns the one order that the
\* policy defines (sequencer.rs:38-64), for every buffer.
THEOREM LoopIsPolicy == OrderSpec => []LoopFollowsPolicy
<1>1. ASSUME OrderInv PROVE LoopFollowsPolicy
  <2> PICK b : b = pending
    OBVIOUS
  <2> PICK arr : arr = Domains(b)
    OBVIOUS
  <2>1. IsBuffer(b)
    BY <1>1, PendingIsABuffer
  <2>2. arr \in Arrangements(DOMAIN b) /\ InPolicyOrder(arr, b)
    BY <2>1, LoopOrders DEF OrderOf
  <2>3. \A a \in Arrangements(DOMAIN b) : InPolicyOrder(a, b) => a = arr
    BY <2>1, <2>2, OneOrder
  <2>4. {a \in Arrangements(DOMAIN b) : InPolicyOrder(a, b)} = {arr}
    BY <2>2, <2>3
  <2>5. {IdsOf(b, a) : a \in {arr}} = {IdsOf(b, arr)}
    OBVIOUS
  <2>6. QED
    BY <2>4, <2>5 DEF LoopFollowsPolicy, order_slot
<1>2. QED
  BY <1>1, OrderInvHolds, PTL

\* c has the intents of b in another arrival order, p.
Rearranges(p, b, c) ==
  /\ DOMAIN c = DOMAIN b
  /\ \A k \in DOMAIN b : p[k] \in DOMAIN b /\ c[k] = b[p[k]]
  /\ \A j, k \in DOMAIN b : p[j] = p[k] => j = k
  /\ \A x \in DOMAIN b : \E k \in DOMAIN b : p[k] = x

\* It is a buffer as well and holds the same intents.
LEMMA Rearranged ==
  ASSUME NEW b, IsBuffer(b), NEW p, NEW c, Rearranges(p, b, c)
  PROVE  /\ IsBuffer(c)
         /\ SameIntents(b, c)
<1> PICK D : D = DOMAIN b
  OBVIOUS
<1>1. /\ D \subseteq Int /\ IsFiniteSet(D)
      /\ \A k \in D :
           /\ b[k].market \in Int /\ b[k].nonce \in Int /\ b[k].priority_fee \in Int
           /\ b[k].received_at \in Int /\ b[k].id \in Int
      /\ \A j, k \in D : b[j].id = b[k].id => j = k
  BY DEF IsBuffer
<1>2. DOMAIN c = D /\ \A k \in D : p[k] \in D /\ c[k] = b[p[k]]
  BY Zenon DEF Rearranges
<1>3. \A j, k \in D : p[j] = p[k] => j = k
  BY Zenon DEF Rearranges
<1>4. \A x \in D : \E k \in D : p[k] = x
  BY Zenon DEF Rearranges
<1>5. ASSUME NEW k \in D
      PROVE  /\ c[k].market \in Int /\ c[k].nonce \in Int /\ c[k].priority_fee \in Int
             /\ c[k].received_at \in Int /\ c[k].id \in Int
  <2> PICK x : x = p[k]
    OBVIOUS
  <2>1. x \in D /\ c[k] = b[x]
    BY <1>2
  <2>2. QED
    BY <1>1, <2>1
<1>6. ASSUME NEW j \in D, NEW k \in D, c[j].id = c[k].id
      PROVE  j = k
  <2> PICK x : x = p[j]
    OBVIOUS
  <2> PICK y : y = p[k]
    OBVIOUS
  <2>1. x \in D /\ y \in D /\ c[j] = b[x] /\ c[k] = b[y]
    BY <1>2
  <2>2. x = y
    BY <1>1, <1>6, <2>1
  <2>3. QED
    BY <1>3, <2>2
<1>7. ASSUME NEW x \in D
      PROVE  b[x] \in {c[k] : k \in D}
  <2>1. PICK k \in D : p[k] = x
    BY <1>4
  <2>2. c[k] = b[x]
    BY <1>2, <2>1
  <2>3. QED
    BY <2>2
<1>8. \A k \in D : c[k] \in {b[x] : x \in D}
  BY <1>2
<1>9. IsBuffer(c)
  BY <1>1, <1>2, <1>5, <1>6 DEF IsBuffer
<1>10. {b[k] : k \in D} = {c[k] : k \in D}
  BY <1>7, <1>8
<1>11. SameIntents(b, c)
  BY <1>2, <1>10 DEF SameIntents
<1>12. QED
  BY <1>9, <1>11

\* order_slot returns the same slot for both.
LEMMA SameSlot ==
  ASSUME NEW b, IsBuffer(b), NoncesApart(b), NEW p, NEW c, Rearranges(p, b, c)
  PROVE  order_slot(c) = order_slot(b)
<1> PICK arr : arr = Domains(b)
  OBVIOUS
<1> PICK other : other = Domains(c)
  OBVIOUS
<1>1. IsBuffer(c) /\ SameIntents(b, c)
  BY Rearranged
<1>2. /\ arr \in Arrangements(DOMAIN b) /\ InPolicyOrder(arr, b)
      /\ other \in Arrangements(DOMAIN c) /\ InPolicyOrder(other, c)
  BY <1>1, LoopOrders DEF OrderOf
<1> PICK f : f = SlotOf(b, arr)
  OBVIOUS
<1>3. f = SlotOf(c, other)
  BY <1>1, <1>2, SlotIsOfTheSet
<1>4. DOMAIN f = DOMAIN arr /\ \A k \in DOMAIN arr : f[k] = b[arr[k]]
  BY DEF SlotOf
<1>5. DOMAIN f = DOMAIN other /\ \A k \in DOMAIN other : f[k] = c[other[k]]
  BY <1>3 DEF SlotOf
<1>6. IdsOf(b, arr) = IdsOf(c, other)
  BY <1>4, <1>5 DEF IdsOf
<1>7. QED
  BY <1>6 DEF order_slot

\* "The slot is a pure function of the buffered set" (README.md:170-173): the loop
\* returns the same ids for whatever arrival order of the same intents.
THEOREM LoopIsOfTheSet == OrderSpec => []SlotIsAFunctionOfTheSet
<1>1. ASSUME OrderInv, NEW p \in Arrangements(DOMAIN pending)
      PROVE  order_slot([k \in DOMAIN pending |-> pending[p[k]]]) = order_slot(pending)
  <2> PICK b : b = pending
    OBVIOUS
  <2> PICK c : c = [k \in DOMAIN b |-> b[p[k]]]
    OBVIOUS
  <2>1. /\ IsBuffer(b) /\ NoncesApart(b) /\ IsFiniteSet(DOMAIN b)
        /\ DOMAIN b = 1..Cardinality(DOMAIN b)
    BY <1>1, PendingIsABuffer DEF IsBuffer
  <2>2. /\ \A k \in DOMAIN b : p[k] \in DOMAIN b
        /\ \A j, k \in DOMAIN b : p[j] = p[k] => j = k
        /\ \A x \in DOMAIN b : \E k \in DOMAIN b : p[k] = x
    <3>1. p \in Arrangements(DOMAIN b)
      OBVIOUS
    <3>2. DOMAIN p = DOMAIN b
      BY <2>1, <3>1, ArrangementOf
    <3>3. QED
      BY <2>1, <3>1, <3>2, ArrangementOf
  <2>3. DOMAIN c = DOMAIN b /\ \A k \in DOMAIN b : c[k] = b[p[k]]
    OBVIOUS
  <2>4. Rearranges(p, b, c)
    BY <2>2, <2>3, Zenon DEF Rearranges
  <2>5. order_slot(c) = order_slot(b)
    BY <2>1, <2>4, SameSlot
  <2>6. QED
    BY <2>5
<1>2. OrderInv => SlotIsAFunctionOfTheSet
  BY <1>1 DEF SlotIsAFunctionOfTheSet
<1>3. QED
  BY <1>2, OrderInvHolds, PTL

\* What is left of a buffer without the other markets is a buffer.
LEMMA MarketIsABuffer ==
  ASSUME NEW b, IsBuffer(b), NEW m
  PROVE  /\ IsBuffer(MarketOf(b, m))
         /\ DOMAIN MarketOf(b, m) \subseteq DOMAIN b
         /\ \A k \in DOMAIN MarketOf(b, m) : MarketOf(b, m)[k] = b[k]
<1> PICK c : c = MarketOf(b, m)
  OBVIOUS
<1>1. DOMAIN c \subseteq DOMAIN b /\ \A k \in DOMAIN c : c[k] = b[k]
  BY DEF MarketOf
<1>2. IsFiniteSet(DOMAIN c)
  BY <1>1, FS_Subset DEF IsBuffer
<1>3. IsBuffer(c)
  BY <1>1, <1>2 DEF IsBuffer
<1>4. QED
  BY <1>1, <1>3

\* Markets are ordering domains of their own (README.md:152-153): the loop returns
\* a market's intents in the order it returns them in when the others are not there.
THEOREM LoopKeepsMarketsApart == OrderSpec => []MarketsDoNotCompete
<1>1. ASSUME OrderInv, NEW m
      PROVE  LET own == order_slot(MarketOf(pending, m))
                 all == order_slot(pending)
             IN  /\ Range(own) = {pending[k].id : k \in DOMAIN MarketOf(pending, m)}
                 /\ \A i, j \in DOMAIN all, k, l \in DOMAIN own :
                      all[i] = own[k] /\ all[j] = own[l] => (i < j <=> k < l)
  <2> PICK b : b = pending
    OBVIOUS
  <2> PICK c : c = MarketOf(b, m)
    OBVIOUS
  <2> PICK arr : arr = Domains(b)
    OBVIOUS
  <2> PICK other : other = Domains(c)
    OBVIOUS
  <2> PICK own : own = order_slot(c)
    OBVIOUS
  <2> PICK all : all = order_slot(b)
    OBVIOUS
  <2>1. IsBuffer(b)
    BY <1>1, PendingIsABuffer
  <2>2. /\ IsBuffer(c)
        /\ DOMAIN c \subseteq DOMAIN b
        /\ \A k \in DOMAIN c : c[k] = b[k]
    BY <2>1, MarketIsABuffer
  <2>3. /\ arr \in Arrangements(DOMAIN b) /\ InPolicyOrder(arr, b)
        /\ other \in Arrangements(DOMAIN c) /\ InPolicyOrder(other, c)
    BY <2>1, <2>2, LoopOrders DEF OrderOf
  <2>4. \A i \in DOMAIN arr : arr[i] \in DOMAIN b
    BY <2>1, <2>3, ArrangementOf DEF IsBuffer
  <2>5. /\ \A k \in DOMAIN other : other[k] \in DOMAIN c
        /\ \A x \in DOMAIN c : \E k \in DOMAIN other : other[k] = x
    BY <2>2, <2>3, ArrangementOf DEF IsBuffer
  <2>6. /\ DOMAIN all = DOMAIN arr /\ \A i \in DOMAIN arr : all[i] = b[arr[i]].id
        /\ DOMAIN own = DOMAIN other /\ \A k \in DOMAIN other : own[k] = c[other[k]].id
    BY DEF order_slot, IdsOf
  <2>7. \A k \in DOMAIN other : other[k] \in DOMAIN b /\ own[k] = b[other[k]].id
    BY <2>2, <2>5, <2>6
  <2>8. Range(own) = {b[k].id : k \in DOMAIN c}
    <3>1. Range(own) = {own[k] : k \in DOMAIN other}
      BY <2>6 DEF Range
    <3>2. QED
      BY <2>5, <2>7, <3>1
  <2>9. ASSUME NEW i \in DOMAIN arr, NEW k \in DOMAIN other, all[i] = own[k]
        PROVE  arr[i] = other[k]
    <3>1. b[arr[i]].id = b[other[k]].id
      BY <2>6, <2>7, <2>9
    <3>2. QED
      BY <2>1, <2>4, <2>7, <3>1 DEF IsBuffer
  <2>10. ASSUME NEW i \in DOMAIN arr, NEW j \in DOMAIN arr,
                NEW k \in DOMAIN other, NEW l \in DOMAIN other,
                all[i] = own[k], all[j] = own[l]
         PROVE  i < j <=> k < l
    <3>1. arr[i] = other[k] /\ arr[j] = other[l]
      BY <2>9, <2>10
    <3>2. QED
      BY <2>1, <2>3, <3>1, MarketsApart
  <2>11. QED
    BY <2>6, <2>8, <2>10
<1>2. OrderInv => MarketsDoNotCompete
  BY <1>1 DEF MarketsDoNotCompete
<1>3. QED
  BY <1>2, OrderInvHolds, PTL

-----------------------------------------------------------------------------
(* The slots of the log: numbered densely (SlotsAreDense), and a           *)
(* submitter's intents in nonce order over all of them                     *)
(* (CommittedInNonceOrder).                                                *)

\* How many slots are committed up to and including the one at p.
Rank(entries, p) == Cardinality({q \in Committed(entries) : q =< p})

\* Every count of slots is the rank of one.
Ranked(entries) ==
  \A n \in 1..Cardinality(Committed(entries)) :
    \E c \in Committed(entries) : Rank(entries, c) = n

\* The slots committed so far and what the sequencer goes on from: its next
\* number is their count, nothing it holds was consumed, nothing it closes
\* next closes before them.
NumberInv ==
  /\ SlotAfter(log) = Cardinality(Committed(log))
  /\ seq # "down" => nextSlot = SlotAfter(log)
  /\ \A c \in Committed(log) :
       /\ log[c].consumed_up_to =< ConsumedBy(log)
       /\ log[c].committed_at_ms =< clock
       /\ seq = "closing" => log[c].committed_at_ms =< closedAt
  /\ Ranked(log)

\* The j-th intent of the slot at c and the k-th of the slot at d stand in nonce
\* order, if they are of one submitter and market.
InOrder(c, j, d, k) ==
  \A p, q \in Received(log) :
    /\ log[c].intents[j] = log[p].intent.id
    /\ log[d].intents[k] = log[q].intent.id
    /\ log[p].intent.submitter = log[q].intent.submitter
    /\ log[p].intent.market = log[q].intent.market
    /\ log[p].intent.nonce < log[q].intent.nonce
    => c < d \/ (c = d /\ j < k)

NonceInv ==
  \A c, d \in Committed(log) :
    \A j \in DOMAIN log[c].intents : \A k \in DOMAIN log[d].intents :
      InOrder(c, j, d, k)

SlotsInv == NumberInv /\ SlotsAreDense /\ NonceInv

\* The committed slots are finitely many.
LEMMA CommitsAreFinite ==
  ASSUME NEW entries \in Seq(Entries)
  PROVE  /\ IsFiniteSet(Committed(entries))
         /\ Cardinality(Committed(entries)) \in Nat
         /\ \A P \in SUBSET Committed(entries) :
              IsFiniteSet(P) /\ Cardinality(P) \in Nat
<1>1. Committed(entries) \subseteq 1..Len(entries) /\ Len(entries) \in Nat
  BY EntryFields
<1>2. IsFiniteSet(Committed(entries))
  <2>1. IsFiniteSet(1..Len(entries))
    BY <1>1, FS_Interval
  <2>2. QED
    BY <1>1, <2>1, FS_Subset
<1>3. \A P \in SUBSET Committed(entries) : IsFiniteSet(P)
  BY <1>2, FS_Subset
<1>4. \A P \in SUBSET Committed(entries) : Cardinality(P) \in Nat
  BY <1>3, FS_CardinalityType
<1>5. QED
  BY <1>2, <1>3, <1>4, FS_CardinalityType

\* Only a commitment changes the number recovery goes on from.
LEMMA NumberAfterAppend ==
  ASSUME NEW entries \in Seq(Entries), NEW e \in Entries
  PROVE  /\ e.kind # "SlotCommitted"
              => SlotAfter(Append(entries, e)) = SlotAfter(entries)
         /\ e.kind = "SlotCommitted"
              => SlotAfter(Append(entries, e)) = e.slot + 1
<1> DEFINE longer == Append(entries, e)
           n == Len(entries) + 1
<1>1. Committed(entries) \subseteq 1..Len(entries)
  BY EntryFields
<1>2. /\ longer \in Seq(Entries)
      /\ longer[n] = e
      /\ n \in Nat
      /\ DOMAIN entries = 1..Len(entries)
      /\ \A p \in DOMAIN entries : longer[p] = entries[p]
      /\ Committed(longer) =
           Committed(entries) \cup (IF e.kind = "SlotCommitted" THEN {n} ELSE {})
  BY AppendedLog
<1>3. CASE e.kind # "SlotCommitted"
  <2>1. Committed(longer) = Committed(entries)
    BY <1>2, <1>3
  <2>2. LastCommit(longer) = LastCommit(entries)
    BY <2>1 DEF LastCommit
  <2>3. CASE Committed(entries) = {}
    BY <1>3, <2>1, <2>3 DEF SlotAfter
  <2>4. CASE Committed(entries) # {}
    <3>1. LastCommit(entries) \in DOMAIN entries
      BY <1>1, <1>2, <2>4, LastCommitExists
    <3>2. longer[LastCommit(longer)] = entries[LastCommit(entries)]
      BY <1>2, <2>2, <3>1
    <3>3. QED
      BY <1>3, <2>1, <2>4, <3>2 DEF SlotAfter
  <2>5. QED
    BY <2>3, <2>4
<1>4. CASE e.kind = "SlotCommitted"
  <2>1. Committed(longer) = Committed(entries) \cup {n}
    BY <1>2, <1>4
  <2>2. LastCommit(longer) \in Committed(longer) /\ n =< LastCommit(longer)
    BY <1>2, <2>1, LastCommitExists
  <2>3. LastCommit(longer) = n
    BY <1>1, <1>2, <2>1, <2>2
  <2>4. QED
    BY <1>2, <1>4, <2>1, <2>3 DEF SlotAfter
<1>5. QED
  BY <1>3, <1>4

\* A slot at the end comes after all others: their ranks stay, its own is new.
LEMMA RanksAfterCommit ==
  ASSUME TypeOK, NEW e \in Entries, e.kind = "SlotCommitted", log' = Append(log, e),
         NEW n, n = Len(log) + 1
  PROVE  /\ Committed(log') = Committed(log) \cup {n}
         /\ n \notin Committed(log)
         /\ Cardinality(Committed(log')) = Cardinality(Committed(log)) + 1
         /\ Rank(log', n) = Cardinality(Committed(log)) + 1
         /\ {q \in Committed(log') : q < n} = Committed(log)
         /\ \A c \in Committed(log) :
              /\ c < n
              /\ log'[c] = log[c]
              /\ {q \in Committed(log') : q < c} = {q \in Committed(log) : q < c}
              /\ Rank(log', c) = Rank(log, c)
<1>1. /\ Committed(log') = Committed(log) \cup {n}
      /\ \A c \in Committed(log) : log'[c] = log[c] /\ c \in 1..Len(log)
      /\ Len(log) \in Nat
  BY LogGrows
<1>2. \A c \in Committed(log) : c \in Nat /\ c < n
  BY <1>1
<1>3. n \in Nat /\ n \notin Committed(log)
  BY <1>1, <1>2
<1>4. IsFiniteSet(Committed(log))
  BY CommitsAreFinite DEF TypeOK
<1>5. Cardinality(Committed(log')) = Cardinality(Committed(log)) + 1
  BY <1>1, <1>3, <1>4, FS_AddElement
<1>6. {q \in Committed(log') : q =< n} = Committed(log')
      /\ {q \in Committed(log') : q < n} = Committed(log)
  BY <1>1, <1>2, <1>3
<1>7. ASSUME NEW c \in Committed(log)
      PROVE  /\ {q \in Committed(log') : q < c} = {q \in Committed(log) : q < c}
         /\ {q \in Committed(log') : q =< c} = {q \in Committed(log) : q =< c}
  BY <1>1, <1>2, <1>3
<1>8. \A c \in Committed(log) : Rank(log', c) = Rank(log, c)
  BY <1>7 DEF Rank
<1>9. Rank(log', n) = Cardinality(Committed(log)) + 1
  BY <1>5, <1>6 DEF Rank
<1>10. QED
  BY <1>1, <1>2, <1>3, <1>5, <1>6, <1>7, <1>8, <1>9

\* Two slots do not have one rank.
LEMMA RanksDiffer ==
  ASSUME NEW entries \in Seq(Entries), NEW c \in Committed(entries), NEW d \in Committed(entries), c < d
  PROVE  Rank(entries, c) < Rank(entries, d) /\ Rank(entries, d) =< Cardinality(Committed(entries))
<1> DEFINE C == {q \in Committed(entries) : q =< c}
           D == {q \in Committed(entries) : q =< d}
<1>1. Committed(entries) \subseteq 1..Len(entries) /\ Len(entries) \in Nat
  BY EntryFields
<1>2. C \subseteq D /\ d \in D /\ d \notin C /\ D \subseteq Committed(entries)
  BY <1>1
<1>3. IsFiniteSet(D) /\ IsFiniteSet(Committed(entries)) /\ Cardinality(C) \in Nat
      /\ Cardinality(D) \in Nat
  BY <1>2, CommitsAreFinite
<1>4. Cardinality(C) =< Cardinality(D) /\ Cardinality(C) # Cardinality(D)
  BY <1>2, <1>3, FS_Subset
<1>5. Cardinality(D) =< Cardinality(Committed(entries))
  BY <1>2, <1>3, FS_Subset
<1>6. QED
  BY <1>3, <1>4, <1>5 DEF Rank

\* A step that leaves the log and what the sequencer goes on from alone.
LEMMA SlotsFrame ==
  ASSUME TypeOK, SlotsInv, log' = log, clock' \in Nat, clock =< clock',
         \/ UNCHANGED <<seq, nextSlot, closedAt>>
         \/ seq' = "down"
         \/ seq' = "idle" /\ nextSlot' = SlotAfter(log)
         \/ seq = "idle" /\ seq' = "closing" /\ closedAt' = clock /\ nextSlot' = nextSlot
  PROVE  SlotsInv'
<1>1. \A c \in Committed(log) : log[c].committed_at_ms \in Nat
  BY EntryFields DEF TypeOK
<1>2. clock \in Nat
  BY DEF TypeOK
<1>3. \A c \in Committed(log') :
        /\ log'[c].consumed_up_to =< ConsumedBy(log')
        /\ log'[c].committed_at_ms =< clock'
        /\ seq' = "closing" => log'[c].committed_at_ms =< closedAt'
  BY <1>1, <1>2 DEF SlotsInv, NumberInv
<1>4. /\ SlotAfter(log') = Cardinality(Committed(log'))
      /\ seq' # "down" => nextSlot' = SlotAfter(log')
  BY DEF SlotsInv, NumberInv
<1>5. \A n \in 1..Cardinality(Committed(log')) :
        \E c \in Committed(log') : Rank(log', c) = n
  BY DEF SlotsInv, NumberInv, Ranked, Rank
<1>6. SlotsAreDense' /\ NonceInv'
  BY DEF SlotsInv, SlotsAreDense, NonceInv, InOrder
<1>7. QED
  BY <1>3, <1>4, <1>5, <1>6 DEF SlotsInv, NumberInv

\* An append that is no commitment.  If it is an admission, the log has not had
\* its id, so no slot has it.
LEMMA SlotsAfterOther ==
  ASSUME TypeOK, SlotsInv, PromiseInv, NEW e \in Entries, e.kind # "SlotCommitted",
         log' = Append(log, e), UNCHANGED <<clock, seq, nextSlot, closedAt>>,
         e.kind = "IntentReceived" => e.intent.id \notin ReceivedIds(log)
  PROVE  SlotsInv'
<1>n. PICK n : n = Len(log) + 1
  OBVIOUS
<1>1. /\ Committed(log') = Committed(log)
      /\ \A c \in Committed(log) : log'[c] = log[c] /\ c \in 1..Len(log)
      /\ \A p \in Received(log) : log'[p] = log[p] /\ p \in Received(log')
      /\ \A p \in Received(log') :
           p \in Received(log) \/ (log'[p] = e /\ e.kind = "IntentReceived")
  BY <1>n, LogGrows
<1>2. SlotAfter(log') = SlotAfter(log) /\ ConsumedBy(log') = ConsumedBy(log)
  BY NumberAfterAppend, RecoveryAfterAppend DEF TypeOK
<1>3. NumberInv'
  <2>1. \A c \in Committed(log) : Rank(log', c) = Rank(log, c)
    BY <1>1 DEF Rank
  <2>2. QED
    BY <1>1, <1>2, <2>1 DEF SlotsInv, NumberInv, Ranked
<1>4. SlotsAreDense'
  BY <1>1 DEF SlotsInv, SlotsAreDense
<1>5. ASSUME NEW c \in Committed(log), NEW k \in DOMAIN log[c].intents,
             NEW p \in Received(log'), log[c].intents[k] = log'[p].intent.id
      PROVE  p \in Received(log)
  <2>1. log[c].intents[k] \in ReceivedIds(log)
    BY DEF PromiseInv, KeptInv, Includes, ReceivedIds
  <2>2. QED
    BY <1>1, <1>5, <2>1
<1>6. ASSUME NEW c \in Committed(log), NEW d \in Committed(log),
             NEW j \in DOMAIN log[c].intents, NEW k \in DOMAIN log[d].intents
      PROVE  InOrder(c, j, d, k)'
  <2>1. InOrder(c, j, d, k)
    BY DEF SlotsInv, NonceInv
  <2>2. log'[c] = log[c] /\ log'[d] = log[d]
    BY <1>1
  <2>3. \A p \in Received(log') :
          /\ log'[c].intents[j] = log'[p].intent.id
               => p \in Received(log) /\ log'[p] = log[p]
          /\ log'[d].intents[k] = log'[p].intent.id
               => p \in Received(log) /\ log'[p] = log[p]
    BY <1>1, <1>5, <2>2
  <2>4. ASSUME NEW p \in Received(log'), NEW q \in Received(log'),
               log'[c].intents[j] = log'[p].intent.id,
               log'[d].intents[k] = log'[q].intent.id,
               log'[p].intent.submitter = log'[q].intent.submitter,
               log'[p].intent.market = log'[q].intent.market,
               log'[p].intent.nonce < log'[q].intent.nonce
        PROVE  c < d \/ (c = d /\ j < k)
    <3>1. /\ p \in Received(log) /\ log'[p] = log[p]
          /\ q \in Received(log) /\ log'[q] = log[q]
      BY <2>3, <2>4
    <3>2. log[c].intents[j] = log[p].intent.id /\ log[d].intents[k] = log[q].intent.id
      BY <2>2, <2>4, <3>1
    <3>3. QED
      BY <2>1, <2>4, <3>1, <3>2 DEF InOrder
  <2>5. QED
    BY <2>4 DEF InOrder
<1>7. NonceInv'
  BY <1>1, <1>6 DEF NonceInv
<1>8. QED
  BY <1>3, <1>4, <1>7 DEF SlotsInv

\* A policy order has a submitter's intents of one market in nonce order: the
\* one of the lower nonce is still in its queue, ahead of the other.
LEMMA PolicyKeepsNonces ==
  ASSUME TypeOK, NEW arr \in Arrangements(live),
         InPolicyOrder(arr, [p \in live |-> Pending(p)]),
         NEW j \in DOMAIN arr, NEW k \in DOMAIN arr,
         log[arr[j]].intent.submitter = log[arr[k]].intent.submitter,
         log[arr[j]].intent.market = log[arr[k]].intent.market,
         log[arr[j]].intent.nonce < log[arr[k]].intent.nonce
  PROVE  j < k
<1> DEFINE B == [p \in live |-> Pending(p)]
           rest == {arr[l] : l \in {m \in DOMAIN arr : m >= k}}
<1>1. /\ DOMAIN arr \subseteq Nat
      /\ arr[j] \in live /\ arr[k] \in live
  <2>1. DOMAIN arr = 1..Cardinality(live) /\ Cardinality(live) \in Nat
    BY ArrangedIds
  <2>2. \A l \in DOMAIN arr : arr[l] \in live
    BY ArrangedIds
  <2>3. QED
    BY <2>1, <2>2
<1>2. arr[j] \in Received(log) /\ arr[k] \in Received(log)
  BY <1>1 DEF TypeOK
<1>3. log[arr[j]].intent.nonce \in Nat /\ log[arr[k]].intent.nonce \in Nat
  BY <1>2, EntryFields, IntentsAssumption DEF TypeOK
<1>4. j # k
  BY <1>3
<1>5. QueuedBefore(B, arr[j], arr[k])
  <2>1. /\ B[arr[j]] = Pending(arr[j])
        /\ B[arr[k]] = Pending(arr[k])
    BY <1>1
  <2>2. QED
    BY <2>1 DEF QueuedBefore, Pending
<1>6. PopsNext(B, rest, arr[k])
  BY DEF InPolicyOrder
<1>7. AtFront(B, rest, arr[k])
  BY <1>6 DEF PopsNext
<1>8. arr[j] \notin rest
  BY <1>5, <1>7 DEF AtFront
<1>9. ~ (j >= k)
  BY <1>8
<1>10. j \in Nat /\ k \in Nat
  BY <1>1
<1>11. QED
  BY <1>9, <1>10

\* A commitment: the next number, a later cursor, a later instant; what is in it
\* was received after everything in the slots before.
LEMMA SlotsAfterCommit ==
  ASSUME TypeOK, NoncesAdvance, PromiseInv, SlotsInv, CommitSlot
  PROVE  SlotsInv'
<1>1. PICK arr \in Arrangements(live), e \in Entries :
        /\ e = SlotCommitted(nextSlot,
                 [k \in DOMAIN arr |-> log[arr[k]].intent.id], cursor, closedAt)
        /\ e.kind = "SlotCommitted"
        /\ log' = Append(log, e)
        /\ InPolicyOrder(arr, [p \in live |-> Pending(p)])
  BY CommitAppended
<1>n. PICK n : n = Len(log) + 1
  OBVIOUS
<1>2. /\ seq = "closing" /\ seq' = "idle" /\ nextSlot' = nextSlot + 1
      /\ UNCHANGED <<clock, cursor, closedAt>>
  BY DEF CommitSlot
<1>3. /\ e.slot = nextSlot
      /\ e.consumed_up_to = cursor
      /\ e.committed_at_ms = closedAt
      /\ e.intents = [k \in DOMAIN arr |-> log[arr[k]].intent.id]
      /\ DOMAIN e.intents = DOMAIN arr
  BY <1>1 DEF SlotCommitted
<1>4. /\ log'[n] = e
      /\ Received(log') = Received(log)
      /\ \A p \in Received(log) : log'[p] = log[p] /\ p \in 1..Len(log)
      /\ Len(log) \in Nat
  BY <1>1, <1>n, LogGrows
<1>5. /\ Committed(log') = Committed(log) \cup {n}
      /\ n \notin Committed(log)
      /\ Cardinality(Committed(log')) = Cardinality(Committed(log)) + 1
      /\ Rank(log', n) = Cardinality(Committed(log)) + 1
      /\ {q \in Committed(log') : q < n} = Committed(log)
      /\ \A c \in Committed(log) :
           /\ c < n
           /\ log'[c] = log[c]
           /\ {q \in Committed(log') : q < c} = {q \in Committed(log) : q < c}
           /\ Rank(log', c) = Rank(log, c)
  BY <1>1, <1>n, RanksAfterCommit
<1>6. /\ SlotAfter(log') = nextSlot + 1
      /\ ConsumedBy(log') = cursor
      /\ nextSlot = Cardinality(Committed(log))
      /\ nextSlot \in Nat /\ cursor \in Nat /\ closedAt \in Nat /\ clock \in Nat
      /\ ConsumedBy(log) \in Nat
      /\ ConsumedBy(log) =< cursor /\ cursor =< Len(log) /\ closedAt =< clock
  <2>1. SlotAfter(log') = nextSlot + 1 /\ ConsumedBy(log') = cursor
    BY <1>1, <1>3, NumberAfterAppend, RecoveryAfterAppend DEF TypeOK
  <2>2. nextSlot = Cardinality(Committed(log))
    BY <1>2 DEF SlotsInv, NumberInv
  <2>3. /\ nextSlot \in Nat /\ cursor \in 0..Len(log) /\ closedAt \in Nat
        /\ clock \in Nat /\ ConsumedBy(log) \in Nat
    BY RecoveryTypes DEF TypeOK
  <2>4. ConsumedBy(log) =< cursor /\ closedAt =< clock
    BY <1>2 DEF PromiseInv, HandInv
  <2>5. QED
    BY <1>4, <2>1, <2>2, <2>3, <2>4
<1>7. ASSUME NEW c \in Committed(log)
      PROVE  /\ c \in Nat
             /\ log[c].consumed_up_to \in Nat /\ log[c].committed_at_ms \in Nat
             /\ log[c].consumed_up_to =< cursor
             /\ log[c].committed_at_ms =< closedAt
  <2>1. /\ c \in Nat
        /\ log[c].consumed_up_to \in Nat /\ log[c].committed_at_ms \in Nat
    BY EntryFields DEF TypeOK
  <2>2. /\ log[c].consumed_up_to =< ConsumedBy(log)
        /\ log[c].committed_at_ms =< closedAt
    BY <1>2 DEF SlotsInv, NumberInv
  <2>3. QED
    BY <1>6, <2>1, <2>2
<1>8. NumberInv'
  <2>1. /\ SlotAfter(log') = Cardinality(Committed(log'))
        /\ nextSlot' = SlotAfter(log')
    BY <1>2, <1>5, <1>6
  <2>2. ASSUME NEW c \in Committed(log')
        PROVE  /\ log'[c].consumed_up_to =< ConsumedBy(log')
               /\ log'[c].committed_at_ms =< clock'
    <3>1. CASE c = n
      BY <1>2, <1>3, <1>4, <1>6, <3>1
    <3>2. CASE c \in Committed(log)
      <4>1. log[c].committed_at_ms =< clock
        BY <1>6, <1>7, <3>2
      <4>2. QED
        BY <1>2, <1>5, <1>6, <1>7, <3>2, <4>1
    <3>3. QED
      BY <1>5, <3>1, <3>2
  <2>3. ASSUME NEW r \in 1..Cardinality(Committed(log'))
        PROVE  \E c \in Committed(log') : Rank(log', c) = r
    <3>1. CASE r = Cardinality(Committed(log)) + 1
      BY <1>5, <3>1
    <3>2. CASE r \in 1..Cardinality(Committed(log))
      <4>1. PICK c \in Committed(log) : Rank(log, c) = r
        BY <3>2 DEF SlotsInv, NumberInv, Ranked
      <4>2. QED
        BY <1>5, <4>1
    <3>3. Cardinality(Committed(log)) \in Nat
      BY <1>6
    <3>4. QED
      BY <1>5, <3>1, <3>2, <3>3
  <2>4. QED
    BY <1>2, <2>1, <2>2, <2>3 DEF NumberInv, Ranked
<1>9. SlotsAreDense'
  <2>1. ASSUME NEW c \in Committed(log)
        PROVE  /\ log'[c].slot = Cardinality({q \in Committed(log') : q < c})
               /\ log'[c].consumed_up_to < c
               /\ \A q \in Committed(log') : q < c =>
                    /\ log'[q].consumed_up_to =< log'[c].consumed_up_to
                    /\ log'[q].committed_at_ms =< log'[c].committed_at_ms
    <3>1. /\ log[c].slot = Cardinality({q \in Committed(log) : q < c})
          /\ log[c].consumed_up_to < c
          /\ \A q \in Committed(log) : q < c =>
               /\ log[q].consumed_up_to =< log[c].consumed_up_to
               /\ log[q].committed_at_ms =< log[c].committed_at_ms
      BY DEF SlotsInv, SlotsAreDense
    <3>2. \A q \in Committed(log') : q < c => q \in Committed(log)
      BY <1>5
    <3>3. QED
      BY <1>5, <3>1, <3>2
  <2>2. /\ log'[n].slot = Cardinality({q \in Committed(log') : q < n})
        /\ log'[n].consumed_up_to < n
    <3>1. {q \in Committed(log') : q < n} = Committed(log)
      BY <1>5
    <3>2. log'[n].slot = Cardinality(Committed(log)) /\ log'[n].consumed_up_to = cursor
      BY <1>3, <1>4, <1>6
    <3>3. cursor < n
      BY <1>4, <1>6, <1>n
    <3>4. QED
      BY <3>1, <3>2, <3>3
  <2>3. \A q \in Committed(log') : q < n =>
          /\ log'[q].consumed_up_to =< log'[n].consumed_up_to
          /\ log'[q].committed_at_ms =< log'[n].committed_at_ms
    <3>1. \A q \in Committed(log') : q < n => q \in Committed(log)
      BY <1>5
    <3>2. QED
      BY <1>3, <1>4, <1>5, <1>7, <3>1
  <2>4. QED
    BY <1>5, <2>1, <2>2, <2>3 DEF SlotsAreDense
<1>10. NonceInv'
  <2>1. ASSUME NEW c \in Committed(log), NEW j \in DOMAIN log[c].intents,
               NEW p \in Received(log), log[c].intents[j] = log[p].intent.id
        PROVE  p =< ConsumedBy(log)
    <3>1. PICK q \in Received(log) : Includes(c, j, q)
      BY DEF PromiseInv, KeptInv
    <3>2. q = p
      BY <2>1, <3>1, OneArrival DEF Includes
    <3>3. QED
      BY <3>1, <3>2 DEF Includes
  <2>2. ASSUME NEW k \in DOMAIN e.intents,
               NEW p \in Received(log), e.intents[k] = log[p].intent.id
        PROVE  p = arr[k] /\ ConsumedBy(log) < p
    <3>1. arr[k] \in live /\ e.intents[k] = log[arr[k]].intent.id
      BY <1>3, ArrangedIds
    <3>2. arr[k] \in Received(log) /\ ConsumedBy(log) < arr[k]
      BY <1>2, <3>1 DEF TypeOK, PromiseInv, HandInv, InHand
    <3>3. QED
      BY <2>2, <3>1, <3>2, OneArrival
  <2>3. ASSUME NEW p \in Received(log), NEW q \in Received(log),
               log[p].intent.submitter = log[q].intent.submitter,
               log[p].intent.nonce < log[q].intent.nonce
        PROVE  p < q
    <3>1. /\ p \in Int /\ q \in Int
          /\ log[p].intent.nonce \in Int /\ log[q].intent.nonce \in Int
      BY EntryFields, IntentsAssumption DEF TypeOK
    <3>2. q < p => log[q].intent.nonce < log[p].intent.nonce
      BY <2>3 DEF NoncesAdvance
    <3>3. p # q
      BY <2>3, <3>1
    <3>4. QED
      BY <2>3, <3>1, <3>2, <3>3
  <2>4. ASSUME NEW c \in Committed(log'), NEW d \in Committed(log'),
               NEW j \in DOMAIN log'[c].intents, NEW k \in DOMAIN log'[d].intents
        PROVE  InOrder(c, j, d, k)'
    <3> SUFFICES ASSUME NEW p \in Received(log'), NEW q \in Received(log'),
                        log'[c].intents[j] = log'[p].intent.id,
                        log'[d].intents[k] = log'[q].intent.id,
                        log'[p].intent.submitter = log'[q].intent.submitter,
                        log'[p].intent.market = log'[q].intent.market,
                        log'[p].intent.nonce < log'[q].intent.nonce
                 PROVE  c < d \/ (c = d /\ j < k)
      BY DEF InOrder
    <3>1. /\ p \in Received(log) /\ log'[p] = log[p] /\ p \in Int
          /\ q \in Received(log) /\ log'[q] = log[q] /\ q \in Int
      BY <1>4
    <3>2. p < q
      BY <2>3, <3>1
    <3>3. CASE c \in Committed(log) /\ d \in Committed(log)
      <4>1. log'[c] = log[c] /\ log'[d] = log[d]
        BY <1>5, <3>3
      <4>2. InOrder(c, j, d, k)
        BY <3>3, <4>1 DEF SlotsInv, NonceInv
      <4>3. QED
        BY <3>1, <4>1, <4>2 DEF InOrder
    <3>4. CASE c \in Committed(log) /\ d = n
      BY <1>5, <3>4
    <3>5. CASE c = n /\ d \in Committed(log)
      <4>1. log'[c] = e /\ log'[d] = log[d]
        BY <1>4, <1>5, <3>5
      <4>2. j \in DOMAIN e.intents /\ e.intents[j] = log[p].intent.id
        BY <3>1, <4>1
      <4>3. ConsumedBy(log) < p
        BY <2>2, <3>1, <4>2
      <4>4. k \in DOMAIN log[d].intents /\ log[d].intents[k] = log[q].intent.id
        BY <3>1, <4>1
      <4>5. q =< ConsumedBy(log)
        BY <2>1, <3>1, <3>5, <4>4
      <4>6. QED
        BY <1>6, <3>1, <3>2, <4>3, <4>5
    <3>6. CASE c = n /\ d = n
      <4>1. log'[c] = e /\ log'[d] = e
        BY <1>4, <3>6
      <4>2. p = arr[j] /\ q = arr[k]
        BY <2>2, <3>1, <4>1
      <4>3. j \in DOMAIN arr /\ k \in DOMAIN arr
        BY <1>3, <4>1
      <4>4. /\ log[arr[j]].intent.submitter = log[arr[k]].intent.submitter
            /\ log[arr[j]].intent.market = log[arr[k]].intent.market
            /\ log[arr[j]].intent.nonce < log[arr[k]].intent.nonce
        BY <3>1, <4>2
      <4>5. InPolicyOrder(arr, [l \in live |-> Pending(l)])
        BY <1>1
      <4>6. j < k
        BY <4>3, <4>4, <4>5, PolicyKeepsNonces
      <4>7. QED
        BY <3>6, <4>6
    <3>7. QED
      BY <1>5, <3>3, <3>4, <3>5, <3>6
  <2>5. QED
    BY <2>4 DEF NonceInv
<1>11. QED
  BY <1>8, <1>9, <1>10 DEF SlotsInv

\* What an admission brings, the log has not had.
LEMMA AdmissionIsNew ==
  ASSUME TypeOK, TypeOK', NoncesAdvance', NEW c \in Clients, Admit(c)
  PROVE  request[c].intent.id \notin ReceivedIds(log)
<1>1. request[c].intent \in Intents /\ request[c].now \in Nat
  BY RequestFields DEF Admit
<1>2. PICK e \in Entries :
        /\ e.kind = "IntentReceived" /\ e.intent = request[c].intent
        /\ log' = Append(log, e)
  BY <1>1, EntriesMade DEF Admit, IntentReceived
<1>n. PICK n : n = Len(log) + 1
  OBVIOUS
<1>3. /\ n \in Received(log') /\ log'[n] = e
      /\ \A p \in Received(log) : log'[p] = log[p] /\ p \in Received(log') /\ p < n
  BY <1>2, <1>n, LogGrows
<1>4. ASSUME NEW p \in Received(log), log[p].intent.id = request[c].intent.id
      PROVE  FALSE
  <2>1. log[p].intent \in Intents
    BY EntryFields DEF TypeOK
  <2>2. log[p].intent = request[c].intent
    BY <1>1, <1>4, <2>1, IntentsAssumption
  <2>3. log'[p].intent = log'[n].intent
    BY <1>2, <1>3, <2>2
  <2>4. log'[p].intent # log'[n].intent
    BY <1>3 DEF NoncesAdvance
  <2>5. QED
    BY <2>3, <2>4
<1>5. QED
  BY <1>4 DEF ReceivedIds

\* The invariant in every step.
LEMMA SlotsInvKeeps ==
  ASSUME TypeOK, TypeOK', NoncesAdvance, NoncesAdvance', PromiseInv, SlotsInv,
         [Next]_vars
  PROVE  SlotsInv'
<1>1. clock \in Nat /\ clock' \in Nat
  BY DEF TypeOK
<1>2. ASSUME UNCHANGED <<log, seqVars>>, clock =< clock'
      PROVE  SlotsInv'
  <2>1. UNCHANGED <<log, seq, nextSlot, closedAt>>
    BY <1>2 DEF seqVars
  <2>2. QED
    BY <1>1, <1>2, <2>1, SlotsFrame
<1>3. CASE UNCHANGED vars
  BY <1>1, <1>2, <1>3 DEF vars
<1>4. CASE RecoverGate \/ Tick
  BY <1>1, <1>2, <1>4 DEF RecoverGate, Tick
<1>5. ASSUME NEW c \in Clients, NEW i \in Intents, Arrive(c, i)
      PROVE  SlotsInv'
  BY <1>1, <1>2, <1>5 DEF Arrive
<1>6. ASSUME NEW c \in Clients, Reject(c) \/ AppendFails(c) \/ Record(c)
      PROVE  SlotsInv'
  BY <1>1, <1>2, <1>6 DEF Reject, AppendFails, Record
<1>7. ASSUME NEW c \in Clients, Admit(c)
      PROVE  SlotsInv'
  <2>1. request[c].intent \in Intents /\ request[c].now \in Nat
    BY <1>7, RequestFields DEF Admit
  <2>2. PICK e \in Entries :
          /\ e.kind = "IntentReceived" /\ e.intent = request[c].intent
          /\ log' = Append(log, e)
    BY <1>7, <2>1, EntriesMade DEF Admit, IntentReceived
  <2>3. e.kind # "SlotCommitted" /\ e.intent.id \notin ReceivedIds(log)
    BY <1>7, <2>2, AdmissionIsNew
  <2>4. UNCHANGED <<clock, seq, nextSlot, closedAt>>
    BY <1>7 DEF Admit, seqVars
  <2>5. QED
    BY <2>2, <2>3, <2>4, SlotsAfterOther
<1>8. CASE RecoverSequencer
  BY <1>1, <1>8, SlotsFrame DEF RecoverSequencer
<1>9. CASE Drain
  BY <1>1, <1>9, SlotsFrame DEF Drain
<1>10. CASE CloseSlot
  BY <1>1, <1>10, SlotsFrame DEF CloseSlot
<1>11. CASE RecordMiss
  <2>1. PICK p \in misses, e \in Entries :
          e.kind = "IntentExpired" /\ log' = Append(log, e)
    BY <1>11, MissAppended
  <2>2. UNCHANGED <<clock, seq, nextSlot, closedAt>>
    BY <1>11 DEF RecordMiss
  <2>3. QED
    BY <2>1, <2>2, SlotsAfterOther
<1>12. CASE CommitSlot
  BY <1>12, SlotsAfterCommit
<1>13. CASE Crash
  BY <1>1, <1>13, SlotsFrame DEF Crash
<1>14. QED
  BY <1>3, <1>4, <1>5, <1>6, <1>7, <1>8, <1>9, <1>10, <1>11, <1>12, <1>13
     DEF Next, Gate, Sequencer

\* The invariant says of nonces what the property says of intents.
LEMMA NonceOrderFollows ==
  ASSUME TypeOK, PromiseInv, SlotsInv
  PROVE  CommittedInNonceOrder
<1> SUFFICES ASSUME NEW i \in Intents, NEW j \in Intents,
                    i.submitter = j.submitter, i.market = j.market,
                    i.nonce < j.nonce,
                    NEW x \in Inclusions(i.id), NEW y \in Inclusions(j.id)
             PROVE  x[1] < y[1] \/ (x[1] = y[1] /\ x[2] < y[2])
  BY DEF CommittedInNonceOrder
<1>1. ASSUME NEW l \in Intents, NEW z \in Inclusions(l.id)
      PROVE  \E c \in Committed(log) : \E k \in DOMAIN log[c].intents :
               \E p \in Received(log) :
                 /\ z = <<c, k>>
                 /\ log[c].intents[k] = log[p].intent.id
                 /\ log[p].intent = l
  <2>1. PICK c \in Committed(log) : \E k \in DOMAIN log[c].intents :
          z = <<c, k>> /\ log[c].intents[k] = l.id
    BY DEF Inclusions
  <2>2. PICK k \in DOMAIN log[c].intents : z = <<c, k>> /\ log[c].intents[k] = l.id
    BY <2>1
  <2>3. PICK p \in Received(log) : log[c].intents[k] = log[p].intent.id
    BY DEF PromiseInv, KeptInv, Includes
  <2>4. log[p].intent \in Intents
    BY EntryFields DEF TypeOK
  <2>5. log[p].intent = l
    BY <2>2, <2>3, <2>4, IntentsAssumption
  <2>6. QED
    BY <2>2, <2>3, <2>5
<1>2. PICK c \in Committed(log) : \E k \in DOMAIN log[c].intents :
        \E p \in Received(log) :
          x = <<c, k>> /\ log[c].intents[k] = log[p].intent.id /\ log[p].intent = i
  BY <1>1
<1>3. PICK k \in DOMAIN log[c].intents, p \in Received(log) :
        x = <<c, k>> /\ log[c].intents[k] = log[p].intent.id /\ log[p].intent = i
  BY <1>2
<1>4. PICK d \in Committed(log) : \E l \in DOMAIN log[d].intents :
        \E q \in Received(log) :
          y = <<d, l>> /\ log[d].intents[l] = log[q].intent.id /\ log[q].intent = j
  BY <1>1
<1>5. PICK l \in DOMAIN log[d].intents, q \in Received(log) :
        y = <<d, l>> /\ log[d].intents[l] = log[q].intent.id /\ log[q].intent = j
  BY <1>4
<1>6. InOrder(c, k, d, l)
  BY DEF SlotsInv, NonceInv
<1>7. c < d \/ (c = d /\ k < l)
  BY <1>3, <1>5, <1>6 DEF InOrder
<1>8. x[1] = c /\ x[2] = k /\ y[1] = d /\ y[2] = l
  BY <1>3, <1>5
<1>9. QED
  BY <1>7, <1>8

\* The invariant holds from the start and through every step.
LEMMA SlotsInvHolds == Spec => []SlotsInv
<1>1. Init => SlotsInv
  <2> SUFFICES ASSUME Init PROVE SlotsInv
    OBVIOUS
  <2>1. Committed(log) = {} /\ seq = "down"
    BY DEF Init, Committed, Kind
  <2>2. Cardinality(Committed(log)) = 0 /\ SlotAfter(log) = 0
    BY <2>1, FS_EmptySet DEF SlotAfter
  <2>3. QED
    BY <2>1, <2>2 DEF SlotsInv, NumberInv, Ranked, SlotsAreDense, NonceInv
<1>2. QED
  BY <1>1, SlotsInvKeeps, PromiseInvHolds, TypeCorrect, GateCorrect, PTL DEF Spec

\* A restart neither reuses nor skips a slot number, and cursors and closing
\* times of slots never go back (sequencer.rs:89-90, 231).
THEOREM DenseSlots == Spec => []SlotsAreDense
<1>1. SlotsInv => SlotsAreDense
  BY DEF SlotsInv
<1>2. QED
  BY <1>1, SlotsInvHolds, PTL

\* A submitter's intents in one market are committed in nonce order, within a
\* slot by the policy, from slot to slot by the gate and the cursor
\* (sequencer.rs:39-40, 118; admission.rs:84-92).
THEOREM NonceOrder == Spec => []CommittedInNonceOrder
BY NonceOrderFollows, SlotsInvHolds, PromiseInvHolds, TypeCorrect, PTL

-----------------------------------------------------------------------------
(* InclusionPromise.                                                       *)

StatusNow == [id \in Ids |-> StatusIn(log, id)]

\* A status, by what the log holds.
LEMMA StatusCases ==
  ASSUME NEW entries, NEW id
  PROVE  /\ id \in ExpiredIds(entries) => StatusIn(entries, id) = "expired"
         /\ id \in CommittedIds(entries) /\ id \notin ExpiredIds(entries)
              => StatusIn(entries, id) = "sequenced"
         /\ id \in ReceivedIds(entries) /\ id \notin ExpiredIds(entries)
              /\ id \notin CommittedIds(entries)
              => StatusIn(entries, id) = "received"
         /\ id \notin ReceivedIds(entries) /\ id \notin ExpiredIds(entries)
              /\ id \notin CommittedIds(entries)
              => StatusIn(entries, id) = "unknown"
BY DEF StatusIn

\* What an append adds to the ids a log has received, dropped and committed.
LEMMA IdsAfterAppend ==
  ASSUME TypeOK, NEW e \in Entries, log' = Append(log, e)
  PROVE  /\ ReceivedIds(log') = ReceivedIds(log)
              \cup (IF e.kind = "IntentReceived" THEN {e.intent.id} ELSE {})
         /\ ExpiredIds(log') = ExpiredIds(log)
              \cup (IF e.kind = "IntentExpired" THEN {e.id} ELSE {})
         /\ CommittedIds(log') = CommittedIds(log)
              \cup (IF e.kind = "SlotCommitted" THEN Range(e.intents) ELSE {})
<1>n. PICK n : n = Len(log) + 1
  OBVIOUS
<1>1. /\ log'[n] = e
      /\ Received(log') = Received(log)
           \cup (IF e.kind = "IntentReceived" THEN {n} ELSE {})
      /\ Expired(log') = Expired(log)
           \cup (IF e.kind = "IntentExpired" THEN {n} ELSE {})
      /\ Committed(log') = Committed(log)
           \cup (IF e.kind = "SlotCommitted" THEN {n} ELSE {})
      /\ \A p \in Received(log) : log'[p] = log[p]
      /\ \A p \in Expired(log) : log'[p] = log[p]
      /\ \A p \in Committed(log) : log'[p] = log[p]
  BY <1>n, LogGrows
<1>2. ReceivedIds(log') = ReceivedIds(log)
        \cup (IF e.kind = "IntentReceived" THEN {e.intent.id} ELSE {})
  BY HistoryAfterAppend DEF TypeOK
<1>3. ExpiredIds(log') = ExpiredIds(log)
        \cup (IF e.kind = "IntentExpired" THEN {e.id} ELSE {})
  <2>1. CASE e.kind = "IntentExpired"
    <3>1. Expired(log') = Expired(log) \cup {n} /\ log'[n].id = e.id
          /\ \A p \in Expired(log) : log'[p].id = log[p].id
      BY <1>1, <2>1
    <3>2. \A id \in ExpiredIds(log') : id \in ExpiredIds(log) \/ id = e.id
      BY <3>1 DEF ExpiredIds
    <3>3. \A id \in ExpiredIds(log) \cup {e.id} : id \in ExpiredIds(log')
      BY <3>1 DEF ExpiredIds
    <3>4. ExpiredIds(log') = ExpiredIds(log) \cup {e.id}
      BY <3>2, <3>3
    <3>5. QED
      BY <2>1, <3>4
  <2>2. CASE e.kind # "IntentExpired"
    <3>1. Expired(log') = Expired(log)
          /\ \A p \in Expired(log) : log'[p].id = log[p].id
      BY <1>1, <2>2
    <3>2. ExpiredIds(log') = ExpiredIds(log)
      BY <3>1 DEF ExpiredIds
    <3>3. QED
      BY <2>2, <3>2
  <2>3. QED
    BY <2>1, <2>2
<1>4. CommittedIds(log') = CommittedIds(log)
        \cup (IF e.kind = "SlotCommitted" THEN Range(e.intents) ELSE {})
  BY <1>1 DEF CommittedIds
<1>5. QED
  BY <1>2, <1>3, <1>4

\* What is dropped or committed was received, and is not both.
LEMMA SettledWasReceived ==
  ASSUME PromiseInv
  PROVE  /\ ExpiredIds(log) \subseteq ReceivedIds(log)
         /\ CommittedIds(log) \subseteq ReceivedIds(log)
         /\ ExpiredIds(log) \cap CommittedIds(log) = {}
<1>1. ASSUME NEW e \in Expired(log)
      PROVE  log[e].id \in ReceivedIds(log)
  BY DEF PromiseInv, KeptInv, Drops, ReceivedIds
<1>2. ASSUME NEW c \in Committed(log), NEW k \in DOMAIN log[c].intents
      PROVE  /\ log[c].intents[k] \in ReceivedIds(log)
             /\ log[c].intents[k] \notin ExpiredIds(log)
  <2>1. log[c].intents[k] \in ReceivedIds(log)
    BY DEF PromiseInv, KeptInv, Includes, ReceivedIds
  <2>2. log[c].intents[k] \notin ExpiredIds(log)
    BY DEF PromiseInv, Apart, ExpiredIds
  <2>3. QED
    BY <2>1, <2>2
<1>3. \A id \in CommittedIds(log) :
        id \in ReceivedIds(log) /\ id \notin ExpiredIds(log)
  BY <1>2 DEF CommittedIds, Range
<1>4. QED
  BY <1>1, <1>3 DEF ExpiredIds

\* The slots in order, by rank.
LEMMA SlotOfRank ==
  ASSUME NEW entries \in Seq(Entries), Ranked(entries)
  PROVE  /\ Cardinality(Committed(entries)) \in Nat
         /\ SlotsIn(entries) \in [1..Cardinality(Committed(entries)) -> Seq(Ids)]
         /\ \A c \in Committed(entries) :
              /\ Rank(entries, c) \in 1..Cardinality(Committed(entries))
              /\ SlotsIn(entries)[Rank(entries, c)] = entries[c].intents
         /\ \A r \in 1..Cardinality(Committed(entries)) :
              \E c \in Committed(entries) : Rank(entries, c) = r
<1> DEFINE m == Cardinality(Committed(entries))
<1>1. m \in Nat /\ Committed(entries) \subseteq 1..Len(entries) /\ Len(entries) \in Nat
  BY CommitsAreFinite, EntryFields
<1>2. \A r \in 1..m : \E c \in Committed(entries) : Rank(entries, c) = r
  BY DEF Ranked
<1>3. \A c, d \in Committed(entries) : Rank(entries, c) = Rank(entries, d) => c = d
  <2> SUFFICES ASSUME NEW c \in Committed(entries), NEW d \in Committed(entries),
                      Rank(entries, c) = Rank(entries, d), c # d
               PROVE  FALSE
    OBVIOUS
  <2>1. Rank(entries, c) \in Nat /\ Rank(entries, d) \in Nat
    BY CommitsAreFinite DEF Rank
  <2>2. c < d \/ d < c
    BY <1>1
  <2>3. Rank(entries, c) < Rank(entries, d) \/ Rank(entries, d) < Rank(entries, c)
    BY <2>2, RanksDiffer
  <2>4. QED
    BY <2>1, <2>3
<1>4. ASSUME NEW c \in Committed(entries)
      PROVE  Rank(entries, c) \in 1..m
  <2> DEFINE below == {q \in Committed(entries) : q =< c}
  <2>1. below \subseteq Committed(entries) /\ c \in below
    BY <1>1
  <2>2. IsFiniteSet(below) /\ Cardinality(below) \in Nat
        /\ IsFiniteSet(Committed(entries))
    BY <2>1, CommitsAreFinite
  <2>3. Cardinality(below) =< m
    BY <2>1, <2>2, FS_Subset
  <2>4. Cardinality(below) # 0
    BY <2>1, <2>2, FS_EmptySet
  <2>5. QED
    BY <1>1, <2>2, <2>3, <2>4 DEF Rank
<1>5. ASSUME NEW c \in Committed(entries)
      PROVE  SlotsIn(entries)[Rank(entries, c)] = entries[c].intents
  <2> DEFINE at(r) == CHOOSE p \in Committed(entries) :
                        Cardinality({q \in Committed(entries) : q =< p}) = r
  <2>1. at(Rank(entries, c)) \in Committed(entries) /\ Rank(entries, at(Rank(entries, c))) = Rank(entries, c)
    BY DEF Rank
  <2>2. at(Rank(entries, c)) = c
    BY <1>3, <2>1
  <2>3. SlotsIn(entries) = [r \in 1..m |-> entries[at(r)].intents]
    BY DEF SlotsIn
  <2>4. SlotsIn(entries)[Rank(entries, c)] = entries[at(Rank(entries, c))].intents
    BY <1>4, <2>3
  <2>5. QED
    BY <2>2, <2>4
<1>6. SlotsIn(entries) \in [1..m -> Seq(Ids)]
  <2> DEFINE at(r) == CHOOSE p \in Committed(entries) :
                        Cardinality({q \in Committed(entries) : q =< p}) = r
  <2>1. SlotsIn(entries) = [r \in 1..m |-> entries[at(r)].intents]
    BY DEF SlotsIn
  <2>2. \A r \in 1..m : at(r) \in Committed(entries)
    BY <1>2 DEF Rank
  <2>3. \A c \in Committed(entries) : entries[c].intents \in Seq(Ids)
    BY EntryFields
  <2> HIDE DEF at
  <2>4. QED
    BY <2>1, <2>2, <2>3
<1>7. QED
  BY <1>1, <1>2, <1>4, <1>5, <1>6

\* An append that is no commitment leaves the slots as they are.
LEMMA SlotsStay ==
  ASSUME TypeOK, TypeOK', SlotsInv, SlotsInv', NEW e \in Entries,
         e.kind # "SlotCommitted", log' = Append(log, e)
  PROVE  SlotsIn(log') = SlotsIn(log)
<1>m. PICK m : m = Cardinality(Committed(log))
  OBVIOUS
<1>1. /\ Committed(log') = Committed(log)
      /\ \A c \in Committed(log) : log'[c] = log[c]
  BY LogGrows
<1>2. log \in Seq(Entries) /\ Ranked(log)
  BY DEF TypeOK, SlotsInv, NumberInv
<1>3. log' \in Seq(Entries) /\ Ranked(log')
  BY DEF TypeOK, SlotsInv, NumberInv
<1>4. /\ SlotsIn(log) \in [1..m -> Seq(Ids)]
      /\ \A c \in Committed(log) : SlotsIn(log)[Rank(log, c)] = log[c].intents
      /\ \A r \in 1..m : \E c \in Committed(log) : Rank(log, c) = r
  BY <1>2, <1>m, SlotOfRank
<1>5. /\ SlotsIn(log') \in [1..m -> Seq(Ids)]
      /\ \A c \in Committed(log') : SlotsIn(log')[Rank(log', c)] = log'[c].intents
  BY <1>1, <1>3, <1>m, SlotOfRank
<1>6. \A c \in Committed(log) : Rank(log', c) = Rank(log, c)
  BY <1>1 DEF Rank
<1>7. ASSUME NEW r \in 1..m
      PROVE  SlotsIn(log')[r] = SlotsIn(log)[r]
  <2>1. PICK c \in Committed(log) : Rank(log, c) = r
    BY <1>4
  <2>2. SlotsIn(log)[r] = log[c].intents
    BY <1>4, <2>1
  <2>3. SlotsIn(log')[r] = log'[c].intents
    BY <1>1, <1>5, <1>6, <2>1
  <2>4. QED
    BY <1>1, <2>2, <2>3
<1>8. PICK f, g : f = SlotsIn(log) /\ g = SlotsIn(log')
  OBVIOUS
<1>9. f \in [1..m -> Seq(Ids)] /\ g \in [1..m -> Seq(Ids)]
      /\ \A r \in 1..m : f[r] = g[r]
  BY <1>4, <1>5, <1>7, <1>8
<1>10. f = [r \in 1..m |-> f[r]] /\ g = [r \in 1..m |-> g[r]]
  BY <1>9
<1>11. f = g
  BY <1>9, <1>10, Zenon
<1>12. QED
  BY <1>8, <1>11

\* A commitment puts its slot at the end.
LEMMA SlotsGrow ==
  ASSUME TypeOK, TypeOK', SlotsInv, SlotsInv', NEW e \in Entries,
         e.kind = "SlotCommitted", log' = Append(log, e)
  PROVE  SlotsIn(log') = Append(SlotsIn(log), e.intents)
<1>m. PICK m : m = Cardinality(Committed(log))
  OBVIOUS
<1>n. PICK n : n = Len(log) + 1
  OBVIOUS
<1>1. /\ Committed(log') = Committed(log) \cup {n}
      /\ Cardinality(Committed(log')) = m + 1
      /\ Rank(log', n) = m + 1
      /\ \A c \in Committed(log) : log'[c] = log[c] /\ Rank(log', c) = Rank(log, c)
  BY <1>n, <1>m, RanksAfterCommit
<1>2. log'[n] = e
  BY <1>n, LogGrows
<1>3. log \in Seq(Entries) /\ Ranked(log)
  BY DEF TypeOK, SlotsInv, NumberInv
<1>4. log' \in Seq(Entries) /\ Ranked(log')
  BY DEF TypeOK, SlotsInv, NumberInv
<1>5. /\ m \in Nat
      /\ SlotsIn(log) \in [1..m -> Seq(Ids)]
      /\ \A c \in Committed(log) : SlotsIn(log)[Rank(log, c)] = log[c].intents
      /\ \A r \in 1..m : \E c \in Committed(log) : Rank(log, c) = r
  BY <1>3, <1>m, SlotOfRank
<1>6. /\ SlotsIn(log') \in [1..m+1 -> Seq(Ids)]
      /\ \A c \in Committed(log') : SlotsIn(log')[Rank(log', c)] = log'[c].intents
  BY <1>1, <1>4, <1>m, SlotOfRank
<1>7. ASSUME NEW r \in 1..m
      PROVE  SlotsIn(log')[r] = SlotsIn(log)[r]
  <2>1. PICK c \in Committed(log) : Rank(log, c) = r
    BY <1>5
  <2>2. SlotsIn(log)[r] = log[c].intents
    BY <1>5, <2>1
  <2>3. SlotsIn(log')[r] = log'[c].intents
    BY <1>1, <1>6, <2>1
  <2>4. QED
    BY <1>1, <2>2, <2>3
<1>8. SlotsIn(log')[m + 1] = e.intents
  BY <1>1, <1>2, <1>6
<1>9. e.intents \in Seq(Ids)
  BY DEF Entries
<1>10. PICK f, g, ids :
         f = SlotsIn(log) /\ g = SlotsIn(log') /\ ids = e.intents
  OBVIOUS
<1>11. /\ m \in Nat /\ f \in [1..m -> Seq(Ids)] /\ ids \in Seq(Ids)
       /\ g \in [1..m+1 -> Seq(Ids)]
       /\ g[m + 1] = ids /\ \A r \in 1..m : g[r] = f[r]
  BY <1>5, <1>6, <1>7, <1>8, <1>9, <1>10
<1>12. PICK h : h = Append(f, ids)
  OBVIOUS
<1>13. /\ h \in [1..m+1 -> Seq(Ids)]
       /\ h[m + 1] = ids /\ \A r \in 1..m : h[r] = f[r]
  <2>1. f \in Seq(Seq(Ids)) /\ Len(f) = m
    BY <1>11
  <2>2. h \in Seq(Seq(Ids)) /\ Len(h) = m + 1
    BY <1>11, <1>12, <2>1
  <2>3. h[m + 1] = ids /\ \A r \in 1..m : h[r] = f[r]
    BY <1>11, <1>12, <2>1
  <2>4. h \in [1..m+1 -> Seq(Ids)]
    BY <2>2
  <2>5. QED
    BY <2>3, <2>4
<1>14. \A r \in 1..m+1 : g[r] = h[r]
  <2> SUFFICES ASSUME NEW r \in 1..m+1
               PROVE  g[r] = h[r]
    OBVIOUS
  <2>1. r \in 1..m \/ r = m + 1
    BY <1>11
  <2>2. QED
    BY <1>11, <1>13, <2>1
<1>15. g = [r \in 1..m+1 |-> g[r]] /\ h = [r \in 1..m+1 |-> h[r]]
  BY <1>11, <1>13
<1>16. g = h
  BY <1>14, <1>15, Zenon
<1>17. QED
  BY <1>10, <1>12, <1>16

\* An admission is a Receive.
LEMMA AdmissionReceives ==
  ASSUME TypeOK, TypeOK', NoncesAdvance', PromiseInv, SlotsInv, SlotsInv',
         NEW c \in Clients, Admit(c)
  PROVE  Promise!Receive(request[c].intent.id) /\ request[c].intent.id \in Ids
<1> DEFINE new == request[c].intent.id
<1>1. request[c].intent \in Intents /\ request[c].now \in Nat
  BY RequestFields DEF Admit
<1>2. PICK e \in Entries :
        /\ e.kind = "IntentReceived" /\ e.intent = request[c].intent
        /\ log' = Append(log, e)
  BY <1>1, EntriesMade DEF Admit, IntentReceived
<1>3. new \notin ReceivedIds(log)
  BY AdmissionIsNew
<1>4. new \in Ids
  BY <1>1 DEF Ids
<1>5. /\ ReceivedIds(log') = ReceivedIds(log) \cup {new}
      /\ ExpiredIds(log') = ExpiredIds(log)
      /\ CommittedIds(log') = CommittedIds(log)
  BY <1>2, IdsAfterAppend
<1>6. new \notin ExpiredIds(log) /\ new \notin CommittedIds(log)
  BY <1>3, SettledWasReceived
<1>7. StatusIn(log, new) = "unknown" /\ StatusIn(log', new) = "received"
  BY <1>3, <1>5, <1>6, StatusCases
<1>8. \A id \in Ids : id # new => StatusIn(log', id) = StatusIn(log, id)
  BY <1>5 DEF StatusIn
<1>9. SlotsIn(log') = SlotsIn(log)
  BY <1>2, SlotsStay
<1>10. StatusNow' = [StatusNow EXCEPT ![new] = "received"]
  BY <1>4, <1>7, <1>8 DEF StatusNow
<1>11. StatusNow[new] = "unknown"
  BY <1>4, <1>7 DEF StatusNow
<1>12. QED
  BY <1>4, <1>9, <1>10, <1>11 DEF Promise!Receive, StatusNow

\* A miss is a Drop, or, recorded again after a crash, no step.
LEMMA MissDrops ==
  ASSUME TypeOK, TypeOK', PromiseInv, PromiseInv', SlotsInv, SlotsInv', RecordMiss
  PROVE  \/ \E id \in Ids : Promise!Drop(id)
         \/ StatusNow' = StatusNow /\ SlotsIn(log') = SlotsIn(log)
<1>1. PICK p \in misses, e \in Entries :
        /\ e = IntentExpired(log[p].intent.id,
                             deadline_for(log[p].received_at), closedAt)
        /\ e.kind = "IntentExpired"
        /\ log' = Append(log, e)
  BY MissAppended
<1>2. e.id = log[p].intent.id /\ p \in Received(log)
  BY <1>1 DEF IntentExpired, TypeOK
<1>3. e.id \in Ids /\ e.id \in ReceivedIds(log)
  BY <1>2, EntryFields DEF TypeOK, Ids, ReceivedIds
<1>4. /\ ReceivedIds(log') = ReceivedIds(log)
      /\ ExpiredIds(log') = ExpiredIds(log) \cup {e.id}
      /\ CommittedIds(log') = CommittedIds(log)
  BY <1>1, IdsAfterAppend
<1>5. SlotsIn(log') = SlotsIn(log)
  BY <1>1, SlotsStay
<1>6. CASE e.id \in ExpiredIds(log)
  <2>1. \A id \in Ids : StatusIn(log', id) = StatusIn(log, id)
    BY <1>4, <1>6 DEF StatusIn
  <2>2. StatusNow' = StatusNow
    BY <2>1 DEF StatusNow
  <2>3. QED
    BY <1>5, <2>2
<1>7. CASE e.id \notin ExpiredIds(log)
  <2>1. e.id \notin CommittedIds(log)
    <3> SUFFICES ASSUME NEW c \in Committed(log), NEW k \in DOMAIN log[c].intents,
                        log[c].intents[k] = e.id
                 PROVE  FALSE
      BY DEF CommittedIds, Range
    <3>1. PICK n : n \in Expired(log') /\ log'[n] = e
      BY <1>1, LogGrows
    <3>2. c \in Committed(log') /\ log'[c] = log[c]
      BY <1>1, LogGrows
    <3>3. log'[n].id # log'[c].intents[k]
      BY <3>1, <3>2 DEF PromiseInv, Apart
    <3>4. QED
      BY <3>1, <3>2, <3>3
  <2>2. StatusIn(log, e.id) = "received" /\ StatusIn(log', e.id) = "expired"
    BY <1>3, <1>4, <1>7, <2>1, StatusCases
  <2>3. \A id \in Ids : id # e.id => StatusIn(log', id) = StatusIn(log, id)
    BY <1>4 DEF StatusIn
  <2>4. StatusNow' = [StatusNow EXCEPT ![e.id] = "expired"]
    BY <1>3, <2>2, <2>3 DEF StatusNow
  <2>5. StatusNow[e.id] = "received"
    BY <1>3, <2>2 DEF StatusNow
  <2>6. Promise!Drop(e.id)
    BY <1>5, <2>4, <2>5 DEF Promise!Drop, StatusNow
  <2>7. QED
    BY <1>3, <2>6
<1>8. QED
  BY <1>6, <1>7

\* A commitment is a Close.
LEMMA CommitmentCloses ==
  ASSUME TypeOK, TypeOK', NoncesAdvance, PromiseInv, PromiseInv',
         SlotsInv, SlotsInv', CommitSlot
  PROVE  Promise!Next
<1>1. PICK arr \in Arrangements(live), e \in Entries :
        /\ e = SlotCommitted(nextSlot,
                 [k \in DOMAIN arr |-> log[arr[k]].intent.id], cursor, closedAt)
        /\ e.kind = "SlotCommitted"
        /\ log' = Append(log, e)
  BY CommitAppended
<1>2. PICK ids : ids = e.intents
  OBVIOUS
<1>3. /\ ids = [k \in DOMAIN arr |-> log[arr[k]].intent.id]
      /\ ids \in Seq(Ids)
  BY <1>1, <1>2, ArrangedIds DEF SlotCommitted
<1>4. PICK m \in Nat : DOMAIN arr = 1..m
  BY ArrangedIds
<1>5. /\ DOMAIN ids = 1..m
      /\ \A k \in 1..m : arr[k] \in Received(log) /\ ids[k] = log[arr[k]].intent.id
      /\ \A j, k \in 1..m : arr[j] = arr[k] => j = k
  BY <1>3, <1>4, ArrangedIds DEF TypeOK
<1>6. \A j, k \in 1..m : ids[j] = ids[k] => j = k
  <2> SUFFICES ASSUME NEW j \in 1..m, NEW k \in 1..m, ids[j] = ids[k]
               PROVE  j = k
    OBVIOUS
  <2>1. arr[j] = arr[k]
    BY <1>5, OneArrival
  <2>2. QED
    BY <1>5, <2>1
<1>7. IsInjective(ids)
  BY <1>5, <1>6 DEF IsInjective
<1>8. PICK S : S = Range(ids)
  OBVIOUS
<1>9. S \subseteq Ids /\ S = {ids[k] : k \in 1..m}
  BY <1>3, <1>5, <1>8 DEF Range
<1>10. ids \in Bijection(1..m, S)
  <2>1. ids \in [1..m -> S]
    BY <1>3, <1>5, <1>9
  <2>2. ids \in Injection(1..m, S)
    BY <1>7, <2>1 DEF Injection
  <2>3. ids \in Surjection(1..m, S)
    BY <1>9, <2>1 DEF Surjection
  <2>4. QED
    BY <2>2, <2>3 DEF Bijection
<1>11. Cardinality(S) = m
  <2>1. IsFiniteSet(1..m) /\ Cardinality(1..m) = m
    BY FS_Interval
  <2>2. Cardinality(1..m) = Cardinality(S)
    BY <1>10, <2>1, FS_Bijection DEF ExistsBijection
  <2>3. QED
    BY <2>1, <2>2
<1>12. /\ ReceivedIds(log') = ReceivedIds(log)
       /\ ExpiredIds(log') = ExpiredIds(log)
       /\ CommittedIds(log') = CommittedIds(log) \cup S
  BY <1>1, <1>2, <1>8, IdsAfterAppend
<1>13. ASSUME NEW id \in S
       PROVE  /\ id \in ReceivedIds(log)
              /\ id \notin ExpiredIds(log)
              /\ id \notin CommittedIds(log)
  <2>1. PICK k \in 1..m : id = ids[k]
    BY <1>9
  <2>2. id \in ReceivedIds(log)
    BY <1>5, <2>1 DEF ReceivedIds
  <2>3. PICK n : /\ n \in Committed(log') /\ n \notin Committed(log) /\ log'[n] = e
    <3>1. Len(log) + 1 \in Committed(log') /\ log'[Len(log) + 1] = e
      BY <1>1, LogGrows
    <3>2. Len(log) + 1 \notin Committed(log)
      BY <1>1, RanksAfterCommit
    <3>3. QED
      BY <3>1, <3>2
  <2>4. k \in DOMAIN log'[n].intents /\ log'[n].intents[k] = id
    BY <1>2, <1>5, <2>1, <2>3
  <2>5. ASSUME id \in ExpiredIds(log)
        PROVE  FALSE
    <3>1. PICK x \in Expired(log) : log[x].id = id
      BY <2>5 DEF ExpiredIds
    <3>2. x \in Expired(log') /\ log'[x] = log[x]
      BY <1>1, LogGrows
    <3>3. log'[x].id # log'[n].intents[k]
      BY <2>3, <2>4, <3>2 DEF PromiseInv, Apart
    <3>4. QED
      BY <2>4, <3>1, <3>2, <3>3
  <2>6. ASSUME id \in CommittedIds(log)
        PROVE  FALSE
    <3>1. PICK c \in Committed(log) : \E l \in DOMAIN log[c].intents :
            log[c].intents[l] = id
      BY <2>6 DEF CommittedIds, Range
    <3>2. c \in Committed(log') /\ log'[c] = log[c]
      BY <1>1, LogGrows
    <3>3. PICK l \in DOMAIN log'[c].intents : log'[c].intents[l] = id
      BY <3>1, <3>2
    <3>4. c = n
      BY <2>3, <2>4, <3>2, <3>3 DEF PromiseInv, Once
    <3>5. QED
      BY <2>3, <3>1, <3>4
  <2>7. QED
    BY <2>2, <2>5, <2>6
<1>14. \A id \in S : StatusIn(log, id) = "received" /\ StatusIn(log', id) = "sequenced"
  BY <1>12, <1>13, StatusCases
<1>15. \A id \in Ids : id \notin S => StatusIn(log', id) = StatusIn(log, id)
  BY <1>12 DEF StatusIn
<1>16. StatusNow' = [id \in Ids |-> IF id \in S THEN "sequenced" ELSE StatusNow[id]]
  BY <1>14, <1>15 DEF StatusNow
<1>17. \A id \in S : StatusNow[id] = "received"
  BY <1>9, <1>14 DEF StatusNow
<1>18. SlotsIn(log') = Append(SlotsIn(log), ids)
  BY <1>1, <1>2, SlotsGrow
<1>19. Promise!Close(ids)
  <2>1. Promise!Range(ids) = S
    BY <1>8 DEF Range, Promise!Range
  <2>2. Promise!IsInjective(ids)
    BY <1>7 DEF IsInjective, Promise!IsInjective
  <2>3. QED
    BY <1>16, <1>17, <1>18, <2>1, <2>2 DEF Promise!Close, StatusNow
<1>20. ids \in Promise!Bijection(1..Promise!Cardinality(S), S)
  <2>1. Promise!Cardinality(S) = Cardinality(S)
    BY DEF Cardinality, Promise!Cardinality
  <2>2. QED
    BY <1>10, <1>11, <2>1 DEF Bijection, Injection, Surjection, IsInjective,
       Promise!Bijection, Promise!Injection, Promise!Surjection, Promise!IsInjective
<1>21. S \in SUBSET Ids
  BY <1>9
<1>22. \E T \in SUBSET Ids :
         \E seats \in Promise!Bijection(1..Promise!Cardinality(T), T) : Promise!Close(seats)
  BY <1>19, <1>20, <1>21, Zenon
<1>23. QED
  BY <1>22, Zenon DEF Promise!Next

\* "An admitted intent is committed into a slot [in time] ... otherwise it is
\* recorded IntentExpired" (README.md:179-189): the gate, the log and the
\* sequencer, with all their races and crashes, do nothing to an intent or to
\* the list of slots but what InclusionPromise lets them.
THEOREM ImplementsPromise == Spec => PromiseImplemented
<1>1. Init => Promise!Init
  <2> SUFFICES ASSUME Init PROVE Promise!Init
    OBVIOUS
  <2>1. /\ Received(log) = {} /\ Expired(log) = {} /\ Committed(log) = {}
    BY DEF Init, Received, Expired, Committed, Kind
  <2>2. \A id : StatusIn(log, id) = "unknown"
    BY <2>1 DEF StatusIn, ReceivedIds, ExpiredIds, CommittedIds
  <2>3. Cardinality(Committed(log)) = 0
    BY <2>1, FS_EmptySet
  <2>4. SlotsIn(log) = <<>>
    BY <2>3 DEF SlotsIn
  <2>5. QED
    BY <2>2, <2>4 DEF Promise!Init
<1>2. ASSUME TypeOK, TypeOK', NoncesAdvance, NoncesAdvance',
             PromiseInv, PromiseInv', SlotsInv, SlotsInv', [Next]_vars
      PROVE  Promise!Next \/ UNCHANGED <<StatusNow, SlotsIn(log)>>
  <2>1. ASSUME log' = log
        PROVE  UNCHANGED <<StatusNow, SlotsIn(log)>>
    BY <2>1 DEF StatusNow
  <2>2. CASE \E c \in Clients : Admit(c)
    BY <1>2, <2>2, AdmissionReceives DEF Promise!Next
  <2>3. CASE RecordMiss
    BY <1>2, <2>3, MissDrops DEF Promise!Next
  <2>4. CASE CommitSlot
    BY <1>2, <2>4, CommitmentCloses
  <2>5. \/ log' = log \/ \E c \in Clients : Admit(c)
        \/ RecordMiss \/ CommitSlot
    BY <1>2 DEF Next, Gate, Sequencer, vars, Arrive, Reject, AppendFails, Record,
           RecoverGate, RecoverSequencer, Drain, CloseSlot, Tick, Crash
  <2>6. QED
    BY <2>1, <2>2, <2>3, <2>4, <2>5
<1>3. TypeOK /\ TypeOK' /\ NoncesAdvance /\ NoncesAdvance'
        /\ PromiseInv /\ PromiseInv' /\ SlotsInv /\ SlotsInv' /\ [Next]_vars
      => [Promise!Next]_<<[id \in Ids |-> StatusIn(log, id)], SlotsIn(log)>>
  BY <1>2 DEF StatusNow
<1>4. QED
  BY <1>1, <1>3, TypeCorrect, GateCorrect, PromiseInvHolds, SlotsInvHolds, PTL
     DEF Spec, PromiseImplemented, Promise!Spec, Promise!vars
=============================================================================
