----------------------------- MODULE Sequencing -----------------------------
(***************************************************************************)
(* The admission gate (admission.rs, api.rs:68-78) and the sequencer       *)
(* (sequencer.rs) on either side of the shared log, with crashes and       *)
(* restarts of the process on a durable log.                               *)
(*                                                                         *)
(* The grain is what other tasks can see between two steps.  A submission  *)
(* samples the clock, then takes the gate's lock; under the lock it        *)
(* appends, then records.  The sequencer's two select! branches are        *)
(* uninterrupted by its own other branch, but every append it makes is a   *)
(* step of its own: the gate and the clock move in between.                *)
(*                                                                         *)
(* A crash kills the process.  What is in the log stays (RedbLog commits   *)
(* before append returns); the gate, the requests and the sequencer start  *)
(* over, the latter two from the log.                                      *)
(***************************************************************************)
EXTENDS LogEntries

CONSTANTS
  Clients,        \* concurrent HTTP requests
  Window,         \* GuaranteeConfig::window_size, in clock units
  MaxClock,       \* bound: the clock stops here
  MaxIdleSlots,   \* bound: from this slot on, only buffers with an intent close
  MaxCrashes      \* bound: crashes in a behaviour

ASSUME SequencingAssumption ==
  /\ "nobody" \notin Clients
  /\ Window \in Nat
  /\ MaxClock \in Nat
  /\ MaxIdleSlots \in Nat
  /\ MaxCrashes \in Nat

VARIABLES
  clock,      \* now_millis(); never steps back (README.md:316)
  log,        \* the shared log
  crashes,    \* how often the process has crashed
  gateUp,     \* Admission::recover has returned and the server serves
  lock,       \* who holds the gate's mutex, or Nobody
  seen,       \* Admission::seen, ids admitted
  nonces,     \* Admission::nonces, highest nonce per submitter
  request,    \* per client, the submission it has in flight
  seq,        \* where the sequencer is: "down", "idle" or "closing"
  buffer,     \* Sequencer::buffer, as the log indices of the Pending entries
  cursor,     \* how far the sequencer has read
  nextSlot,   \* number of the slot the next tick closes
  closedAt,   \* the tick's sample of the clock
  live,       \* what partition_expired kept, as log indices
  misses      \* what it expired and is still to be recorded

gateVars == <<gateUp, lock, seen, nonces, request>>
seqVars  == <<seq, buffer, cursor, nextSlot, closedAt, live, misses>>
vars     == <<clock, log, crashes, gateVars, seqVars>>

Nobody  == "nobody"
NoNonce == -1
Idle    == [pc |-> "idle"]

-----------------------------------------------------------------------------
(* The gate.                                                               *)

deadline_for(now) == now + Window

NoncesIn(s, entries) ==
  {entries[p].intent.nonce : p \in {q \in Received(entries) :
                                      entries[q].intent.submitter = s}}

Highest(S) ==
  IF S = {} THEN NoNonce ELSE CHOOSE n \in S : \A m \in S : m =< n

MAX_SLIPPAGE_BPS == 10000

\* What check looks at, in its order, on the state the lock protects.
Checks(i, now) ==
  << i.size # 0,
     i.named,
     i.max_slippage_bps =< MAX_SLIPPAGE_BPS,
     i.deadline_ms > now,
     i.deadline_ms >= deadline_for(now),
     i.id \notin seen,
     i.nonce > nonces[i.submitter] >>

Passes(i, now) == \A k \in 1..7 : Checks(i, now)[k]

\* submit: the handler samples the clock before it asks for the lock.
Arrive(c, i) ==
  /\ gateUp
  /\ request[c] = Idle
  /\ request' = [request EXCEPT ![c] =
                   [pc |-> "arrived", intent |-> i, now |-> clock]]
  /\ UNCHANGED <<clock, log, crashes, gateUp, lock, seen, nonces, seqVars>>

\* The lock is free and the check fails: nothing is written.
Reject(c) ==
  /\ request[c].pc = "arrived"
  /\ lock = Nobody
  /\ ~ Passes(request[c].intent, request[c].now)
  /\ request' = [request EXCEPT ![c] = Idle]
  /\ UNCHANGED <<clock, log, crashes, gateUp, lock, seen, nonces, seqVars>>

\* The check passes but the append fails: `?` returns before record.
AppendFails(c) ==
  /\ request[c].pc = "arrived"
  /\ lock = Nobody
  /\ Passes(request[c].intent, request[c].now)
  /\ request' = [request EXCEPT ![c] = Idle]
  /\ UNCHANGED <<clock, log, crashes, gateUp, lock, seen, nonces, seqVars>>

\* append: the entry is at the end, and the position returned is its own, taken
\* from the length under the log's lock.
Appended(arrived) ==
  [pc |-> "appended", intent |-> arrived.intent, now |-> arrived.now,
   position |-> Len(log)]

\* Mutant of Admit: check and append without waiting for the lock.
AdmitUnlocked(c) ==
  /\ request[c].pc = "arrived"
  /\ Passes(request[c].intent, request[c].now)
  /\ lock' = c
  /\ log' = Append(log, IntentReceived(request[c].intent, request[c].now))
  /\ request' = [request EXCEPT ![c] = Appended(request[c])]
  /\ UNCHANGED <<clock, crashes, gateUp, seen, nonces, seqVars>>

\* The lock is taken, the check passes and the entry is appended.
Admit(c) ==
  /\ request[c].pc = "arrived"
  /\ lock = Nobody
  /\ Passes(request[c].intent, request[c].now)
  /\ lock' = c
  /\ log' = Append(log, IntentReceived(request[c].intent, request[c].now))
  /\ request' = [request EXCEPT ![c] = Appended(request[c])]
  /\ UNCHANGED <<clock, crashes, gateUp, seen, nonces, seqVars>>

\* Admission::record, then the guard drops and the answer goes out.
Record(c) ==
  /\ request[c].pc = "appended"
  /\ LET i == request[c].intent
     IN  /\ seen' = seen \cup {i.id}
         /\ nonces' = [nonces EXCEPT ![i.submitter] = Highest({@, i.nonce})]
  /\ lock' = Nobody
  /\ request' = [request EXCEPT ![c] = Idle]
  /\ UNCHANGED <<clock, log, crashes, gateUp, seqVars>>

\* Mutant of RecoverGate: the ids come back, the nonces do not.
RecoverIdsOnly ==
  /\ ~ gateUp
  /\ gateUp' = TRUE
  /\ seen' = ReceivedIds(log)
  /\ UNCHANGED <<clock, log, crashes, lock, nonces, request, seqVars>>

\* Admission::recover records every intent the log received.
RecoverGate ==
  /\ ~ gateUp
  /\ gateUp' = TRUE
  /\ seen' = ReceivedIds(log)
  /\ nonces' = [s \in Submitters |-> Highest(NoncesIn(s, log))]
  /\ UNCHANGED <<clock, log, crashes, lock, request, seqVars>>

-----------------------------------------------------------------------------
(* The sequencer.                                                          *)

\* recover: where the last slot committed left off.
LastCommit(entries) ==
  CHOOSE p \in Committed(entries) : \A q \in Committed(entries) : q =< p

\* Mutants of ConsumedBy and SlotAfter: recovery starts at the beginning; the
\* number of the last slot is used again.
ConsumedNothing(entries) == 0

SlotReused(entries) ==
  IF Committed(entries) = {} THEN 0 ELSE entries[LastCommit(entries)].slot

ConsumedBy(entries) ==
  IF Committed(entries) = {} THEN 0
  ELSE entries[LastCommit(entries)].consumed_up_to

SlotAfter(entries) ==
  IF Committed(entries) = {} THEN 0
  ELSE entries[LastCommit(entries)].slot + 1

\* recover fails with CorruptLog if the cursor is beyond the head.
RecoverSequencer ==
  /\ seq = "down"
  /\ ConsumedBy(log) =< Len(log)
  /\ seq' = "idle"
  /\ cursor' = ConsumedBy(log)
  /\ nextSlot' = SlotAfter(log)
  /\ UNCHANGED <<clock, log, crashes, gateVars, buffer, closedAt, live, misses>>

\* Mutants of Drain: the cursor overshoots; the buffer is replaced.
DrainOvershoots ==
  /\ seq = "idle"
  /\ cursor < Len(log)
  /\ buffer' = buffer \cup {p \in Received(log) : p > cursor}
  /\ cursor' = Len(log) + 1
  /\ UNCHANGED <<clock, log, crashes, gateVars, seq, nextSlot, closedAt,
                 live, misses>>

DrainReplaces ==
  /\ seq = "idle"
  /\ cursor < Len(log)
  /\ buffer' = {p \in Received(log) : p > cursor}
  /\ cursor' = Len(log)
  /\ UNCHANGED <<clock, log, crashes, gateVars, seq, nextSlot, closedAt,
                 live, misses>>

\* The doorbell branch.  The doorbell wakes the task whenever there is an
\* unread entry (module Doorbell); reading without one changes nothing.
Drain ==
  /\ seq = "idle"
  /\ cursor < Len(log)
  /\ buffer' = buffer \cup {p \in Received(log) : p > cursor}
  /\ cursor' = Len(log)
  /\ UNCHANGED <<clock, log, crashes, gateVars, seq, nextSlot, closedAt,
                 live, misses>>

\* Mutant of RanOut: the last instant of the window is already too late.
RanOutAtBoundary(p, now) == deadline_for(log[p].received_at) =< now

\* partition_expired: the guarantee of the entry at p ran out before now.
RanOut(p, now) == deadline_for(log[p].received_at) < now

\* Mutant of CloseSlot: what has expired stays in the slot.
CloseSlotWithMisses ==
  /\ seq = "idle"
  /\ buffer # {} \/ nextSlot < MaxIdleSlots
  /\ seq' = "closing"
  /\ closedAt' = clock
  /\ misses' = {p \in buffer : RanOut(p, clock)}
  /\ live' = buffer
  /\ buffer' = {}
  /\ UNCHANGED <<clock, log, crashes, gateVars, cursor, nextSlot>>

\* The boundary branch, up to its first append.
CloseSlot ==
  /\ seq = "idle"
  /\ buffer # {} \/ nextSlot < MaxIdleSlots
  /\ seq' = "closing"
  /\ closedAt' = clock
  /\ misses' = {p \in buffer : RanOut(p, clock)}
  /\ live' = {p \in buffer : ~ RanOut(p, clock)}
  /\ buffer' = {}
  /\ UNCHANGED <<clock, log, crashes, gateVars, cursor, nextSlot>>

\* The misses are recorded one by one, in the order of the buffer.
RecordMiss ==
  /\ seq = "closing"
  /\ \E p \in misses :
       /\ \A q \in misses : p =< q
       /\ log' = Append(log,
                   IntentExpired(log[p].intent.id,
                                 deadline_for(log[p].received_at), closedAt))
       /\ misses' = misses \ {p}
  /\ UNCHANGED <<clock, crashes, gateVars, seq, buffer, cursor, nextSlot,
                 closedAt, live>>

\* Pending::new, for the entry at p.
Pending(p) ==
  [id |-> log[p].intent.id, market |-> log[p].intent.market,
   submitter |-> log[p].intent.submitter, nonce |-> log[p].intent.nonce,
   priority_fee |-> log[p].intent.priority_fee,
   received_at |-> log[p].received_at]

\* Mutant of CommitSlot: consumed_up_to is the head instead of the cursor.
CommitSlotUpToHead ==
  /\ seq = "closing"
  /\ misses = {}
  /\ \E arr \in Arrangements(live) :
       /\ InPolicyOrder(arr, [p \in live |-> Pending(p)])
       /\ log' = Append(log,
                   SlotCommitted(nextSlot, [k \in DOMAIN arr |-> log[arr[k]].intent.id],
                                 Len(log), closedAt))
  /\ seq' = "idle"
  /\ live' = {}
  /\ nextSlot' = nextSlot + 1
  /\ UNCHANGED <<clock, crashes, gateVars, buffer, cursor, closedAt, misses>>

\* The rest of the branch: the slot, in policy order.
CommitSlot ==
  /\ seq = "closing"
  /\ misses = {}
  /\ \E arr \in Arrangements(live) :
       /\ InPolicyOrder(arr, [p \in live |-> Pending(p)])
       /\ log' = Append(log,
                   SlotCommitted(nextSlot, [k \in DOMAIN arr |-> log[arr[k]].intent.id],
                                 cursor, closedAt))
  /\ seq' = "idle"
  /\ live' = {}
  /\ nextSlot' = nextSlot + 1
  /\ UNCHANGED <<clock, crashes, gateVars, buffer, cursor, closedAt, misses>>

-----------------------------------------------------------------------------
(* The environment.                                                        *)

Tick ==
  /\ clock < MaxClock
  /\ clock' = clock + 1
  /\ UNCHANGED <<log, crashes, gateVars, seqVars>>

\* Any task's failure ends the process (main.rs:100-118), as does a kill.
Crash ==
  /\ crashes < MaxCrashes
  /\ crashes' = crashes + 1
  /\ gateUp' = FALSE
  /\ lock' = Nobody
  /\ seen' = {}
  /\ nonces' = [s \in Submitters |-> NoNonce]
  /\ request' = [c \in Clients |-> Idle]
  /\ seq' = "down"
  /\ buffer' = {}
  /\ cursor' = 0
  /\ nextSlot' = 0
  /\ closedAt' = 0
  /\ live' = {}
  /\ misses' = {}
  /\ UNCHANGED <<clock, log>>

Init ==
  /\ clock = 0
  /\ log = <<>>
  /\ crashes = 0
  /\ gateUp = FALSE
  /\ lock = Nobody
  /\ seen = {}
  /\ nonces = [s \in Submitters |-> NoNonce]
  /\ request = [c \in Clients |-> Idle]
  /\ seq = "down"
  /\ buffer = {}
  /\ cursor = 0
  /\ nextSlot = 0
  /\ closedAt = 0
  /\ live = {}
  /\ misses = {}

Gate ==
  \/ RecoverGate
  \/ \E c \in Clients :
       \/ \E i \in Intents : Arrive(c, i)
       \/ Reject(c) \/ AppendFails(c) \/ Admit(c) \/ Record(c)

Sequencer == RecoverSequencer \/ Drain \/ CloseSlot \/ RecordMiss \/ CommitSlot

Next == Gate \/ Sequencer \/ Tick \/ Crash

Spec == Init /\ [][Next]_vars

\* The runtime keeps polling the sequencer's task, and the boundary timer keeps
\* firing.  select! picks among its ready branches at random, so a doorbell
\* that is ready over and over is eventually the branch taken.
Fairness ==
  /\ WF_vars(RecoverSequencer)
  /\ SF_vars(Drain)
  /\ WF_vars(CloseSlot)
  /\ WF_vars(RecordMiss)
  /\ WF_vars(CommitSlot)

FairSpec == Spec /\ Fairness

-----------------------------------------------------------------------------
(* Properties.                                                             *)

Requests ==
  {Idle} \cup [pc : {"arrived"}, intent : Intents, now : Nat]
         \cup [pc : {"appended"}, intent : Intents, now : Nat, position : Nat]

Entries ==
  [kind : {"IntentReceived"}, intent : Intents, received_at : Nat]
    \cup [kind : {"IntentExpired"}, id : Ids, guarantee_deadline_ms : Nat,
          at_ms : Nat]
    \cup [kind : {"SlotCommitted"}, slot : Nat, intents : Seq(Ids),
          consumed_up_to : Nat, committed_at_ms : Nat]

TypeOK ==
  /\ clock \in Nat
  /\ log \in Seq(Entries)
  /\ crashes \in Nat
  /\ gateUp \in BOOLEAN
  /\ lock \in Clients \cup {Nobody}
  /\ seen \subseteq Ids
  /\ nonces \in [Submitters -> Nat \cup {NoNonce}]
  /\ request \in [Clients -> Requests]
  /\ seq \in {"down", "idle", "closing"}
  /\ buffer \subseteq Received(log)
  /\ cursor \in 0..Len(log)
  /\ nextSlot \in Nat
  /\ closedAt \in Nat
  /\ live \subseteq Received(log)
  /\ misses \subseteq Received(log)

\* While nobody holds the lock, the gate knows exactly the history it checks
\* against: every id the log received and each submitter's highest nonce,
\* whether it got there by recording or by recovering (admission.rs:34-49,
\* 103-107, 155-174).  A submission that read a gate behind the log would let
\* a replay in.
GateKnowsTheLog ==
  gateUp /\ lock = Nobody =>
    /\ seen = ReceivedIds(log)
    /\ \A s \in Submitters : nonces[s] = Highest(NoncesIn(s, log))

\* "Monotonic nonce progression per submitter" (README.md:428): the log
\* receives no id twice and a submitter's nonces in increasing order, however
\* submissions race, fail or straddle a restart.
NoncesAdvance ==
  \A p, q \in Received(log) :
    p < q =>
      /\ log[p].intent # log[q].intent
      /\ log[p].intent.submitter = log[q].intent.submitter
           => log[p].intent.nonce < log[q].intent.nonce

\* The places of an id in the slots the log has committed.
Inclusions(id) ==
  UNION {{<<p, k>> : k \in {j \in DOMAIN log[p].intents :
                              log[p].intents[j] = id}} : p \in Committed(log)}

\* "No duplicate inclusion for one intent id" (README.md:427): not in one slot
\* and not in two, though a restart reads entries again (sequencer.rs:78-99).
NoDuplicateInclusion ==
  \A id \in Ids : \A x, y \in Inclusions(id) : x = y

\* "Replaying the log can never both drop and commit the same intent"
\* (README.md:187-189, sequencer.rs:213-214), with a crash between the miss
\* and the slot included.
NeverDroppedAndCommitted == ExpiredIds(log) \cap CommittedIds(log) = {}

\* When the intent with this id arrived, as its entry says.
ArrivalOf(id) ==
  log[CHOOSE p \in Received(log) : log[p].intent.id = id].received_at

DeadlineOf(id) == (CHOOSE i \in Intents : i.id = id).deadline_ms

\* "An admitted intent is committed into a slot closing no later than
\* received_at + window" (README.md:179), so never after the client's own
\* deadline either: the gate turns away what the window would outlive
\* (admission.rs:73, sequencer.rs:141-143), though receipt.rs:71 says of that
\* deadline "Not yet enforced": it is, and that comment is out of date.  One that
\* is dropped is dropped after the window and not a moment before.
PromiseKept ==
  /\ \A p \in Committed(log) : \A id \in Range(log[p].intents) :
       /\ id \in ReceivedIds(log)
       /\ log[p].committed_at_ms =< deadline_for(ArrivalOf(id))
       /\ log[p].committed_at_ms =< DeadlineOf(id)
  /\ \A p \in Expired(log) :
       /\ log[p].id \in ReceivedIds(log)
       /\ log[p].guarantee_deadline_ms = deadline_for(ArrivalOf(log[p].id))
       /\ log[p].at_ms > log[p].guarantee_deadline_ms

\* consumed_up_to forgets nothing: an intent the last slot's cursor passed is
\* in a slot or dropped, and one the sequencer has read since is in its hands.
\* What was read but not committed before a crash is read again
\* (sequencer.rs:82-92, 224-230).
NothingForgotten ==
  /\ \A p \in Received(log) : p =< ConsumedBy(log) =>
       log[p].intent.id \in ExpiredIds(log) \cup CommittedIds(log)
  /\ seq # "down" =>
       \A p \in Received(log) : ConsumedBy(log) < p /\ p =< cursor =>
         p \in buffer \cup live \cup misses \/ log[p].intent.id \in ExpiredIds(log)

\* Slot numbers are dense and in order and cursors never go back, so a
\* restart neither reuses nor skips a slot (sequencer.rs:89-90, 231).
SlotsAreDense ==
  \A p \in Committed(log) :
    /\ log[p].slot = Cardinality({q \in Committed(log) : q < p})
    /\ log[p].consumed_up_to < p
    /\ \A q \in Committed(log) : q < p =>
         /\ log[q].consumed_up_to =< log[p].consumed_up_to
         /\ log[q].committed_at_ms =< log[p].committed_at_ms

\* The policy's first rule over the life of the log: the intents a submitter
\* has in one market are committed in nonce order, within a slot and from slot
\* to slot (sequencer.rs:39-40).
CommittedInNonceOrder ==
  \A i, j \in Intents :
    /\ i.submitter = j.submitter
    /\ i.market = j.market
    /\ i.nonce < j.nonce
    => \A x \in Inclusions(i.id), y \in Inclusions(j.id) :
         x[1] < y[1] \/ (x[1] = y[1] /\ x[2] < y[2])
=============================================================================
