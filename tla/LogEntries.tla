----------------------------- MODULE LogEntries -----------------------------
(***************************************************************************)
(* The entries of the shared log (log.rs:41-82) that the gate and the      *)
(* sequencer write, and how a reader looks things up in a log.             *)
(*                                                                         *)
(* A log is a sequence.  Its k-th element is the entry at Position(k - 1), *)
(* so a cursor, the position of the next entry to read, is the number of   *)
(* entries already read, and head() is Len(log).                           *)
(***************************************************************************)
EXTENDS Integers, Sequences, FiniteSets, Policy

CONSTANTS
  Intents       \* the intents clients may submit

\* An intent is a record of the fields the pipeline looks at.  id is keccak
\* over every field, so it determines the intent (IntentIdentity).  named says
\* that the market's base and quote are both non-empty.
ASSUME IntentsAssumption ==
  /\ Intents \subseteq [id : Int, submitter : Int, nonce : Nat, market : Int,
                        priority_fee : Nat, deadline_ms : Nat, size : Nat,
                        named : BOOLEAN, max_slippage_bps : Nat]
  /\ \A i, j \in Intents : i.id = j.id => i = j

Ids        == {i.id : i \in Intents}
Submitters == {i.submitter : i \in Intents}

IntentReceived(i, now) ==
  [kind |-> "IntentReceived", intent |-> i, received_at |-> now]

IntentExpired(id, deadline, now) ==
  [kind |-> "IntentExpired", id |-> id, guarantee_deadline_ms |-> deadline,
   at_ms |-> now]

\* The commitment is the hash of (slot, intents): a function of two fields the
\* entry holds, so it is left out here.
SlotCommitted(slot, ids, consumed, now) ==
  [kind |-> "SlotCommitted", slot |-> slot, intents |-> ids,
   consumed_up_to |-> consumed, committed_at_ms |-> now]

\* Indices of the entries of one kind.
Kind(log, kind)  == {p \in DOMAIN log : log[p].kind = kind}
Received(log)    == Kind(log, "IntentReceived")
Expired(log)     == Kind(log, "IntentExpired")
Committed(log)   == Kind(log, "SlotCommitted")

\* The ids an entry list has received, dropped and committed.
ReceivedIds(log)  == {log[p].intent.id : p \in Received(log)}
ExpiredIds(log)   == {log[p].id : p \in Expired(log)}
CommittedIds(log) == UNION {Range(log[p].intents) : p \in Committed(log)}
=============================================================================
