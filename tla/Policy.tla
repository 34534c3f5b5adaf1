------------------------------- MODULE Policy -------------------------------
(***************************************************************************)
(* The sequencing policy of sequencer.rs (lines 38-64 and 101-136), as a   *)
(* predicate: which arrangement of a slot's buffer order_slot returns.     *)
(* The loop that computes it is in module OrderSlot; the two are compared  *)
(* by the run "ordering".                                                  *)
(*                                                                         *)
(* A buffer is a function from a finite set of integers, the arrival order *)
(* of the Vec, to records with the fields of Pending.  Addresses, markets  *)
(* and ids are integers: of a [u8; 20], a pair of strings and a 32-byte    *)
(* hash the code uses equality and the total order, nothing else.          *)
(***************************************************************************)
EXTENDS Integers, FiniteSets, Functions

\* Rules 2-4: Pending::rank, "lower sorts first".
SortsAhead(p, q) ==
  \/ p.priority_fee > q.priority_fee
  \/ /\ p.priority_fee = q.priority_fee
     /\ \/ p.received_at < q.received_at
        \/ p.received_at = q.received_at /\ p.id < q.id

\* Rule 1: j stands before k in the nonce-sorted queue of one submitter in
\* one domain.  sort_by_key is stable, so arrival breaks a tie.
QueuedBefore(buffer, j, k) ==
  /\ buffer[j].market = buffer[k].market
  /\ buffer[j].submitter = buffer[k].submitter
  /\ \/ buffer[j].nonce < buffer[k].nonce
     \/ buffer[j].nonce = buffer[k].nonce /\ j < k

\* Mutant of AtFront: intents compete on rank alone.
AnyHead(buffer, rest, k) == TRUE

\* k is at the front of its submitter's queue once all but rest are popped.
AtFront(buffer, rest, k) == ~ \E j \in rest : QueuedBefore(buffer, j, k)

\* The intent the merge pops when rest is what the queues still hold: domains
\* are exhausted in market order, and the winning head goes first.
PopsNext(buffer, rest, k) ==
  /\ \A j \in rest : buffer[k].market =< buffer[j].market
  /\ AtFront(buffer, rest, k)
  /\ \A j \in rest \ {k} :
       /\ buffer[j].market = buffer[k].market
       /\ AtFront(buffer, rest, j)
       => SortsAhead(buffer[k], buffer[j])

\* Every way to lay a finite set out in a row, each member once.
Arrangements(S) == Bijection(1..Cardinality(S), S)

\* arr is the order in which order_slot emits the members of buffer.
InPolicyOrder(arr, buffer) ==
  \A k \in DOMAIN arr :
    PopsNext(buffer, {arr[l] : l \in {m \in DOMAIN arr : m >= k}}, arr[k])
=============================================================================
