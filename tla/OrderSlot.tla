------------------------------ MODULE OrderSlot ------------------------------
(***************************************************************************)
(* order_slot and order_domain of sequencer.rs as the code computes them:  *)
(* split the buffer by market, sort each submitter's queue by nonce, then  *)
(* pop the winning head until every queue is empty.  A pure function of a  *)
(* Vec<Pending>, here a buffer as in Policy; what the code moves from      *)
(* queue to queue, a Pending, is named here by its place in the buffer.    *)
(***************************************************************************)
EXTENDS Sequences, Policy

\* Mutant of sort_by_key: the queue stays in arrival order.
arrival_order(S, key) ==
  CHOOSE arr \in Arrangements(S) :
    \A j, k \in DOMAIN arr : j < k => arr[j] < arr[k]

\* What arr is sorted by: the key, and by place where keys are equal.
InKeyOrder(arr, key) ==
  \A j, k \in DOMAIN arr :
    j < k => \/ key[arr[j]] < key[arr[k]]
             \/ key[arr[j]] = key[arr[k]] /\ arr[j] < arr[k]

\* sort_by_key, which is stable, of what stands at the places in S.
sort_by_key(S, key) == CHOOSE arr \in Arrangements(S) : InKeyOrder(arr, key)

\* The queues of one domain, by submitter.
QueuesOf(b, S) ==
  [a \in {b[k].submitter : k \in S} |->
     sort_by_key({k \in S : b[k].submitter = a}, [k \in S |-> b[k].nonce])]

\* Mutant of WinningHead: the lowest address, whatever the heads bid.
LowestAddress(b, queues) ==
  LET heads == {a \in DOMAIN queues : queues[a] # <<>>}
  IN  CHOOSE a \in heads : \A c \in heads : a =< c

\* a's head goes before c's: the order of (rank, address).
Beats(b, queues, a, c) ==
  LET p == b[Head(queues[a])]
      q == b[Head(queues[c])]
  IN  SortsAhead(p, q) \/ (~ SortsAhead(q, p) /\ a < c)

\* The head that wins among the non-empty queues: their minimum.
WinningHead(b, queues) ==
  LET heads == {a \in DOMAIN queues : queues[a] # <<>>}
  IN  CHOOSE a \in heads : \A c \in heads \ {a} : Beats(b, queues, a, c)

\* One turn of the loop.
Pop(b, merge) ==
  LET a == WinningHead(b, merge.queues)
  IN  [out    |-> Append(merge.out, Head(merge.queues[a])),
       queues |-> [merge.queues EXCEPT ![a] = Tail(@)]]

\* One ordering domain.  Each turn of the loop pops one intent, so there are
\* as many turns as intents.
order_domain(b, S) ==
  LET merge[n \in 0..Cardinality(S)] ==
        IF n = 0 THEN [out |-> <<>>, queues |-> QueuesOf(b, S)]
                 ELSE Pop(b, merge[n - 1])
  IN  merge[Cardinality(S)].out

\* The markets of a buffer in the order of a BTreeMap's keys.
MarketsOf(b) ==
  LET markets == {b[k].market : k \in DOMAIN b}
  IN  sort_by_key(markets, [m \in markets |-> m])

\* into_values().flat_map(order_domain): one domain after the other.
Domains(b) ==
  LET markets == MarketsOf(b)
      domain(m) == order_domain(b, {k \in DOMAIN b : b[k].market = m})
      upTo[n \in 0..Len(markets)] ==
        IF n = 0 THEN <<>> ELSE upTo[n - 1] \o domain(markets[n])
  IN  upTo[Len(markets)]

IdsOf(b, places) == [k \in DOMAIN places |-> b[places[k]].id]

\* Mutant of order_slot: one domain for all markets.
OneDomain(b) == IdsOf(b, order_domain(b, DOMAIN b))

\* One slot: the domains in market order, each ordered by itself.
order_slot(b) == IdsOf(b, Domains(b))

-----------------------------------------------------------------------------
CONSTANTS
  Candidates,   \* the Pending records a buffer may hold, with unique ids
  MaxBuffer     \* bound on the length of a buffer

ASSUME CandidatesAssumption ==
  Candidates \subseteq [id : Int, market : Int, submitter : Int, nonce : Nat,
                        priority_fee : Nat, received_at : Nat]

VARIABLE pending  \* Vec<Pending>: what the sequencer holds when a slot closes

OrderInit == pending = <<>>

\* Sequencer::run pushes what it reads.  Admission lets an id in once and a
\* submitter's nonce in once, in any order relative to other submitters; the
\* nonces of one submitter are not assumed to arrive in order here.
Push(p) ==
  /\ Len(pending) < MaxBuffer
  /\ \A k \in DOMAIN pending :
       /\ pending[k].id # p.id
       /\ <<pending[k].submitter, pending[k].nonce>> # <<p.submitter, p.nonce>>
  /\ pending' = Append(pending, p)

\* The boundary ticks: std::mem::take leaves an empty Vec for the next slot.
Take == pending # <<>> /\ pending' = <<>>

OrderNext == Take \/ \E p \in Candidates : Push(p)

OrderSpec == OrderInit /\ [][OrderNext]_pending

-----------------------------------------------------------------------------
(* Properties.                                                             *)

\* The loop returns the one order the policy defines: nonce order within a
\* submitter's queue, best head first, markets one after the other
\* (sequencer.rs:38-43).
LoopFollowsPolicy ==
  {IdsOf(pending, arr) :
     arr \in {a \in Arrangements(DOMAIN pending) : InPolicyOrder(a, pending)}}
  = {order_slot(pending)}

\* Whatever interleaving filled the buffer, the slot is the same: "the slot is
\* a pure function of the buffered set" (README.md:170-173).
SlotIsAFunctionOfTheSet ==
  \A p \in Arrangements(DOMAIN pending) :
    order_slot([k \in DOMAIN pending |-> pending[p[k]]]) = order_slot(pending)

\* What b holds for market m.
MarketOf(b, m) == [k \in {j \in DOMAIN b : b[j].market = m} |-> b[k]]

\* What a submitter's intents lose to a rival in another domain: nothing.
\* Taking the intents of the other markets out of the buffer leaves the
\* relative order of a market's intents as it was (README.md:152-153).
MarketsDoNotCompete ==
  \A m \in {pending[k].market : k \in DOMAIN pending} :
    LET own == order_slot(MarketOf(pending, m))
        all == order_slot(pending)
    IN  /\ Range(own) = {pending[k].id : k \in DOMAIN MarketOf(pending, m)}
        /\ \A i, j \in DOMAIN all, k, l \in DOMAIN own :
             all[i] = own[k] /\ all[j] = own[l] => (i < j <=> k < l)
=============================================================================
