-------------------------- MODULE InclusionPromise --------------------------
(***************************************************************************)
(* What the gate and the sequencer promise a client, with nothing said of  *)
(* locks, buffers, cursors or crashes: an intent is received once, then    *)
(* committed into one slot or dropped, and neither is ever taken back.     *)
(***************************************************************************)
EXTENDS Integers, Sequences, FiniteSets, Functions

CONSTANT Ids

VARIABLES
  status,   \* per id: "unknown", "received", "sequenced" or "expired"
  slots     \* the slots closed so far, each a sequence of ids

vars == <<status, slots>>

Init ==
  /\ status = [id \in Ids |-> "unknown"]
  /\ slots = <<>>

Receive(id) ==
  /\ status[id] = "unknown"
  /\ status' = [status EXCEPT ![id] = "received"]
  /\ UNCHANGED slots

Drop(id) ==
  /\ status[id] = "received"
  /\ status' = [status EXCEPT ![id] = "expired"]
  /\ UNCHANGED slots

\* A slot holds received intents, each at one place.
Close(ids) ==
  /\ \A id \in Range(ids) : status[id] = "received"
  /\ IsInjective(ids)
  /\ status' = [id \in Ids |-> IF id \in Range(ids) THEN "sequenced" ELSE status[id]]
  /\ slots' = Append(slots, ids)

Next ==
  \/ \E id \in Ids : Receive(id) \/ Drop(id)
  \/ \E S \in SUBSET Ids : \E ids \in Bijection(1..Cardinality(S), S) : Close(ids)

Spec == Init /\ [][Next]_vars

\* Every intent received is settled in the end.
Settled ==
  \A id \in Ids :
    status[id] = "received" ~> status[id] \in {"sequenced", "expired"}
=============================================================================
