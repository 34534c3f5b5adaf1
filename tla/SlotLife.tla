------------------------------ MODULE SlotLife ------------------------------
(***************************************************************************)
(* What the pipeline promises of a slot: it is committed in its turn, ruled *)
(* on once, and, if it was attested, judged once, together with neighbours, *)
(* as many as fit a batch, and after every attested slot below it.         *)
(* Nothing is undone or skipped (projection.rs:11-19, 144-147: "a skipped  *)
(* stage").                                                                *)
(***************************************************************************)
EXTENDS Integers

CONSTANTS
  Slots,      \* slot numbers, 0 and up
  BatchSize   \* slots judged together at most

VARIABLE stage    \* per slot: "open", "committed", "attested" or final

\* Where a slot comes to rest.
Final == {"refused", "proven", "unproven"}

Below(s) == {t \in Slots : t < s}

Init == stage = [s \in Slots |-> "open"]

Commit(s) ==
  /\ stage[s] = "open"
  /\ \A t \in Below(s) : stage[t] # "open"
  /\ stage' = [stage EXCEPT ![s] = "committed"]

Rule(s) ==
  /\ stage[s] = "committed"
  /\ \E ruling \in {"attested", "refused"} :
       stage' = [stage EXCEPT ![s] = ruling]

Judge(from, to) ==
  /\ from =< to
  /\ to - from < BatchSize
  /\ \A s \in from..to : stage[s] = "attested"
  /\ \A t \in Below(from) : stage[t] # "attested"
  /\ \E verdict \in {"proven", "unproven"} :
       stage' = [s \in Slots |-> IF s \in from..to THEN verdict ELSE stage[s]]

Next ==
  \/ \E s \in Slots : Commit(s) \/ Rule(s)
  \/ \E from, to \in Slots : Judge(from, to)

Spec == Init /\ [][Next]_stage
=============================================================================
