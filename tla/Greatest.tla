------------------------------ MODULE Greatest ------------------------------
(***************************************************************************)
(* Greatest members of sets of integers, which the program looks for in    *)
(* many places: the last row of a table, the newest slot ruled on or       *)
(* judged, the highest nonce.                                              *)
(***************************************************************************)
EXTENDS Integers, FiniteSetTheorems, TLAPS

\* A finite nonempty set of integers has a greatest member.  A smallest subset
\* without one would, less any of its members, have one.
LEMMA GreatestExists ==
  ASSUME NEW S \in SUBSET Int, IsFiniteSet(S), S # {}
  PROVE  \E m \in S : \A n \in S : n =< m
<1> DEFINE HasGreatest(T) == \E m \in T : \A n \in T : n =< m
           Bad == {T \in SUBSET S : T # {} /\ ~ HasGreatest(T)}
<1>1. Bad \subseteq FiniteSubsetsOf(S)
  BY FS_FiniteSubsetsOfFinite
<1>2. SUFFICES ASSUME Bad # {} PROVE FALSE
  OBVIOUS
<1>3. IsWellFoundedOn(StrictSubsetOrdering(S), FiniteSubsetsOf(S))
  BY FS_StrictSubsetOrderingWellFounded
<1>4. PICK T \in Bad : \A U \in Bad : <<U, T>> \notin StrictSubsetOrdering(S)
  BY <1>1, <1>2, <1>3, WFMin
<1>5. PICK x \in T : TRUE
  BY <1>4
<1>6. <<T \ {x}, T>> \in StrictSubsetOrdering(S)
  BY <1>4, <1>5 DEF StrictSubsetOrdering
<1>7. T \ {x} \notin Bad
  BY <1>4, <1>6
<1>8. CASE T \ {x} = {}
  <2>1. HasGreatest(T)
    BY <1>4, <1>5, <1>8
  <2>2. QED
    BY <1>4, <2>1
<1>9. CASE T \ {x} # {}
  <2>1. PICK m \in T \ {x} : \A n \in T \ {x} : n =< m
    BY <1>4, <1>7, <1>9
  <2>2. CASE m =< x
    <3>1. \A n \in T : n =< x
      BY <1>4, <1>5, <2>1, <2>2
    <3>2. QED
      BY <1>4, <1>5, <3>1
  <2>3. CASE x < m
    <3>1. \A n \in T : n =< m
      BY <1>4, <1>5, <2>1, <2>3
    <3>2. QED
      BY <1>4, <2>1, <3>1
  <2>4. QED
    BY <1>4, <1>5, <2>1, <2>2, <2>3
<1>10. QED
  BY <1>8, <1>9

\* The greatest of a set is the one CHOOSE finds.
LEMMA GreatestOf ==
  ASSUME NEW S, S \subseteq Int, NEW m \in S, \A q \in S : q =< m
  PROVE  (CHOOSE p \in S : \A q \in S : q =< p) = m
<1>1. ASSUME NEW p \in S, \A q \in S : q =< p
      PROVE  p = m
  <2>1. p \in Int /\ m \in Int /\ p =< m /\ m =< p
    BY <1>1
  <2>2. QED
    BY <2>1
<1>2. QED
  BY <1>1

\* So has any part of a range that is not empty.
LEMMA GreatestInRange ==
  ASSUME NEW a \in Int, NEW n \in Int, NEW S \in SUBSET (a..n), S # {}
  PROVE  \E m \in S : \A q \in S : q =< m
<1>1. IsFiniteSet(S)
  BY FS_Interval, FS_Subset
<1>2. QED
  BY <1>1, GreatestExists
=============================================================================
