--------------------------- MODULE ReadModelProofs ---------------------------
(***************************************************************************)
(* What folding a log makes of it (ReadModel), for logs of every length    *)
(* and entries over any ids and data.                                      *)
(*                                                                         *)
(* The fold is a function of how far it has come (FoldSteps), and what     *)
(* each entry keeps true is true of it at any point (StepByStep, by a      *)
(* smallest counterexample).  Kept is Reads: every row is what the entries *)
(* read so far say of its intent or slot, as long as the writers keep to   *)
(* what may follow what (Fits, History).                                   *)
(***************************************************************************)
EXTENDS ReadModel, SlotEntries, SequenceTheorems, WellFoundedInduction, TLAPS

-----------------------------------------------------------------------------
(* The fold.                                                               *)

\* What holds at the first number of a range, and at the next whenever it holds
\* at one, holds in the whole range.
LEMMA StepByStep ==
  ASSUME NEW lo \in Nat, NEW hi \in Nat, NEW Good, lo \in Good,
         \A n \in lo..(hi - 1) : n \in Good => n + 1 \in Good
  PROVE  lo..hi \subseteq Good
<1> DEFINE Bad == (lo..hi) \ Good
<1>1. SUFFICES ASSUME Bad # {} PROVE FALSE
  OBVIOUS
<1>2. Bad \subseteq Nat
  OBVIOUS
<1>3. PICK n \in Bad : \A k \in Bad : <<k, n>> \notin OpToRel(<, Nat)
  BY <1>1, <1>2, NatLessThanWellFounded, WFMin
<1>4. \A k \in Bad : ~ k < n
  BY <1>2, <1>3 DEF OpToRel
<1>5. n \in lo..hi /\ n # lo
  BY <1>3
<1>6. n - 1 \in lo..(hi - 1) /\ n - 1 \in lo..hi /\ n - 1 < n /\ (n - 1) + 1 = n
  BY <1>5
<1>7. n - 1 \in Good
  BY <1>4, <1>6
<1>8. n \in Good
  BY <1>6, <1>7
<1>9. QED
  BY <1>3, <1>8

\* f is the model after each of the entries from lo to hi.
FoldsOver(f, m, entries, lo, hi) ==
  f = [n \in lo..hi |->
         IF n = lo THEN m ELSE apply(f[n - 1], n - 1, entries[n])]

\* There is such a function.
LEMMA FoldExists ==
  ASSUME NEW m, NEW entries, NEW lo \in Nat, NEW hi \in Nat, lo =< hi
  PROVE  \E f : FoldsOver(f, m, entries, lo, hi)
<1> DEFINE Good == {h \in Nat : \E f : FoldsOver(f, m, entries, lo, h)}
<1>1. lo \in Good
  <2> DEFINE f == [n \in lo..lo |-> m]
  <2>1. FoldsOver(f, m, entries, lo, lo)
    BY DEF FoldsOver
  <2>2. QED
    BY <2>1
<1>2. ASSUME NEW h \in lo..(hi - 1), h \in Good
      PROVE  h + 1 \in Good
  <2>1. PICK f : FoldsOver(f, m, entries, lo, h)
    BY <1>2
  <2> DEFINE g == [n \in lo..(h + 1) |->
                     IF n = h + 1 THEN apply(f[h], h, entries[h + 1]) ELSE f[n]]
  <2>2. h \in Nat /\ lo =< h /\ h + 1 \in Nat /\ (h + 1) - 1 = h
    OBVIOUS
  <2>3. \A n \in lo..h : f[n] = IF n = lo THEN m ELSE apply(f[n - 1], n - 1, entries[n])
    BY <2>1 DEF FoldsOver
  <2>4. ASSUME NEW n \in lo..(h + 1)
        PROVE  g[n] = IF n = lo THEN m ELSE apply(g[n - 1], n - 1, entries[n])
    <3>1. CASE n = h + 1
      <4>1. n # lo /\ n - 1 = h /\ h \in lo..(h + 1) /\ h # h + 1
        BY <2>2, <3>1
      <4>2. g[n] = apply(f[h], h, entries[n])
        BY <3>1
      <4>3. g[n - 1] = f[h]
        BY <4>1
      <4>4. QED
        BY <4>1, <4>2, <4>3
    <3>2. CASE n # h + 1
      <4>1. n \in lo..h
        BY <2>2, <3>2
      <4>2. g[n] = f[n]
        BY <3>2
      <4>3. CASE n = lo
        BY <2>3, <4>1, <4>2, <4>3
      <4>4. CASE n # lo
        <5>1. n - 1 \in lo..(h + 1) /\ n - 1 # h + 1
          BY <2>2, <4>1, <4>4
        <5>2. g[n - 1] = f[n - 1]
          BY <5>1
        <5>3. QED
          BY <2>3, <4>1, <4>2, <4>4, <5>2
      <4>5. QED
        BY <4>3, <4>4
    <3>3. QED
      BY <3>1, <3>2
  <2>5. g = [n \in lo..(h + 1) |->
               IF n = lo THEN m ELSE apply(g[n - 1], n - 1, entries[n])]
    <3> HIDE DEF g
    <3>1. DOMAIN g = lo..(h + 1) /\ g = [n \in lo..(h + 1) |-> g[n]]
      BY DEF g
    <3>2. QED
      BY <2>4, <3>1
  <2>6. FoldsOver(g, m, entries, lo, h + 1)
    BY <2>5 DEF FoldsOver
  <2>7. QED
    BY <2>2, <2>6
<1>3. lo..hi \subseteq Good
  <2> HIDE DEF Good
  <2>1. QED
    BY <1>1, <1>2, StepByStep
<1>4. hi \in Good
  BY <1>3
<1>5. QED
  BY <1>4

\* The loop over a batch applies one entry after the other.
LEMMA FoldSteps ==
  ASSUME NEW m, NEW entries, NEW lo \in Nat, m.cursor = lo,
         NEW hi \in Nat, lo =< hi
  PROVE  \E f : /\ f[lo] = m
                /\ \A n \in lo..(hi - 1) : f[n + 1] = apply(f[n], n, entries[n + 1])
                /\ Folded(m, entries, hi) = f[hi]
<1> DEFINE f == CHOOSE g : FoldsOver(g, m, entries, lo, hi)
<1>1. FoldsOver(f, m, entries, lo, hi)
  BY FoldExists
<1>2. Folded(m, entries, hi) = f[hi]
  BY DEF Folded, FoldsOver
<1> HIDE DEF f
<1>3. f[lo] = m
  BY <1>1 DEF FoldsOver
<1>4. ASSUME NEW n \in lo..(hi - 1)
      PROVE  f[n + 1] = apply(f[n], n, entries[n + 1])
  <2>1. n + 1 \in lo..hi /\ n + 1 # lo /\ (n + 1) - 1 = n
    OBVIOUS
  <2>2. QED
    BY <1>1, <2>1 DEF FoldsOver
<1>5. QED
  BY <1>2, <1>3, <1>4

-----------------------------------------------------------------------------
(* What comes after what in a log.                                         *)

\* The ids of the intents admitted, dropped and placed in a slot.
IdsIn(r)     == {r[p].intent.id : p \in Of(r, {"IntentReceived"})}
DroppedIn(r) == {r[p].id : p \in Of(r, {"IntentExpired"})}
PlacedIn(r)  == UNION {ToSet(r[p].intents) : p \in Commits(r)}

\* The slots refused by the enclave, covered by a proof and by a failure to prove.
RefusedIn(r)  == {r[p].slot : p \in Of(r, {"AttestFailed"})}
ProvenIn(r)   == UNION {Covers(r, p) : p \in Of(r, {"SlotsProven"})}
UnprovenIn(r) == UNION {Covers(r, p) : p \in Of(r, {"ProveFailed"})}

\* An entry that may follow on log r, as the stages append them: an intent comes
\* once, then it is dropped or in one slot; a slot is committed, ruled on and
\* judged, each once.
Fits(r, e) ==
  \/ e.kind = "IntentReceived" /\ e.intent.id \notin IdsIn(r)
  \/ /\ e.kind = "IntentExpired"
     /\ e.id \in IdsIn(r) \ PlacedIn(r)
  \/ /\ e.kind = "SlotCommitted"
     /\ e.slot \notin CommittedSlots(r)
     /\ e.intents \in Seq(IdsIn(r) \ (PlacedIn(r) \cup DroppedIn(r)))
     /\ \A k, l \in DOMAIN e.intents : e.intents[k] = e.intents[l] => k = l
  \/ /\ e.kind \in {"SlotAttested", "AttestFailed"}
     /\ e.slot \in CommittedSlots(r) \ RuledSlots(r)
  \/ /\ e.kind \in {"SlotsProven", "ProveFailed"}
     /\ e.from_slot .. e.to_slot \subseteq AttestedSlots(r) \ JudgedSlots(r)

\* What a log of such entries is like.
Coherent(r) ==
  /\ \A p, q \in Of(r, {"IntentReceived"}) : r[p].intent.id = r[q].intent.id => p = q
  /\ \A p, q \in Commits(r) :
       \A k \in DOMAIN r[p].intents, l \in DOMAIN r[q].intents :
         r[p].intents[k] = r[q].intents[l] => p = q /\ k = l
  /\ \A p \in Commits(r) : DOMAIN r[p].intents = 1..Len(r[p].intents)
  /\ PlacedIn(r) \subseteq IdsIn(r) /\ DroppedIn(r) \subseteq IdsIn(r)
  /\ PlacedIn(r) \cap DroppedIn(r) = {}
  /\ \A p, q \in Commits(r) : r[p].slot = r[q].slot => p = q
  /\ RuledSlots(r) \subseteq CommittedSlots(r)
  /\ \A p, q \in Rulings(r) : r[p].slot = r[q].slot => p = q
  /\ JudgedSlots(r) \subseteq AttestedSlots(r)
  /\ \A p, q \in Verdicts(r) : Covers(r, p) \cap Covers(r, q) # {} => p = q

\* longer is log r with e in position n, after all others.
Extends(longer, r, e, n) ==
  /\ longer[n] = e
  /\ \A kind :
       /\ n \notin Of(r, {kind})
       /\ \A p \in Of(r, {kind}) : longer[p] = r[p]
       /\ Of(longer, {kind}) =
            IF e.kind = kind THEN Of(r, {kind}) \cup {n} ELSE Of(r, {kind})

LEMMA AppendExtends ==
  ASSUME NEW S, NEW r \in Seq(S), NEW e
  PROVE  Extends(Append(r, e), r, e, Len(r) + 1)
<1> DEFINE longer == Append(r, e)
           n == Len(r) + 1
<1>1. n \in Nat /\ Len(r) \in Nat /\ DOMAIN r = 1..Len(r) /\ n \notin DOMAIN r
  OBVIOUS
<1>2. r \in Seq(S \cup {e})
  BY SeqMonotonic
<1>3. /\ DOMAIN longer = 1..n
      /\ longer[n] = e
      /\ \A p \in DOMAIN r : longer[p] = r[p]
  BY <1>2
<1>4. 1..n = 1..Len(r) \cup {n}
  BY <1>1
<1>5. ASSUME NEW kind
      PROVE  Of(longer, {kind})
               = IF e.kind = kind THEN Of(r, {kind}) \cup {n} ELSE Of(r, {kind})
  BY <1>1, <1>3, <1>4 DEF Of
<1>6. QED
  BY <1>1, <1>3, <1>5 DEF Extends, Of

\* What entry e adds to each of the sets.
NewRefused(e)  == IF e.kind = "AttestFailed" THEN {e.slot} ELSE {}
NewAttested(e) == IF e.kind = "SlotAttested" THEN {e.slot} ELSE {}
NewProven(e)   == IF e.kind = "SlotsProven" THEN e.from_slot .. e.to_slot ELSE {}
NewUnproven(e) == IF e.kind = "ProveFailed" THEN e.from_slot .. e.to_slot ELSE {}
NewDropped(e)  == IF e.kind = "IntentExpired" THEN {e.id} ELSE {}
NewPlaced(e)   == IF e.kind = "SlotCommitted" THEN ToSet(e.intents) ELSE {}

\* An entry adds just that.
LEMMA SetsGrow ==
  ASSUME NEW longer, NEW r, NEW e, NEW n, Extends(longer, r, e, n)
  PROVE  /\ IdsIn(longer) = IdsIn(r) \cup NewIntents(e)
         /\ DroppedIn(longer) = DroppedIn(r) \cup NewDropped(e)
         /\ PlacedIn(longer) = PlacedIn(r) \cup NewPlaced(e)
         /\ CommittedSlots(longer) = CommittedSlots(r) \cup NewSlots(e)
         /\ AttestedSlots(longer) = AttestedSlots(r) \cup NewAttested(e)
         /\ RefusedIn(longer) = RefusedIn(r) \cup NewRefused(e)
         /\ ProvenIn(longer) = ProvenIn(r) \cup NewProven(e)
         /\ UnprovenIn(longer) = UnprovenIn(r) \cup NewUnproven(e)
<1>1. IdsIn(longer) = IdsIn(r) \cup NewIntents(e)
  <2>1. CASE e.kind = "IntentReceived"
    <3>1. /\ Of(longer, {"IntentReceived"}) = Of(r, {"IntentReceived"}) \cup {n}
          /\ \A p \in Of(r, {"IntentReceived"}) : longer[p] = r[p]
      BY <2>1 DEF Extends
    <3>2. QED
      BY <2>1, <3>1 DEF IdsIn, NewIntents, Extends
  <2>2. CASE e.kind # "IntentReceived"
    <3>1. /\ Of(longer, {"IntentReceived"}) = Of(r, {"IntentReceived"})
          /\ \A p \in Of(r, {"IntentReceived"}) : longer[p] = r[p]
      BY <2>2 DEF Extends
    <3>2. QED
      BY <2>2, <3>1 DEF IdsIn, NewIntents
  <2>3. QED
    BY <2>1, <2>2
<1>2. DroppedIn(longer) = DroppedIn(r) \cup NewDropped(e)
  <2>1. CASE e.kind = "IntentExpired"
    <3>1. /\ Of(longer, {"IntentExpired"}) = Of(r, {"IntentExpired"}) \cup {n}
          /\ \A p \in Of(r, {"IntentExpired"}) : longer[p] = r[p]
      BY <2>1 DEF Extends
    <3>2. QED
      BY <2>1, <3>1 DEF DroppedIn, NewDropped, Extends
  <2>2. CASE e.kind # "IntentExpired"
    <3>1. /\ Of(longer, {"IntentExpired"}) = Of(r, {"IntentExpired"})
          /\ \A p \in Of(r, {"IntentExpired"}) : longer[p] = r[p]
      BY <2>2 DEF Extends
    <3>2. QED
      BY <2>2, <3>1 DEF DroppedIn, NewDropped
  <2>3. QED
    BY <2>1, <2>2
<1>3. PlacedIn(longer) = PlacedIn(r) \cup NewPlaced(e)
  <2>1. CASE e.kind = "SlotCommitted"
    <3>1. /\ Of(longer, {"SlotCommitted"}) = Of(r, {"SlotCommitted"}) \cup {n}
          /\ \A p \in Of(r, {"SlotCommitted"}) : longer[p] = r[p]
      BY <2>1 DEF Extends
    <3>2. QED
      BY <2>1, <3>1 DEF PlacedIn, NewPlaced, Commits, Extends
  <2>2. CASE e.kind # "SlotCommitted"
    <3>1. /\ Of(longer, {"SlotCommitted"}) = Of(r, {"SlotCommitted"})
          /\ \A p \in Of(r, {"SlotCommitted"}) : longer[p] = r[p]
      BY <2>2 DEF Extends
    <3>2. QED
      BY <2>2, <3>1 DEF PlacedIn, NewPlaced, Commits
  <2>3. QED
    BY <2>1, <2>2
<1>4. CommittedSlots(longer) = CommittedSlots(r) \cup NewSlots(e)
  <2>1. CASE e.kind = "SlotCommitted"
    <3>1. /\ Of(longer, {"SlotCommitted"}) = Of(r, {"SlotCommitted"}) \cup {n}
          /\ \A p \in Of(r, {"SlotCommitted"}) : longer[p] = r[p]
      BY <2>1 DEF Extends
    <3>2. QED
      BY <2>1, <3>1 DEF CommittedSlots, NewSlots, Commits, Extends
  <2>2. CASE e.kind # "SlotCommitted"
    <3>1. /\ Of(longer, {"SlotCommitted"}) = Of(r, {"SlotCommitted"})
          /\ \A p \in Of(r, {"SlotCommitted"}) : longer[p] = r[p]
      BY <2>2 DEF Extends
    <3>2. QED
      BY <2>2, <3>1 DEF CommittedSlots, NewSlots, Commits
  <2>3. QED
    BY <2>1, <2>2
<1>5. AttestedSlots(longer) = AttestedSlots(r) \cup NewAttested(e)
  <2>1. CASE e.kind = "SlotAttested"
    <3>1. /\ Of(longer, {"SlotAttested"}) = Of(r, {"SlotAttested"}) \cup {n}
          /\ \A p \in Of(r, {"SlotAttested"}) : longer[p] = r[p]
      BY <2>1 DEF Extends
    <3>2. QED
      BY <2>1, <3>1 DEF AttestedSlots, NewAttested, Extends
  <2>2. CASE e.kind # "SlotAttested"
    <3>1. /\ Of(longer, {"SlotAttested"}) = Of(r, {"SlotAttested"})
          /\ \A p \in Of(r, {"SlotAttested"}) : longer[p] = r[p]
      BY <2>2 DEF Extends
    <3>2. QED
      BY <2>2, <3>1 DEF AttestedSlots, NewAttested
  <2>3. QED
    BY <2>1, <2>2
<1>6. RefusedIn(longer) = RefusedIn(r) \cup NewRefused(e)
  <2>1. CASE e.kind = "AttestFailed"
    <3>1. /\ Of(longer, {"AttestFailed"}) = Of(r, {"AttestFailed"}) \cup {n}
          /\ \A p \in Of(r, {"AttestFailed"}) : longer[p] = r[p]
      BY <2>1 DEF Extends
    <3>2. QED
      BY <2>1, <3>1 DEF RefusedIn, NewRefused, Extends
  <2>2. CASE e.kind # "AttestFailed"
    <3>1. /\ Of(longer, {"AttestFailed"}) = Of(r, {"AttestFailed"})
          /\ \A p \in Of(r, {"AttestFailed"}) : longer[p] = r[p]
      BY <2>2 DEF Extends
    <3>2. QED
      BY <2>2, <3>1 DEF RefusedIn, NewRefused
  <2>3. QED
    BY <2>1, <2>2
<1>7. ProvenIn(longer) = ProvenIn(r) \cup NewProven(e)
  <2>1. CASE e.kind = "SlotsProven"
    <3>1. /\ Of(longer, {"SlotsProven"}) = Of(r, {"SlotsProven"}) \cup {n}
          /\ \A p \in Of(r, {"SlotsProven"}) : longer[p] = r[p]
      BY <2>1 DEF Extends
    <3>2. QED
      BY <2>1, <3>1 DEF ProvenIn, NewProven, Covers, Extends
  <2>2. CASE e.kind # "SlotsProven"
    <3>1. /\ Of(longer, {"SlotsProven"}) = Of(r, {"SlotsProven"})
          /\ \A p \in Of(r, {"SlotsProven"}) : longer[p] = r[p]
      BY <2>2 DEF Extends
    <3>2. QED
      BY <2>2, <3>1 DEF ProvenIn, NewProven, Covers
  <2>3. QED
    BY <2>1, <2>2
<1>8. UnprovenIn(longer) = UnprovenIn(r) \cup NewUnproven(e)
  <2>1. CASE e.kind = "ProveFailed"
    <3>1. /\ Of(longer, {"ProveFailed"}) = Of(r, {"ProveFailed"}) \cup {n}
          /\ \A p \in Of(r, {"ProveFailed"}) : longer[p] = r[p]
      BY <2>1 DEF Extends
    <3>2. QED
      BY <2>1, <3>1 DEF UnprovenIn, NewUnproven, Covers, Extends
  <2>2. CASE e.kind # "ProveFailed"
    <3>1. /\ Of(longer, {"ProveFailed"}) = Of(r, {"ProveFailed"})
          /\ \A p \in Of(r, {"ProveFailed"}) : longer[p] = r[p]
      BY <2>2 DEF Extends
    <3>2. QED
      BY <2>2, <3>1 DEF UnprovenIn, NewUnproven, Covers
  <2>3. QED
    BY <2>1, <2>2
<1>9. QED
  BY <1>1, <1>2, <1>3, <1>4, <1>5, <1>6, <1>7, <1>8

\* Rulings and verdicts are of two kinds each.
LEMMA BothKinds ==
  ASSUME NEW r
  PROVE  /\ Rulings(r) = Of(r, {"SlotAttested"}) \cup Of(r, {"AttestFailed"})
         /\ Verdicts(r) = Of(r, {"SlotsProven"}) \cup Of(r, {"ProveFailed"})
         /\ RuledSlots(r) = AttestedSlots(r) \cup RefusedIn(r)
         /\ JudgedSlots(r) = ProvenIn(r) \cup UnprovenIn(r)
<1>1. Rulings(r) = Of(r, {"SlotAttested"}) \cup Of(r, {"AttestFailed"})
  BY DEF Rulings, Of
<1>2. Verdicts(r) = Of(r, {"SlotsProven"}) \cup Of(r, {"ProveFailed"})
  BY DEF Verdicts, Of
<1>3. RuledSlots(r) = AttestedSlots(r) \cup RefusedIn(r)
  BY <1>1 DEF RuledSlots, AttestedSlots, RefusedIn
<1>4. JudgedSlots(r) = ProvenIn(r) \cup UnprovenIn(r)
  BY <1>2 DEF JudgedSlots, ProvenIn, UnprovenIn
<1>5. QED
  BY <1>1, <1>2, <1>3, <1>4

\* Entries that fit leave the log coherent.
LEMMA CoherentStays ==
  ASSUME NEW longer, NEW r, NEW e, NEW n, Extends(longer, r, e, n),
         Coherent(r), Fits(r, e)
  PROVE  Coherent(longer)
<1>1. \A p, q \in Of(longer, {"IntentReceived"}) :
        longer[p].intent.id = longer[q].intent.id => p = q
  <2>1. CASE e.kind = "IntentReceived"
    <3>1. \A p \in Of(r, {"IntentReceived"}) : r[p].intent.id # e.intent.id
      BY <2>1 DEF Fits, IdsIn
    <3>2. Of(longer, {"IntentReceived"}) = Of(r, {"IntentReceived"}) \cup {n}
      BY <2>1 DEF Extends
    <3>3. longer[n] = e /\ \A p \in Of(r, {"IntentReceived"}) : longer[p] = r[p]
      BY DEF Extends
    <3>4. \A p, q \in Of(r, {"IntentReceived"}) :
            r[p].intent.id = r[q].intent.id => p = q
      BY DEF Coherent
    <3>5. ASSUME NEW p \in Of(longer, {"IntentReceived"}),
                 NEW q \in Of(longer, {"IntentReceived"}),
                 longer[p].intent.id = longer[q].intent.id
          PROVE  p = q
      <4>1. CASE p = n
        BY <3>1, <3>2, <3>3, <3>5, <4>1
      <4>2. CASE q = n
        BY <3>1, <3>2, <3>3, <3>5, <4>2
      <4>3. CASE p # n /\ q # n
        BY <3>2, <3>3, <3>4, <3>5, <4>3
      <4>4. QED
        BY <4>1, <4>2, <4>3
    <3>6. QED
      BY <3>5, Zenon
  <2>2. CASE e.kind # "IntentReceived"
    <3>1. /\ Of(longer, {"IntentReceived"}) = Of(r, {"IntentReceived"})
          /\ \A p \in Of(r, {"IntentReceived"}) : longer[p] = r[p]
      BY <2>2 DEF Extends
    <3>2. \A p, q \in Of(r, {"IntentReceived"}) :
            r[p].intent.id = r[q].intent.id => p = q
      BY DEF Coherent
    <3>3. QED
      BY <3>1, <3>2
  <2>3. QED
    BY <2>1, <2>2
<1>2. /\ \A p, q \in Commits(longer) :
           \A k \in DOMAIN longer[p].intents, l \in DOMAIN longer[q].intents :
             longer[p].intents[k] = longer[q].intents[l] => p = q /\ k = l
      /\ \A p \in Commits(longer) :
           DOMAIN longer[p].intents = 1..Len(longer[p].intents)
      /\ \A p, q \in Commits(longer) : longer[p].slot = longer[q].slot => p = q
  <2>1. CASE e.kind = "SlotCommitted"
    <3>1. Commits(longer) = Commits(r) \cup {n} /\ longer[n] = e
      BY <2>1 DEF Extends, Commits
    <3>2. \A p \in Commits(r) : longer[p] = r[p]
      BY DEF Extends, Commits
    <3>3. /\ e.slot \notin CommittedSlots(r)
          /\ e.intents \in Seq(IdsIn(r) \ (PlacedIn(r) \cup DroppedIn(r)))
          /\ \A k, l \in DOMAIN e.intents : e.intents[k] = e.intents[l] => k = l
      BY <2>1 DEF Fits
    <3>4. /\ DOMAIN e.intents = 1..Len(e.intents)
          /\ \A k \in DOMAIN e.intents : e.intents[k] \notin PlacedIn(r)
      BY <3>3
    <3>5. \A p \in Commits(r) : \A k \in DOMAIN r[p].intents :
            r[p].intents[k] \in PlacedIn(r)
      BY DEF PlacedIn, ToSet
    <3>6. \A p \in Commits(r) : r[p].slot # e.slot
      BY <3>3 DEF CommittedSlots
    <3>7. \A p \in Commits(longer) : p \in Commits(r) \/ p = n
      BY <3>1
    <3>8. \A p, q \in Commits(longer) : longer[p].slot = longer[q].slot => p = q
      BY <3>1, <3>2, <3>6 DEF Coherent
    <3>9. \A p \in Commits(longer) :
            DOMAIN longer[p].intents = 1..Len(longer[p].intents)
      BY <3>1, <3>2, <3>4 DEF Coherent
    <3>10. ASSUME NEW p \in Commits(longer), NEW q \in Commits(longer),
                  NEW k \in DOMAIN longer[p].intents,
                  NEW l \in DOMAIN longer[q].intents,
                  longer[p].intents[k] = longer[q].intents[l]
           PROVE  p = q /\ k = l
      <4>1. CASE p \in Commits(r) /\ q \in Commits(r)
        BY <3>2, <3>10, <4>1 DEF Coherent
      <4>2. CASE p = n /\ q = n
        BY <3>1, <3>3, <3>10, <4>2
      <4>3. CASE p \in Commits(r) /\ q = n
        BY <3>1, <3>2, <3>4, <3>5, <3>10, <4>3
      <4>4. CASE p = n /\ q \in Commits(r)
        BY <3>1, <3>2, <3>4, <3>5, <3>10, <4>4
      <4>5. QED
        BY <3>7, <4>1, <4>2, <4>3, <4>4
    <3>11. QED
      BY <3>8, <3>9, <3>10
  <2>2. CASE e.kind # "SlotCommitted"
    <3>1. Commits(longer) = Commits(r)
      BY <2>2 DEF Extends, Commits
    <3>2. \A p \in Commits(r) : longer[p] = r[p]
      BY DEF Extends, Commits
    <3>3. QED
      BY <3>1, <3>2 DEF Coherent
  <2>3. QED
    BY <2>1, <2>2
<1>3. /\ PlacedIn(longer) \subseteq IdsIn(longer)
      /\ DroppedIn(longer) \subseteq IdsIn(longer)
      /\ PlacedIn(longer) \cap DroppedIn(longer) = {}
  <2>1. /\ IdsIn(longer) = IdsIn(r) \cup NewIntents(e)
        /\ DroppedIn(longer) = DroppedIn(r) \cup NewDropped(e)
        /\ PlacedIn(longer) = PlacedIn(r) \cup NewPlaced(e)
    BY SetsGrow
  <2>2. NewDropped(e) \subseteq IdsIn(r) \ PlacedIn(r)
    BY DEF Fits, NewDropped
  <2>3. NewPlaced(e) \subseteq IdsIn(r) \ (PlacedIn(r) \cup DroppedIn(r))
    BY DEF Fits, NewPlaced, ToSet
  <2>4. NewDropped(e) = {} \/ NewPlaced(e) = {}
    BY DEF NewDropped, NewPlaced
  <2>5. QED
    BY <2>1, <2>2, <2>3, <2>4 DEF Coherent
<1>4. /\ CommittedSlots(longer) = CommittedSlots(r) \cup NewSlots(e)
      /\ AttestedSlots(longer) = AttestedSlots(r) \cup NewAttested(e)
      /\ RuledSlots(longer) = RuledSlots(r) \cup NewAttested(e) \cup NewRefused(e)
      /\ JudgedSlots(longer) = JudgedSlots(r) \cup NewProven(e) \cup NewUnproven(e)
  BY SetsGrow, BothKinds
<1>5. RuledSlots(longer) \subseteq CommittedSlots(longer)
  BY <1>4 DEF Coherent, Fits, NewAttested, NewRefused
<1>6. JudgedSlots(longer) \subseteq AttestedSlots(longer)
  BY <1>4 DEF Coherent, Fits, NewProven, NewUnproven
<1>7. \A p, q \in Rulings(longer) : longer[p].slot = longer[q].slot => p = q
  <2>1. /\ Rulings(r) = Of(r, {"SlotAttested"}) \cup Of(r, {"AttestFailed"})
        /\ Rulings(longer) = Of(longer, {"SlotAttested"}) \cup Of(longer, {"AttestFailed"})
    BY BothKinds
  <2>2. /\ \A p \in Of(r, {"SlotAttested"}) \cup Of(r, {"AttestFailed"}) : longer[p] = r[p]
        /\ Of(longer, {"SlotAttested"})
             = IF e.kind = "SlotAttested" THEN Of(r, {"SlotAttested"}) \cup {n} ELSE Of(r, {"SlotAttested"})
        /\ Of(longer, {"AttestFailed"})
             = IF e.kind = "AttestFailed" THEN Of(r, {"AttestFailed"}) \cup {n} ELSE Of(r, {"AttestFailed"})
        /\ longer[n] = e
    BY DEF Extends
  <2>3. \A p \in Rulings(r) : longer[p] = r[p]
    BY <2>1, <2>2
  <2>4. CASE e.kind \in {"SlotAttested", "AttestFailed"}
    <3>1. Rulings(longer) = Rulings(r) \cup {n} /\ longer[n] = e
      BY <2>4, <2>1, <2>2
    <3>2. \A p \in Rulings(r) : r[p].slot # e.slot
      BY <2>4 DEF Fits, RuledSlots
    <3>3. QED
      BY <2>3, <3>1, <3>2 DEF Coherent
  <2>5. CASE e.kind \notin {"SlotAttested", "AttestFailed"}
    <3>1. Rulings(longer) = Rulings(r)
      BY <2>5, <2>1, <2>2
    <3>2. QED
      BY <2>3, <3>1 DEF Coherent
  <2>6. QED
    BY <2>4, <2>5
<1>8. \A p, q \in Verdicts(longer) : Covers(longer, p) \cap Covers(longer, q) # {} => p = q
  <2>1. /\ Verdicts(r) = Of(r, {"SlotsProven"}) \cup Of(r, {"ProveFailed"})
        /\ Verdicts(longer) = Of(longer, {"SlotsProven"}) \cup Of(longer, {"ProveFailed"})
    BY BothKinds
  <2>2. /\ \A p \in Of(r, {"SlotsProven"}) \cup Of(r, {"ProveFailed"}) : longer[p] = r[p]
        /\ Of(longer, {"SlotsProven"})
             = IF e.kind = "SlotsProven" THEN Of(r, {"SlotsProven"}) \cup {n} ELSE Of(r, {"SlotsProven"})
        /\ Of(longer, {"ProveFailed"})
             = IF e.kind = "ProveFailed" THEN Of(r, {"ProveFailed"}) \cup {n} ELSE Of(r, {"ProveFailed"})
        /\ longer[n] = e
    BY DEF Extends
  <2>3. \A p \in Verdicts(r) : Covers(longer, p) = Covers(r, p)
    BY <2>1, <2>2 DEF Covers
  <2>4. CASE e.kind \in {"SlotsProven", "ProveFailed"}
    <3>1. Verdicts(longer) = Verdicts(r) \cup {n}
      BY <2>4, <2>1, <2>2
    <3>2. \A p \in Verdicts(r) : Covers(r, p) \cap Covers(longer, n) = {}
      BY <2>4 DEF Fits, JudgedSlots, Covers, Extends
    <3>3. QED
      BY <2>3, <3>1, <3>2 DEF Coherent
  <2>5. CASE e.kind \notin {"SlotsProven", "ProveFailed"}
    <3>1. Verdicts(longer) = Verdicts(r)
      BY <2>5, <2>1, <2>2
    <3>2. QED
      BY <2>3, <3>1 DEF Coherent
  <2>6. QED
    BY <2>4, <2>5
<1>9. QED
  BY <1>1, <1>2, <1>3, <1>5, <1>6, <1>7, <1>8 DEF Coherent

-----------------------------------------------------------------------------
(* Rows against the log.                                                   *)

\* The fields of an entry the model copies are data.
Carries(e, D) ==
  /\ e.kind = "IntentReceived" => e.received_at \in D /\ e.intent.deadline_ms \in D
  /\ e.kind = "IntentExpired" => <<e.guarantee_deadline_ms, e.at_ms>> \in D \X D
  /\ e.kind = "SlotCommitted" =>
       e.slot \in Nat /\ e.commitment \in D /\ e.committed_at_ms \in D
  /\ e.kind = "SlotAttested" => Preconf(e) \in Preconfs(D)
  /\ e.kind = "SlotsProven" => ProvenRange(e) \in ProvenRanges(D)
  /\ e.kind \in {"AttestFailed", "ProveFailed"} => e.reason \in D

\* None is told from what an Option of a row may hold.
NoneApart(D) ==
  /\ None \notin Nat
  /\ None \notin D
  /\ None \notin D \X D
  /\ None \notin Preconfs(D)
  /\ None \notin ProvenRanges(D)

\* An intent's row: its admission, its miss and its place.
AdmissionRead(row, id, r) ==
  \E p \in Of(r, {"IntentReceived"}) :
    /\ r[p].intent.id = id
    /\ row.position = p - 1
    /\ row.received_at_ms = r[p].received_at
    /\ row.deadline_ms = r[p].intent.deadline_ms

MissRead(row, id, r) ==
  /\ row.expired # None <=> id \in DroppedIn(r)
  /\ row.expired # None =>
       \E p \in Of(r, {"IntentExpired"}) :
         /\ r[p].id = id
         /\ row.expired = <<r[p].guarantee_deadline_ms, r[p].at_ms>>

PlaceRead(row, id, r) ==
  /\ row.slot # None <=> id \in PlacedIn(r)
  /\ row.slot # None =>
       \E p \in Commits(r) : \E k \in DOMAIN r[p].intents :
         /\ r[p].slot = row.slot
         /\ r[p].intents[k] = id
         /\ row.index = k - 1

IntentRead(row, id, r) ==
  AdmissionRead(row, id, r) /\ MissRead(row, id, r) /\ PlaceRead(row, id, r)

\* A slot's row: its commitment, its stage and its evidence.
CommitRead(row, s, r) ==
  \E p \in Commits(r) :
    /\ r[p].slot = s
    /\ row.commitment = r[p].commitment
    /\ row.committed_at_ms = r[p].committed_at_ms

StageOf(r, s) ==
  IF s \in RefusedIn(r) \cup UnprovenIn(r) THEN "Failed"
  ELSE IF s \in ProvenIn(r) THEN "Proven"
  ELSE IF s \in AttestedSlots(r) THEN "Preconfirmed"
  ELSE "Committed"

PreconfRead(row, s, r) ==
  /\ row.preconf # None <=> s \in AttestedSlots(r)
  /\ row.preconf # None =>
       \E p \in Of(r, {"SlotAttested"}) : r[p].slot = s /\ row.preconf = Preconf(r[p])

ProofRead(row, s, r) ==
  /\ row.proof # None <=> s \in ProvenIn(r)
  /\ row.proof # None =>
       \E p \in Of(r, {"SlotsProven"}) :
         s \in Covers(r, p) /\ row.proof = ProvenRange(r[p])

ReasonRead(row, s, r) ==
  /\ row.reason # None <=> s \in RefusedIn(r) \cup UnprovenIn(r)
  /\ row.reason # None =>
       \/ \E p \in Of(r, {"AttestFailed"}) : r[p].slot = s /\ row.reason = r[p].reason
       \/ \E p \in Of(r, {"ProveFailed"}) :
            s \in Covers(r, p) /\ row.reason = r[p].reason

SlotRead(row, s, r) ==
  /\ CommitRead(row, s, r)
  /\ row.stage = StageOf(r, s)
  /\ PreconfRead(row, s, r)
  /\ ProofRead(row, s, r)
  /\ ReasonRead(row, s, r)

\* The model after log r.
Reads(m, r, D) ==
  /\ m.cursor = Len(r)
  /\ m.intents \in [IdsIn(r) -> IntentRows(D)]
  /\ m.slots \in [CommittedSlots(r) -> SlotRows(D)]
  /\ \A id \in IdsIn(r) : IntentRead(m.intents[id], id, r)
  /\ \A s \in CommittedSlots(r) : SlotRead(m.slots[s], s, r)

\* What a row is read from stays where it is.
Found(longer, r, kind) ==
  \A p \in Of(r, {kind}) : p \in Of(longer, {kind}) /\ longer[p] = r[p]

LEMMA FoundAgain ==
  ASSUME NEW longer, NEW r, NEW e, NEW n, Extends(longer, r, e, n), NEW kind
  PROVE  Found(longer, r, kind)
<1>1. /\ \A p \in Of(r, {kind}) : longer[p] = r[p]
      /\ Of(longer, {kind}) = IF e.kind = kind THEN Of(r, {kind}) \cup {n} ELSE Of(r, {kind})
  BY DEF Extends
<1>2. QED
  BY <1>1 DEF Found

LEMMA FoundNew ==
  ASSUME NEW longer, NEW r, NEW e, NEW n, Extends(longer, r, e, n)
  PROVE  n \in Of(longer, {e.kind}) /\ longer[n] = e
BY DEF Extends

\* The row of an intent the model knows.
LEMMA AdmissionStays ==
  ASSUME NEW longer, NEW r, NEW e, NEW n, Extends(longer, r, e, n),
         NEW row, NEW row2, NEW id, AdmissionRead(row, id, r),
         row2.position = row.position, row2.received_at_ms = row.received_at_ms,
         row2.deadline_ms = row.deadline_ms
  PROVE  AdmissionRead(row2, id, longer)
<1>1. Found(longer, r, "IntentReceived")
  BY FoundAgain
<1>2. QED
  BY <1>1 DEF AdmissionRead, Found

LEMMA MissStays ==
  ASSUME NEW longer, NEW r, NEW e, NEW n, Extends(longer, r, e, n),
         NEW row, NEW row2, NEW id, MissRead(row, id, r),
         row2.expired = row.expired, id \notin NewDropped(e)
  PROVE  MissRead(row2, id, longer)
<1>1. Found(longer, r, "IntentExpired")
  BY FoundAgain
<1>2. DroppedIn(longer) = DroppedIn(r) \cup NewDropped(e)
  BY SetsGrow
<1>3. QED
  BY <1>1, <1>2 DEF MissRead, Found

LEMMA PlaceStays ==
  ASSUME NEW longer, NEW r, NEW e, NEW n, Extends(longer, r, e, n),
         NEW row, NEW row2, NEW id, PlaceRead(row, id, r),
         row2.slot = row.slot, row2.index = row.index, id \notin NewPlaced(e)
  PROVE  PlaceRead(row2, id, longer)
<1>1. Found(longer, r, "SlotCommitted")
  BY FoundAgain
<1>2. PlacedIn(longer) = PlacedIn(r) \cup NewPlaced(e)
  BY SetsGrow
<1>3. QED
  BY <1>1, <1>2 DEF PlaceRead, Found, Commits

LEMMA IntentRowChanges ==
  ASSUME NEW D, NoneApart(D), NEW longer, NEW r, NEW e, NEW n,
         Extends(longer, r, e, n), Fits(r, e), Carries(e, D),
         NEW id \in IdsIn(r), NEW row \in IntentRows(D), IntentRead(row, id, r)
  PROVE  /\ ChangedIntent(row, id, e) \in IntentRows(D)
         /\ IntentRead(ChangedIntent(row, id, e), id, longer)
<1> DEFINE row2 == ChangedIntent(row, id, e)
<1>0. AdmissionRead(row, id, r) /\ MissRead(row, id, r) /\ PlaceRead(row, id, r)
  BY DEF IntentRead
<1>1. CASE e.kind = "IntentExpired" /\ e.id = id
  <2>1. row2 = [row EXCEPT !.expired = <<e.guarantee_deadline_ms, e.at_ms>>]
    BY <1>1 DEF ChangedIntent
  <2>2. <<e.guarantee_deadline_ms, e.at_ms>> \in D \X D
    BY <1>1 DEF Carries
  <2>3. /\ row2 \in IntentRows(D)
        /\ row2.expired = <<e.guarantee_deadline_ms, e.at_ms>>
        /\ row2.position = row.position /\ row2.received_at_ms = row.received_at_ms
        /\ row2.deadline_ms = row.deadline_ms
        /\ row2.slot = row.slot /\ row2.index = row.index
    BY <2>1, <2>2 DEF IntentRows
  <2> HIDE DEF row2
  <2>4. AdmissionRead(row2, id, longer)
    BY <1>0, <2>3, AdmissionStays
  <2>5. id \notin NewPlaced(e) /\ id \in NewDropped(e)
    BY <1>1 DEF NewPlaced, NewDropped
  <2>6. PlaceRead(row2, id, longer)
    BY <1>0, <2>3, <2>5, PlaceStays
  <2>7. row2.expired # None
    BY <2>2, <2>3 DEF NoneApart
  <2>8. n \in Of(longer, {"IntentExpired"}) /\ longer[n] = e
    BY <1>1, FoundNew
  <2>9. id \in DroppedIn(longer)
    BY <2>5, SetsGrow
  <2>10. MissRead(row2, id, longer)
    BY <1>1, <2>3, <2>7, <2>8, <2>9 DEF MissRead
  <2>11. QED
    BY <2>3, <2>4, <2>6, <2>10 DEF IntentRead, row2
<1>2. CASE e.kind = "SlotCommitted" /\ Contains(e.intents, id)
  <2> DEFINE k == CHOOSE i \in DOMAIN e.intents : e.intents[i] = id
  <2>1. row2 = [row EXCEPT !.slot = e.slot, !.index = k - 1]
    BY <1>2 DEF ChangedIntent
  <2>2. /\ DOMAIN e.intents = 1..Len(e.intents) /\ Len(e.intents) \in Nat
    BY <1>2 DEF Fits
  <2>3. \E i \in DOMAIN e.intents : e.intents[i] = id
    BY <1>2, <2>2 DEF Contains
  <2>4. k \in DOMAIN e.intents /\ e.intents[k] = id
    BY <2>3
  <2> HIDE DEF k
  <2>5. k - 1 \in Nat /\ e.slot \in Nat
    BY <1>2, <2>2, <2>4 DEF Carries
  <2>6. /\ row2 \in IntentRows(D)
        /\ row2.expired = row.expired
        /\ row2.position = row.position /\ row2.received_at_ms = row.received_at_ms
        /\ row2.deadline_ms = row.deadline_ms
        /\ row2.slot = e.slot /\ row2.index = k - 1
    BY <2>1, <2>5 DEF IntentRows
  <2> HIDE DEF row2
  <2>7. AdmissionRead(row2, id, longer)
    BY <1>0, <2>6, AdmissionStays
  <2>8. id \in NewPlaced(e) /\ id \notin NewDropped(e)
    BY <1>2, <2>4 DEF NewPlaced, NewDropped, ToSet
  <2>9. MissRead(row2, id, longer)
    BY <1>0, <2>6, <2>8, MissStays
  <2>10. row2.slot # None
    BY <2>5, <2>6 DEF NoneApart
  <2>11. n \in Commits(longer) /\ longer[n] = e
    BY <1>2, FoundNew DEF Commits
  <2>12. id \in PlacedIn(longer)
    BY <2>8, SetsGrow
  <2>13. PlaceRead(row2, id, longer)
    BY <2>4, <2>6, <2>10, <2>11, <2>12 DEF PlaceRead
  <2>14. QED
    BY <2>6, <2>7, <2>9, <2>13 DEF IntentRead, row2
<1>3. CASE /\ ~ (e.kind = "IntentExpired" /\ e.id = id)
           /\ ~ (e.kind = "SlotCommitted" /\ Contains(e.intents, id))
  <2>1. row2 = row
    BY <1>3 DEF ChangedIntent
  <2> HIDE DEF row2
  <2>2. id \notin NewDropped(e)
    BY <1>3 DEF NewDropped
  <2>3. id \notin NewPlaced(e)
    <3>1. CASE e.kind = "SlotCommitted"
      <4>1. DOMAIN e.intents = 1..Len(e.intents)
        BY <3>1 DEF Fits
      <4>2. QED
        BY <1>3, <3>1, <4>1 DEF NewPlaced, ToSet, Contains
    <3>2. CASE e.kind # "SlotCommitted"
      BY <3>2 DEF NewPlaced
    <3>3. QED
      BY <3>1, <3>2
  <2>4. AdmissionRead(row2, id, longer)
    BY <1>0, <2>1, AdmissionStays
  <2>5. MissRead(row2, id, longer)
    BY <1>0, <2>1, <2>2, MissStays
  <2>6. PlaceRead(row2, id, longer)
    BY <1>0, <2>1, <2>3, PlaceStays
  <2>7. QED
    BY <2>1, <2>4, <2>5, <2>6 DEF IntentRead, row2
<1>4. QED
  BY <1>1, <1>2, <1>3

\* The row of an intent that comes in.
LEMMA IntentRowComes ==
  ASSUME NEW D, NEW longer, NEW r, NEW e, NEW n \in Nat \ {0},
         Extends(longer, r, e, n), Coherent(r), Fits(r, e), Carries(e, D),
         e.kind = "IntentReceived"
  PROVE  /\ IntentRow(n - 1, e) \in IntentRows(D)
         /\ IntentRead(IntentRow(n - 1, e), e.intent.id, longer)
<1> DEFINE row == IntentRow(n - 1, e)
           id == e.intent.id
<1>1. n - 1 \in Nat /\ e.received_at \in D /\ e.intent.deadline_ms \in D
  BY DEF Carries
<1>2. row \in IntentRows(D)
  BY <1>1 DEF IntentRow, IntentRows
<1>3. /\ row.position = n - 1 /\ row.received_at_ms = e.received_at
      /\ row.deadline_ms = e.intent.deadline_ms
      /\ row.slot = None /\ row.expired = None
  BY DEF IntentRow
<1>4. n \in Of(longer, {"IntentReceived"}) /\ longer[n] = e
  BY FoundNew
<1>5. AdmissionRead(row, id, longer)
  BY <1>3, <1>4 DEF AdmissionRead
<1>6. id \notin IdsIn(r)
  BY DEF Fits
<1>7. id \notin DroppedIn(r) /\ id \notin PlacedIn(r)
  BY <1>6 DEF Coherent
<1>8. NewDropped(e) = {} /\ NewPlaced(e) = {}
  BY DEF NewDropped, NewPlaced
<1>9. id \notin DroppedIn(longer) /\ id \notin PlacedIn(longer)
  BY <1>7, <1>8, SetsGrow
<1>10. MissRead(row, id, longer)
  BY <1>3, <1>9 DEF MissRead
<1>11. PlaceRead(row, id, longer)
  BY <1>3, <1>9 DEF PlaceRead
<1>12. QED
  BY <1>2, <1>5, <1>10, <1>11 DEF IntentRead

\* The row of a slot the model knows.
LEMMA CommitStays ==
  ASSUME NEW longer, NEW r, NEW e, NEW n, Extends(longer, r, e, n),
         NEW row, NEW row2, NEW s, CommitRead(row, s, r),
         row2.commitment = row.commitment,
         row2.committed_at_ms = row.committed_at_ms
  PROVE  CommitRead(row2, s, longer)
<1>1. Found(longer, r, "SlotCommitted")
  BY FoundAgain
<1>2. QED
  BY <1>1 DEF CommitRead, Found, Commits

LEMMA PreconfStays ==
  ASSUME NEW longer, NEW r, NEW e, NEW n, Extends(longer, r, e, n),
         NEW row, NEW row2, NEW s, PreconfRead(row, s, r),
         row2.preconf = row.preconf, s \notin NewAttested(e)
  PROVE  PreconfRead(row2, s, longer)
<1>1. Found(longer, r, "SlotAttested")
  BY FoundAgain
<1>2. AttestedSlots(longer) = AttestedSlots(r) \cup NewAttested(e)
  BY SetsGrow
<1>3. QED
  BY <1>1, <1>2 DEF PreconfRead, Found

LEMMA ProofStays ==
  ASSUME NEW longer, NEW r, NEW e, NEW n, Extends(longer, r, e, n),
         NEW row, NEW row2, NEW s, ProofRead(row, s, r),
         row2.proof = row.proof, s \notin NewProven(e)
  PROVE  ProofRead(row2, s, longer)
<1>1. Found(longer, r, "SlotsProven")
  BY FoundAgain
<1>2. ProvenIn(longer) = ProvenIn(r) \cup NewProven(e)
  BY SetsGrow
<1>3. QED
  BY <1>1, <1>2 DEF ProofRead, Found, Covers

LEMMA ReasonStays ==
  ASSUME NEW longer, NEW r, NEW e, NEW n, Extends(longer, r, e, n),
         NEW row, NEW row2, NEW s, ReasonRead(row, s, r),
         row2.reason = row.reason, s \notin NewRefused(e), s \notin NewUnproven(e)
  PROVE  ReasonRead(row2, s, longer)
<1>1. Found(longer, r, "AttestFailed") /\ Found(longer, r, "ProveFailed")
  BY FoundAgain
<1>2. /\ RefusedIn(longer) = RefusedIn(r) \cup NewRefused(e)
      /\ UnprovenIn(longer) = UnprovenIn(r) \cup NewUnproven(e)
  BY SetsGrow
<1>3. QED
  BY <1>1, <1>2 DEF ReasonRead, Found, Covers

\* Which stages exclude each other.
LEMMA StagesApart ==
  ASSUME NEW r, Coherent(r)
  PROVE  /\ AttestedSlots(r) \cap RefusedIn(r) = {}
         /\ ProvenIn(r) \cap UnprovenIn(r) = {}
         /\ ProvenIn(r) \cup UnprovenIn(r) \subseteq AttestedSlots(r)
<1>1. AttestedSlots(r) \cap RefusedIn(r) = {}
  <2>1. \A p, q \in Rulings(r) : r[p].slot = r[q].slot => p = q
    BY DEF Coherent
  <2>2. \A p \in Of(r, {"SlotAttested"}) : p \in Rulings(r) /\ r[p].kind = "SlotAttested"
    BY DEF Of, Rulings
  <2>3. \A p \in Of(r, {"AttestFailed"}) : p \in Rulings(r) /\ r[p].kind = "AttestFailed"
    BY DEF Of, Rulings
  <2>4. QED
    BY <2>1, <2>2, <2>3 DEF AttestedSlots, RefusedIn
<1>2. ProvenIn(r) \cap UnprovenIn(r) = {}
  <2>1. \A p, q \in Verdicts(r) : Covers(r, p) \cap Covers(r, q) # {} => p = q
    BY DEF Coherent
  <2>2. \A p \in Of(r, {"SlotsProven"}) : p \in Verdicts(r) /\ r[p].kind = "SlotsProven"
    BY DEF Of, Verdicts
  <2>3. \A p \in Of(r, {"ProveFailed"}) : p \in Verdicts(r) /\ r[p].kind = "ProveFailed"
    BY DEF Of, Verdicts
  <2>4. QED
    BY <2>1, <2>2, <2>3 DEF ProvenIn, UnprovenIn
<1>3. ProvenIn(r) \cup UnprovenIn(r) \subseteq AttestedSlots(r)
  BY BothKinds DEF Coherent
<1>4. QED
  BY <1>1, <1>2, <1>3

LEMMA SlotRowChanges ==
  ASSUME NEW D, NoneApart(D), NEW longer, NEW r, NEW e, NEW n,
         Extends(longer, r, e, n), Coherent(r), Fits(r, e), Carries(e, D),
         NEW s \in CommittedSlots(r), NEW row \in SlotRows(D), SlotRead(row, s, r)
  PROVE  /\ ChangedSlot(row, s, e) \in SlotRows(D)
         /\ SlotRead(ChangedSlot(row, s, e), s, longer)
<1> DEFINE row2 == ChangedSlot(row, s, e)
<1>1. /\ CommitRead(row, s, r) /\ PreconfRead(row, s, r) /\ ProofRead(row, s, r)
      /\ ReasonRead(row, s, r) /\ row.stage = StageOf(r, s)
  BY DEF SlotRead
<1>2. /\ AttestedSlots(longer) = AttestedSlots(r) \cup NewAttested(e)
      /\ RefusedIn(longer) = RefusedIn(r) \cup NewRefused(e)
      /\ ProvenIn(longer) = ProvenIn(r) \cup NewProven(e)
      /\ UnprovenIn(longer) = UnprovenIn(r) \cup NewUnproven(e)
  BY SetsGrow
<1>3. /\ AttestedSlots(r) \cap RefusedIn(r) = {}
      /\ ProvenIn(r) \cap UnprovenIn(r) = {}
      /\ ProvenIn(r) \cup UnprovenIn(r) \subseteq AttestedSlots(r)
  BY StagesApart
<1>4. CASE e.kind = "SlotAttested" /\ e.slot = s
  <2>1. /\ NewAttested(e) = {s} /\ NewRefused(e) = {}
        /\ NewProven(e) = {} /\ NewUnproven(e) = {}
    BY <1>4 DEF NewAttested, NewRefused, NewProven, NewUnproven
  <2>2. s \notin AttestedSlots(r) /\ s \notin RefusedIn(r)
    BY <1>4, BothKinds DEF Fits
  <2>3. row.stage = "Committed"
    BY <1>1, <1>3, <2>2 DEF StageOf
  <2>4. row2 = [row EXCEPT !.stage = "Preconfirmed", !.preconf = Preconf(e)]
    <3>1. e.kind # "SlotsProven" /\ ~ Fails(e, s)
      BY <1>4 DEF Fails
    <3>2. QED
      BY <1>4, <2>3, <3>1 DEF ChangedSlot
  <2>5. Preconf(e) \in Preconfs(D)
    BY <1>4 DEF Carries
  <2>6. /\ row2 \in SlotRows(D)
        /\ row2.stage = "Preconfirmed" /\ row2.preconf = Preconf(e)
        /\ row2.proof = row.proof /\ row2.reason = row.reason
        /\ row2.commitment = row.commitment
        /\ row2.committed_at_ms = row.committed_at_ms
    BY <2>4, <2>5 DEF SlotRows
  <2> HIDE DEF row2
  <2>7. CommitRead(row2, s, longer)
    BY <1>1, <2>6, CommitStays
  <2>8. ProofRead(row2, s, longer)
    BY <1>1, <2>1, <2>6, ProofStays
  <2>9. n \in Of(longer, {"SlotAttested"}) /\ longer[n] = e
    BY <1>4, FoundNew
  <2>10. row2.preconf # None
    BY <2>5, <2>6 DEF NoneApart
  <2>11. PreconfRead(row2, s, longer)
    BY <1>2, <1>4, <2>1, <2>6, <2>9, <2>10 DEF PreconfRead
  <2>12. row2.stage = StageOf(longer, s)
    BY <1>2, <1>3, <2>1, <2>2, <2>6 DEF StageOf
  <2>13. ReasonRead(row2, s, longer)
    BY <1>1, <2>1, <2>6, ReasonStays
  <2>14. QED
    BY <2>6, <2>7, <2>8, <2>11, <2>12, <2>13 DEF SlotRead, row2
<1>5. CASE e.kind = "SlotsProven" /\ s \in e.from_slot .. e.to_slot
  <2>1. /\ NewAttested(e) = {} /\ NewRefused(e) = {}
        /\ s \in NewProven(e) /\ NewUnproven(e) = {}
    BY <1>5 DEF NewAttested, NewRefused, NewProven, NewUnproven
  <2>2. s \in AttestedSlots(r) /\ s \notin ProvenIn(r) /\ s \notin UnprovenIn(r)
    BY <1>5, BothKinds DEF Fits
  <2>3. row.stage = "Preconfirmed"
    BY <1>1, <1>3, <2>2 DEF StageOf
  <2>4. row2 = [row EXCEPT !.stage = "Proven", !.proof = ProvenRange(e)]
    <3>1. e.kind # "SlotAttested" /\ ~ Fails(e, s)
      BY <1>5 DEF Fails
    <3>2. QED
      BY <1>5, <2>3, <3>1 DEF ChangedSlot, Proven
  <2>5. ProvenRange(e) \in ProvenRanges(D)
    BY <1>5 DEF Carries
  <2>6. /\ row2 \in SlotRows(D)
        /\ row2.stage = "Proven" /\ row2.proof = ProvenRange(e)
        /\ row2.preconf = row.preconf /\ row2.reason = row.reason
        /\ row2.commitment = row.commitment
        /\ row2.committed_at_ms = row.committed_at_ms
    BY <2>4, <2>5 DEF SlotRows
  <2> HIDE DEF row2
  <2>7. CommitRead(row2, s, longer)
    BY <1>1, <2>6, CommitStays
  <2>8. PreconfRead(row2, s, longer)
    BY <1>1, <2>1, <2>6, PreconfStays
  <2>9. n \in Of(longer, {"SlotsProven"}) /\ longer[n] = e
    BY <1>5, FoundNew
  <2>10. row2.proof # None
    BY <2>5, <2>6 DEF NoneApart
  <2>11. ProofRead(row2, s, longer)
    BY <1>2, <1>5, <2>1, <2>6, <2>9, <2>10 DEF ProofRead, Covers
  <2>12. row2.stage = StageOf(longer, s)
    BY <1>2, <1>3, <2>1, <2>2, <2>6 DEF StageOf
  <2>13. ReasonRead(row2, s, longer)
    BY <1>1, <2>1, <2>6, ReasonStays
  <2>14. QED
    BY <2>6, <2>7, <2>8, <2>11, <2>12, <2>13 DEF SlotRead, row2
<1>6. CASE Fails(e, s)
  <2>1. /\ NewAttested(e) = {} /\ NewProven(e) = {}
        /\ s \in NewRefused(e) \cup NewUnproven(e)
    BY <1>6 DEF Fails, NewAttested, NewRefused, NewProven, NewUnproven
  <2>2. row2 = [row EXCEPT !.stage = "Failed", !.reason = e.reason]
    BY <1>6 DEF ChangedSlot, Fails
  <2>3. e.reason \in D
    BY <1>6 DEF Fails, Carries
  <2>4. /\ row2 \in SlotRows(D)
        /\ row2.stage = "Failed" /\ row2.reason = e.reason
        /\ row2.proof = row.proof
        /\ row2.preconf = row.preconf /\ row2.commitment = row.commitment
        /\ row2.committed_at_ms = row.committed_at_ms
    BY <2>2, <2>3 DEF SlotRows
  <2> HIDE DEF row2
  <2>5. CommitRead(row2, s, longer)
    BY <1>1, <2>4, CommitStays
  <2>6. PreconfRead(row2, s, longer)
    BY <1>1, <2>1, <2>4, PreconfStays
  <2>7. ProofRead(row2, s, longer)
    BY <1>1, <2>1, <2>4, ProofStays
  <2>8. row2.stage = StageOf(longer, s)
    BY <1>2, <2>1, <2>4 DEF StageOf
  <2>9. row2.reason # None /\ s \in RefusedIn(longer) \cup UnprovenIn(longer)
    BY <1>2, <2>1, <2>3, <2>4 DEF NoneApart
  <2>10. n \in Of(longer, {e.kind}) /\ longer[n] = e
    BY FoundNew
  <2>11. ReasonRead(row2, s, longer)
    BY <1>6, <2>4, <2>9, <2>10 DEF ReasonRead, Fails, Covers
  <2>12. QED
    BY <2>4, <2>5, <2>6, <2>7, <2>8, <2>11 DEF SlotRead, row2
<1>7. CASE /\ ~ (e.kind = "SlotAttested" /\ e.slot = s)
           /\ ~ (e.kind = "SlotsProven" /\ s \in e.from_slot .. e.to_slot)
           /\ ~ Fails(e, s)
  <2>1. row2 = row
    BY <1>7 DEF ChangedSlot
  <2> HIDE DEF row2
  <2>2. s \notin NewAttested(e) /\ s \notin NewProven(e)
    BY <1>7 DEF NewAttested, NewProven
  <2>3. s \notin NewRefused(e) /\ s \notin NewUnproven(e)
    BY <1>7 DEF Fails, NewRefused, NewUnproven
  <2>4. CommitRead(row2, s, longer)
    BY <1>1, <2>1, CommitStays
  <2>5. PreconfRead(row2, s, longer)
    BY <1>1, <2>1, <2>2, PreconfStays
  <2>6. ProofRead(row2, s, longer)
    BY <1>1, <2>1, <2>2, ProofStays
  <2>7. row2.stage = StageOf(longer, s)
    BY <1>1, <1>2, <2>1, <2>2, <2>3 DEF StageOf
  <2>8. ReasonRead(row2, s, longer)
    BY <1>1, <2>1, <2>3, ReasonStays
  <2>9. QED
    BY <2>1, <2>4, <2>5, <2>6, <2>7, <2>8 DEF SlotRead, row2
<1>8. QED
  BY <1>4, <1>5, <1>6, <1>7

\* The row of a slot that is committed.
LEMMA SlotRowComes ==
  ASSUME NEW D, NEW longer, NEW r, NEW e, NEW n,
         Extends(longer, r, e, n), Coherent(r), Fits(r, e), Carries(e, D),
         e.kind = "SlotCommitted"
  PROVE  SlotRow(e) \in SlotRows(D) /\ SlotRead(SlotRow(e), e.slot, longer)
<1> DEFINE row == SlotRow(e)
<1>1. row \in SlotRows(D)
  BY DEF SlotRow, SlotRows, Carries
<1>2. /\ row.commitment = e.commitment /\ row.committed_at_ms = e.committed_at_ms
      /\ row.stage = "Committed" /\ row.reason = None
      /\ row.preconf = None /\ row.proof = None
  BY DEF SlotRow
<1>3. n \in Commits(longer) /\ longer[n] = e
  BY FoundNew DEF Commits
<1>4. CommitRead(row, e.slot, longer)
  BY <1>2, <1>3 DEF CommitRead
<1>5. e.slot \notin CommittedSlots(r)
  BY DEF Fits
<1>6. /\ e.slot \notin AttestedSlots(r) /\ e.slot \notin RefusedIn(r)
      /\ e.slot \notin ProvenIn(r) /\ e.slot \notin UnprovenIn(r)
  BY <1>5, BothKinds, StagesApart DEF Coherent
<1>7. /\ NewAttested(e) = {} /\ NewRefused(e) = {}
      /\ NewProven(e) = {} /\ NewUnproven(e) = {}
  BY DEF NewAttested, NewRefused, NewProven, NewUnproven
<1>8. /\ e.slot \notin AttestedSlots(longer) /\ e.slot \notin RefusedIn(longer)
      /\ e.slot \notin ProvenIn(longer) /\ e.slot \notin UnprovenIn(longer)
  BY <1>6, <1>7, SetsGrow
<1>9. row.stage = StageOf(longer, e.slot)
  BY <1>2, <1>8 DEF StageOf
<1>10. /\ PreconfRead(row, e.slot, longer) /\ ProofRead(row, e.slot, longer)
       /\ ReasonRead(row, e.slot, longer)
  BY <1>2, <1>8 DEF PreconfRead, ProofRead, ReasonRead
<1>11. QED
  BY <1>1, <1>4, <1>9, <1>10 DEF SlotRead

\* One entry more, read.
LEMMA ReadsOn ==
  ASSUME NEW D, NoneApart(D), NEW S, NEW r \in Seq(S), NEW e,
         Coherent(r), Fits(r, e), Carries(e, D), NEW m, Reads(m, r, D)
  PROVE  Reads(apply(m, Len(r), e), Append(r, e), D)
<1> DEFINE longer == Append(r, e)
           n == Len(r) + 1
           m2 == apply(m, Len(r), e)
<1>1. Extends(longer, r, e, n)
  BY AppendExtends
<1>2. n \in Nat \ {0} /\ n - 1 = Len(r) /\ Len(longer) = n
  <2>1. Len(r) \in Nat
    OBVIOUS
  <2>2. r \in Seq(S \cup {e})
    BY SeqMonotonic
  <2>3. Len(longer) = Len(r) + 1
    BY <2>2
  <2>4. QED
    BY <2>1, <2>3
<1>3. /\ DOMAIN m.intents = IdsIn(r) /\ m.intents \in [IdsIn(r) -> IntentRows(D)]
      /\ DOMAIN m.slots = CommittedSlots(r) /\ m.slots \in [CommittedSlots(r) -> SlotRows(D)]
      /\ \A id \in IdsIn(r) : IntentRead(m.intents[id], id, r)
      /\ \A s \in CommittedSlots(r) : SlotRead(m.slots[s], s, r)
  BY DEF Reads
<1>4. /\ IdsIn(longer) = IdsIn(r) \cup NewIntents(e)
      /\ CommittedSlots(longer) = CommittedSlots(r) \cup NewSlots(e)
  BY <1>1, SetsGrow
<1>5. /\ m2.cursor = n
      /\ m2.intents = [id \in IdsIn(longer) |->
                         IF id \in IdsIn(r) THEN ChangedIntent(m.intents[id], id, e)
                         ELSE IntentRow(Len(r), e)]
      /\ m2.slots = [s \in CommittedSlots(longer) |->
                       IF s \in NewSlots(e) THEN SlotRow(e)
                       ELSE ChangedSlot(m.slots[s], s, e)]
  BY <1>3, <1>4 DEF apply
<1> HIDE DEF m2, longer, n
<1>6. ASSUME NEW id \in IdsIn(longer)
      PROVE  m2.intents[id] \in IntentRows(D) /\ IntentRead(m2.intents[id], id, longer)
  <2>1. CASE id \in IdsIn(r)
    <3>1. m2.intents[id] = ChangedIntent(m.intents[id], id, e)
      BY <1>5, <1>6, <2>1
    <3>2. m.intents[id] \in IntentRows(D) /\ IntentRead(m.intents[id], id, r)
      BY <1>3, <2>1
    <3>3. QED
      BY <1>1, <2>1, <3>1, <3>2, IntentRowChanges
  <2>2. CASE id \notin IdsIn(r)
    <3>1. e.kind = "IntentReceived" /\ id = e.intent.id
      BY <1>4, <1>6, <2>2 DEF NewIntents
    <3>2. m2.intents[id] = IntentRow(n - 1, e)
      BY <1>2, <1>5, <1>6, <2>2
    <3>3. QED
      BY <1>1, <1>2, <3>1, <3>2, IntentRowComes
  <2>3. QED
    BY <2>1, <2>2
<1>7. ASSUME NEW s \in CommittedSlots(longer)
      PROVE  m2.slots[s] \in SlotRows(D) /\ SlotRead(m2.slots[s], s, longer)
  <2>1. CASE s \in NewSlots(e)
    <3>1. e.kind = "SlotCommitted" /\ s = e.slot
      BY <2>1 DEF NewSlots
    <3>2. m2.slots[s] = SlotRow(e)
      BY <1>5, <1>7, <2>1
    <3>3. QED
      BY <1>1, <3>1, <3>2, SlotRowComes
  <2>2. CASE s \notin NewSlots(e)
    <3>1. s \in CommittedSlots(r)
      BY <1>4, <1>7, <2>2
    <3>2. m2.slots[s] = ChangedSlot(m.slots[s], s, e)
      BY <1>5, <1>7, <2>2
    <3>3. m.slots[s] \in SlotRows(D) /\ SlotRead(m.slots[s], s, r)
      BY <1>3, <3>1
    <3>4. QED
      BY <1>1, <3>1, <3>2, <3>3, SlotRowChanges
  <2>3. QED
    BY <2>1, <2>2
<1>8. m2.intents \in [IdsIn(longer) -> IntentRows(D)]
  BY <1>5, <1>6
<1>9. m2.slots \in [CommittedSlots(longer) -> SlotRows(D)]
  BY <1>5, <1>7
<1>10. m2.cursor = Len(longer)
  BY <1>2, <1>5 DEF longer, n
<1>11. Reads(m2, longer, D)
  BY <1>6, <1>7, <1>8, <1>9, <1>10 DEF Reads
<1>12. QED
  BY <1>11 DEF m2, longer

\* Each entry fits those before it.
History(entries, D) ==
  \A n \in 0..Len(entries)-1 :
    /\ Fits(SubSeq(entries, 1, n), entries[n + 1])
    /\ Carries(entries[n + 1], D)

LEMMA Prefix ==
  ASSUME NEW S, NEW entries \in Seq(S), NEW n \in 0..Len(entries)
  PROVE  /\ SubSeq(entries, 1, n) \in Seq(S) /\ Len(SubSeq(entries, 1, n)) = n
         /\ n < Len(entries) =>
              SubSeq(entries, 1, n + 1) = Append(SubSeq(entries, 1, n), entries[n + 1])
<1>1. n \in Nat /\ Len(entries) \in Nat /\ n =< Len(entries)
  OBVIOUS
<1>2. SubSeq(entries, 1, n) \in Seq(S) /\ Len(SubSeq(entries, 1, n)) = n
  BY <1>1
<1>3. CASE n < Len(entries)
  BY <1>1, <1>3
<1>4. QED
  BY <1>2, <1>3

\* What was read of a log is what it was.
LEMMA PrefixStays ==
  ASSUME NEW S, NEW r \in Seq(S), NEW e \in S, NEW n \in 0..Len(r)
  PROVE  SubSeq(Append(r, e), 1, n) = SubSeq(r, 1, n)
OBVIOUS

\* A history goes on with an entry that fits.
LEMMA HistoryOn ==
  ASSUME NEW S, NEW entries \in Seq(S), NEW e \in S, NEW D,
         History(entries, D), Fits(entries, e), Carries(e, D)
  PROVE  History(Append(entries, e), D)
<1> DEFINE longer == Append(entries, e)
<1>1. /\ Len(entries) \in Nat /\ Len(longer) = Len(entries) + 1
      /\ longer[Len(entries) + 1] = e
      /\ \A n \in 1..Len(entries) : longer[n] = entries[n]
  OBVIOUS
<1>2. ASSUME NEW n \in 0..Len(longer)-1
      PROVE  Fits(SubSeq(longer, 1, n), longer[n + 1]) /\ Carries(longer[n + 1], D)
  <2>1. n \in 0..Len(entries)
    BY <1>1
  <2>2. SubSeq(longer, 1, n) = SubSeq(entries, 1, n)
    BY <2>1, PrefixStays
  <2>3. CASE n = Len(entries)
    <3>1. SubSeq(entries, 1, n) = entries
      BY <2>3
    <3>2. longer[n + 1] = e
      BY <1>1, <2>3
    <3> HIDE DEF longer
    <3>3. QED
      BY <2>2, <3>1, <3>2
  <2>4. CASE n # Len(entries)
    <3>1. n \in 0..Len(entries)-1 /\ n + 1 \in 1..Len(entries)
      BY <1>1, <2>1, <2>4
    <3>2. longer[n + 1] = entries[n + 1]
      BY <1>1, <3>1
    <3> HIDE DEF longer
    <3>3. QED
      BY <2>2, <3>1, <3>2 DEF History
  <2>5. QED
    BY <2>3, <2>4
<1> HIDE DEF longer
<1>3. History(longer, D)
  BY <1>2 DEF History
<1>4. QED
  BY <1>3 DEF longer

LEMMA NothingRead ==
  /\ Coherent(<<>>)
  /\ \A D : Reads(Empty, <<>>, D)
<1>1. \A kinds : Of(<<>>, kinds) = {}
  BY DEF Of
<1>2. Commits(<<>>) = {} /\ Rulings(<<>>) = {} /\ Verdicts(<<>>) = {}
  BY <1>1 DEF Commits, Rulings, Verdicts
<1>3. /\ IdsIn(<<>>) = {} /\ DroppedIn(<<>>) = {} /\ PlacedIn(<<>>) = {}
      /\ CommittedSlots(<<>>) = {} /\ RuledSlots(<<>>) = {} /\ JudgedSlots(<<>>) = {}
  BY <1>1, <1>2 DEF IdsIn, DroppedIn, PlacedIn, CommittedSlots, RuledSlots, JudgedSlots
<1>4. Coherent(<<>>)
  BY <1>1, <1>2, <1>3 DEF Coherent
<1>5. ASSUME NEW D
      PROVE  Reads(Empty, <<>>, D)
  <2>1. Empty.cursor = Len(<<>>) /\ Empty.intents = <<>> /\ Empty.slots = <<>>
    BY DEF Empty
  <2>2. \A T : <<>> \in [{} -> T]
    OBVIOUS
  <2>3. QED
    BY <1>3, <2>1, <2>2 DEF Reads
<1>6. QED
  BY <1>4, <1>5

LEMMA AllCoherent ==
  ASSUME NEW S, NEW entries \in Seq(S), NEW D, History(entries, D)
  PROVE  \A n \in 0..Len(entries) : Coherent(SubSeq(entries, 1, n))
<1> DEFINE Good == {n \in 0..Len(entries) : Coherent(SubSeq(entries, 1, n))}
<1>1. Len(entries) \in Nat
  OBVIOUS
<1>2. 0 \in Good
  <2>1. SubSeq(entries, 1, 0) = <<>> /\ 0 \in 0..Len(entries)
    BY <1>1
  <2>2. QED
    BY <2>1, NothingRead
<1>3. ASSUME NEW n \in 0..(Len(entries) - 1), n \in Good
      PROVE  n + 1 \in Good
  <2>1. n \in 0..Len(entries) /\ n + 1 \in 0..Len(entries) /\ n < Len(entries)
    BY <1>1
  <2> DEFINE r == SubSeq(entries, 1, n)
             e == entries[n + 1]
  <2>2. r \in Seq(S) /\ SubSeq(entries, 1, n + 1) = Append(r, e)
    BY <2>1, Prefix
  <2>3. Coherent(r) /\ Fits(r, e)
    BY <1>3 DEF History
  <2>4. Extends(Append(r, e), r, e, Len(r) + 1)
    <3> HIDE DEF r, e
    <3>1. QED
      BY <2>2, AppendExtends
  <2>5. Coherent(Append(r, e))
    <3> HIDE DEF r, e
    <3>1. QED
      BY <2>3, <2>4, CoherentStays
  <2>6. QED
    BY <2>1, <2>2, <2>5
<1>4. 0..Len(entries) \subseteq Good
  <2> HIDE DEF Good
  <2>1. QED
    BY <1>1, <1>2, <1>3, StepByStep
<1>5. QED
  BY <1>4

\* A batch folded in is a batch read.
LEMMA FoldReads ==
  ASSUME NEW D, NoneApart(D), NEW S, NEW entries \in Seq(S), History(entries, D),
         NEW lo \in 0..Len(entries), NEW hi \in lo..Len(entries),
         NEW m, Reads(m, SubSeq(entries, 1, lo), D)
  PROVE  Reads(Folded(m, entries, hi), SubSeq(entries, 1, hi), D)
<1>1. Len(entries) \in Nat /\ lo \in Nat /\ hi \in Nat /\ lo =< hi
  OBVIOUS
<1>2. m.cursor = lo
  BY Prefix DEF Reads
<1>3. PICK f : /\ f[lo] = m
               /\ \A n \in lo..(hi - 1) : f[n + 1] = apply(f[n], n, entries[n + 1])
               /\ Folded(m, entries, hi) = f[hi]
  BY <1>1, <1>2, FoldSteps
<1> DEFINE Good == {n \in Nat : Reads(f[n], SubSeq(entries, 1, n), D)}
<1>4. lo \in Good
  BY <1>1, <1>3
<1>5. ASSUME NEW n \in lo..(hi - 1), n \in Good
      PROVE  n + 1 \in Good
  <2>1. n \in 0..Len(entries) /\ n < Len(entries) /\ n \in 0..Len(entries)-1 /\ n + 1 \in Nat
    BY <1>1
  <2> DEFINE r == SubSeq(entries, 1, n)
             e == entries[n + 1]
  <2>2. r \in Seq(S) /\ Len(r) = n /\ SubSeq(entries, 1, n + 1) = Append(r, e)
    BY <2>1, Prefix
  <2>3. Fits(r, e) /\ Carries(e, D)
    BY <2>1 DEF History
  <2>4. Coherent(r)
    BY <2>1, AllCoherent
  <2>5. Reads(f[n], r, D) /\ f[n + 1] = apply(f[n], Len(r), e)
    BY <1>3, <1>5, <2>2
  <2>6. Reads(f[n + 1], Append(r, e), D)
    <3> HIDE DEF r, e
    <3>1. QED
      BY <2>2, <2>3, <2>4, <2>5, ReadsOn
  <2>7. QED
    BY <2>1, <2>2, <2>6
<1>6. lo..hi \subseteq Good
  <2> HIDE DEF Good
  <2>1. QED
    BY <1>1, <1>4, <1>5, StepByStep
<1>7. hi \in Good
  BY <1>1, <1>6
<1>8. QED
  BY <1>3, <1>7
=============================================================================
