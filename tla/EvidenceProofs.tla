--------------------------- MODULE EvidenceProofs ---------------------------
(***************************************************************************)
(* What the encodings bind, for inputs of every size: an id names one      *)
(* intent, a commitment one slot and its contents in one order, and        *)
(* evidence verifies for exactly what it was made from.  Then what that    *)
(* makes of the log of the whole process, whatever intents come, whatever   *)
(* the enclave and the backend are set up to fail, through any number of   *)
(* restarts: what a stage appends is what the stage before it wrote, worked *)
(* on (PipelineInv), and evidence cannot be put together from two slots.   *)
(*                                                                         *)
(* The only assumptions are WiringAssumption and that the hash has no      *)
(* collisions, which is how Keccak256 is defined.                          *)
(***************************************************************************)
EXTENDS Pipeline, SequenceTheorems, FiniteSetTheorems, TLAPS

\* Two texts that split at the same place are equal part by part.
LEMMA ConcatCancel ==
  ASSUME NEW S
  PROVE  \A s, t, u, v \in Seq(S) :
           /\ s \o t = u \o v
           /\ Len(s) = Len(u) \/ Len(t) = Len(v)
           => s = u /\ t = v
<1> SUFFICES ASSUME NEW s \in Seq(S), NEW t \in Seq(S),
                    NEW u \in Seq(S), NEW v \in Seq(S),
                    s \o t = u \o v,
                    Len(s) = Len(u) \/ Len(t) = Len(v)
             PROVE  s = u /\ t = v
  OBVIOUS
<1>1. Len(s) \in Nat /\ Len(t) \in Nat /\ Len(u) \in Nat /\ Len(v) \in Nat
  BY LenProperties
<1>2. /\ Len(s \o t) = Len(s) + Len(t)
      /\ Len(u \o v) = Len(u) + Len(v)
      /\ \A k \in 1..Len(s) : (s \o t)[k] = s[k]
      /\ \A k \in 1..Len(u) : (u \o v)[k] = u[k]
      /\ \A k \in (Len(s) + 1)..(Len(s) + Len(t)) : (s \o t)[k] = t[k - Len(s)]
      /\ \A k \in (Len(u) + 1)..(Len(u) + Len(v)) : (u \o v)[k] = v[k - Len(u)]
  BY ConcatProperties
<1>3. Len(s) = Len(u) /\ Len(t) = Len(v)
  BY <1>1, <1>2
<1>4. s = u
  <2>1. \A k \in 1..Len(s) : s[k] = u[k]
    BY <1>2, <1>3
  <2> QED
    BY <2>1, <1>3, SeqEqual
<1>5. t = v
  <2>1. ASSUME NEW k \in 1..Len(t)
        PROVE  t[k] = v[k]
    <3>1. /\ k + Len(s) \in (Len(s) + 1)..(Len(s) + Len(t))
          /\ k + Len(s) \in (Len(u) + 1)..(Len(u) + Len(v))
          /\ (k + Len(s)) - Len(s) = k
      BY <1>1, <1>3
    <3> QED
      BY <3>1, <1>2, <1>3
  <2> QED
    BY <2>1, <1>3, SeqEqual
<1> QED
  BY <1>4, <1>5

-----------------------------------------------------------------------------
(* Intents.                                                                *)

\* The parts encode is put together from, and what it has laid out so far.
Header(i) == <<"INTENT-V1", i.submitter, i.nonce, Len(i.base)>>
Footer(i) ==
  <<i.side, i.size, i.max_slippage_bps, i.priority_fee, i.timestamp_ms,
    i.deadline_ms>>

UpToBase(i)   == Header(i) \o i.base
UpToLength(i) == UpToBase(i) \o <<Len(i.quote)>>
UpToQuote(i)  == UpToLength(i) \o i.quote

Tokens == Nat \cup {"INTENT-V1"}

\* Concatenation of texts, as the proofs below use it.
LEMMA TokenConcat ==
  ASSUME NEW s \in Seq(Tokens), NEW t \in Seq(Tokens)
  PROVE  /\ s \o t \in Seq(Tokens)
         /\ Len(s) \in Nat /\ Len(t) \in Nat
         /\ Len(s \o t) = Len(s) + Len(t)
         /\ \A k \in 1..Len(s) : (s \o t)[k] = s[k]
<1>1. Len(s) \in Nat /\ Len(t) \in Nat
  BY LenProperties
<1>2. /\ s \o t \in Seq(Tokens)
      /\ Len(s \o t) = Len(s) + Len(t)
      /\ \A k \in 1..Len(s) + Len(t) :
           (s \o t)[k] = IF k <= Len(s) THEN s[k] ELSE t[k - Len(s)]
  BY ConcatProperties
<1> QED
  BY <1>1, <1>2

\* The two ways of putting a text together are one.
SplitAlike(s, t, u, v) ==
  /\ s \o t = u \o v
  /\ Len(s) = Len(u) \/ Len(t) = Len(v)
  => s = u /\ t = v

\* Texts of tokens with the same concatenation, one part as long in both, are the
\* same texts.
LEMMA TokenCancel ==
  \A s, t, u, v \in Seq(Tokens) : SplitAlike(s, t, u, v)
BY ConcatCancel DEF SplitAlike

\* The parts are texts, and the lengths of the prefixes are known.
LEMMA EncodeParts ==
  ASSUME NEW i \in Body
  PROVE  /\ i.base \in Seq(Tokens) /\ i.quote \in Seq(Tokens)
         /\ Len(i.base) \in Nat
         /\ Header(i) \in Seq(Tokens) /\ Len(Header(i)) = 4
         /\ Footer(i) \in Seq(Tokens) /\ Len(Footer(i)) = 6
         /\ <<Len(i.quote)>> \in Seq(Tokens) /\ Len(<<Len(i.quote)>>) = 1
         /\ UpToBase(i) \in Seq(Tokens) /\ Len(UpToBase(i)) = 4 + Len(i.base)
         /\ UpToLength(i) \in Seq(Tokens) /\ Len(UpToLength(i)) = 5 + Len(i.base)
         /\ UpToQuote(i) \in Seq(Tokens)
<1>1. i.base \in Seq(Nat) /\ i.quote \in Seq(Nat)
  BY DEF Body, Char
<1>2. i.base \in Seq(Tokens) /\ i.quote \in Seq(Tokens)
  <2>1. Nat \subseteq Tokens
    BY DEF Tokens
  <2> QED
    BY <1>1, <2>1, SeqMonotonic
<1>3. Len(i.base) \in Nat /\ Len(i.quote) \in Nat
  BY <1>1, LenProperties
<1>4. Header(i) \in Seq(Tokens) /\ Len(Header(i)) = 4
  BY <1>3 DEF Header, Tokens, Body
<1>5. Footer(i) \in Seq(Tokens) /\ Len(Footer(i)) = 6
  BY DEF Footer, Tokens, Body, Side
<1>6. <<Len(i.quote)>> \in Seq(Tokens) /\ Len(<<Len(i.quote)>>) = 1
  BY <1>3 DEF Tokens
<1>7. UpToBase(i) \in Seq(Tokens) /\ Len(UpToBase(i)) = 4 + Len(i.base)
  <2>1. /\ UpToBase(i) \in Seq(Tokens)
        /\ Len(UpToBase(i)) = Len(Header(i)) + Len(i.base)
    BY <1>2, <1>4, TokenConcat DEF UpToBase
  <2> QED
    BY <2>1, <1>3, <1>4
<1>8. UpToLength(i) \in Seq(Tokens) /\ Len(UpToLength(i)) = 5 + Len(i.base)
  <2>1. /\ UpToLength(i) \in Seq(Tokens)
        /\ Len(UpToLength(i)) = Len(UpToBase(i)) + Len(<<Len(i.quote)>>)
    BY <1>6, <1>7, TokenConcat DEF UpToLength
  <2> QED
    BY <2>1, <1>3, <1>6, <1>7
<1>9. UpToQuote(i) \in Seq(Tokens)
  BY <1>2, <1>8, TokenConcat DEF UpToQuote
<1> QED
  BY <1>2, <1>3, <1>4, <1>5, <1>6, <1>7, <1>8, <1>9

\* The fourth token says how long the first name is.
LEMMA LengthOfBase ==
  ASSUME NEW i \in Body
  PROVE  UpToQuote(i)[4] = Len(i.base)
<1>1. Header(i)[4] = Len(i.base)
  BY DEF Header
<1>2. UpToBase(i)[4] = Header(i)[4]
  BY EncodeParts, TokenConcat DEF UpToBase
<1>3. UpToLength(i)[4] = UpToBase(i)[4]
  <2>1. \A k \in 1..Len(UpToBase(i)) : UpToLength(i)[k] = UpToBase(i)[k]
    BY EncodeParts, TokenConcat DEF UpToLength
  <2>2. 4 \in 1..Len(UpToBase(i))
    BY EncodeParts
  <2> QED
    BY <2>1, <2>2
<1>4. UpToQuote(i)[4] = UpToLength(i)[4]
  BY EncodeParts, TokenConcat DEF UpToQuote
<1> QED
  BY <1>1, <1>2, <1>3, <1>4

\* Intent::id names one intent (intent.rs:55-78): intents with the same id agree
\* in every economic field, the two names of the market included, because
\* each name comes behind its length.  Without the lengths the header and the
\* footer still line up, and ("AB","C") and ("A","BC") do not come apart.
THEOREM IdNamesOneIntent ==
  ASSUME NEW i \in Body, NEW j \in Body, id(i) = id(j)
  PROVE  i = j
<1>1. UpToQuote(i) \o Footer(i) = UpToQuote(j) \o Footer(j)
  BY DEF id, Keccak256, encode, UpToQuote, UpToLength, UpToBase, Header, Footer
<1>2. UpToQuote(i) = UpToQuote(j) /\ Footer(i) = Footer(j)
  <2>1. /\ UpToQuote(i) \in Seq(Tokens) /\ UpToQuote(j) \in Seq(Tokens)
        /\ Footer(i) \in Seq(Tokens) /\ Footer(j) \in Seq(Tokens)
    BY EncodeParts
  <2>2. Len(Footer(i)) = Len(Footer(j))
    BY EncodeParts
  <2>3. SplitAlike(UpToQuote(i), Footer(i), UpToQuote(j), Footer(j))
    BY <2>1, TokenCancel
  <2> QED
    BY <1>1, <2>2, <2>3 DEF SplitAlike
<1>3. Len(i.base) = Len(j.base)
  BY <1>2, LengthOfBase
<1>4. UpToLength(i) = UpToLength(j) /\ i.quote = j.quote
  <2>1. UpToLength(i) \o i.quote = UpToLength(j) \o j.quote
    BY <1>2 DEF UpToQuote
  <2>2. /\ UpToLength(i) \in Seq(Tokens) /\ UpToLength(j) \in Seq(Tokens)
        /\ i.quote \in Seq(Tokens) /\ j.quote \in Seq(Tokens)
    BY EncodeParts
  <2>3. Len(UpToLength(i)) = Len(UpToLength(j))
    <3>1. Len(UpToLength(i)) = 5 + Len(i.base)
      BY EncodeParts
    <3>2. Len(UpToLength(j)) = 5 + Len(j.base)
      BY EncodeParts
    <3> QED
      BY <1>3, <3>1, <3>2
  <2>4. SplitAlike(UpToLength(i), i.quote, UpToLength(j), j.quote)
    BY <2>2, TokenCancel
  <2> QED
    BY <2>1, <2>3, <2>4 DEF SplitAlike
<1>5. UpToBase(i) = UpToBase(j)
  <2>1. UpToBase(i) \o <<Len(i.quote)>> = UpToBase(j) \o <<Len(j.quote)>>
    BY <1>4 DEF UpToLength
  <2>2. /\ UpToBase(i) \in Seq(Tokens) /\ UpToBase(j) \in Seq(Tokens)
        /\ <<Len(i.quote)>> \in Seq(Tokens) /\ <<Len(j.quote)>> \in Seq(Tokens)
    BY EncodeParts
  <2>3. Len(<<Len(i.quote)>>) = Len(<<Len(j.quote)>>)
    BY EncodeParts
  <2>4. SplitAlike(UpToBase(i), <<Len(i.quote)>>,
                   UpToBase(j), <<Len(j.quote)>>)
    BY <2>2, TokenCancel
  <2> QED
    BY <2>1, <2>3, <2>4 DEF SplitAlike
<1>6. Header(i) = Header(j) /\ i.base = j.base
  <2>1. Header(i) \o i.base = Header(j) \o j.base
    BY <1>5 DEF UpToBase
  <2>2. /\ Header(i) \in Seq(Tokens) /\ Header(j) \in Seq(Tokens)
        /\ i.base \in Seq(Tokens) /\ j.base \in Seq(Tokens)
    BY EncodeParts
  <2>3. Len(Header(i)) = Len(Header(j))
    BY EncodeParts
  <2>4. SplitAlike(Header(i), i.base, Header(j), j.base)
    BY <2>2, TokenCancel
  <2> QED
    BY <2>1, <2>3, <2>4 DEF SplitAlike
<1>7. i.submitter = j.submitter /\ i.nonce = j.nonce
  BY <1>6 DEF Header
<1>8. /\ i.side = j.side /\ i.size = j.size
      /\ i.max_slippage_bps = j.max_slippage_bps
      /\ i.priority_fee = j.priority_fee
      /\ i.timestamp_ms = j.timestamp_ms
      /\ i.deadline_ms = j.deadline_ms
  BY <1>2 DEF Footer
<1> QED
  BY <1>4, <1>6, <1>7, <1>8 DEF Body

-----------------------------------------------------------------------------
(* Slots and their evidence.                                               *)

\* commitment (sequencer.rs:169-177) names the slot, the intents and the order
\* they are laid out in: no reordering, truncation or renumbering keeps it.
THEOREM CommitmentBinds ==
  ASSUME NEW X,
         NEW slot \in Nat, NEW other \in Nat,
         NEW a \in Seq(X), NEW b \in Seq(X),
         commit(slot, a) = commit(other, b)
  PROVE  slot = other /\ a = b
<1> DEFINE S == Nat \cup X
<1>1. <<slot, Len(a)>> \o a = <<other, Len(b)>> \o b
  BY DEF commit, Keccak256
<1>2. Len(a) \in Nat /\ Len(b) \in Nat
  BY LenProperties
<1>3. a \in Seq(S) /\ b \in Seq(S)
  <2>1. X \subseteq S
    OBVIOUS
  <2> QED
    BY <2>1, SeqMonotonic
<1>4. <<slot, Len(a)>> \in Seq(S) /\ <<other, Len(b)>> \in Seq(S)
  BY <1>2
<1>5. Len(<<slot, Len(a)>>) = Len(<<other, Len(b)>>)
  OBVIOUS
<1>6. SplitAlike(<<slot, Len(a)>>, a, <<other, Len(b)>>, b)
  <2> HIDE DEF S
  <2>1. \A s, t, u, v \in Seq(S) : SplitAlike(s, t, u, v)
    BY ConcatCancel DEF SplitAlike
  <2> QED
    BY <1>3, <1>4, <2>1
<1>7. <<slot, Len(a)>> = <<other, Len(b)>> /\ a = b
  BY <1>1, <1>5, <1>6 DEF SplitAlike
<1> QED
  BY <1>7

\* What verify_preconf (attest.rs:127-153) accepts, it accepts for the contents
\* committed to, under a quote and a signature over that very commitment.
LEMMA AcceptedPreconf ==
  ASSUME NEW pinned, NEW claim, NEW intents,
         verify_preconf(pinned, claim, intents) = "Ok"
  PROVE  /\ claim.commitment = commit(claim.slot, intents)
         /\ decode_quote(claim.quote).slot = claim.slot
         /\ decode_quote(claim.quote).commitment = claim.commitment
         /\ trusts(pinned, decode_quote(claim.quote).measurement)
         /\ claim.signature = mock_over(claim.commitment)
BY DEF verify_preconf, signature_is_valid

\* Two claims that share a quote or a signature and both verify
\* (attest.rs:127-153) are about the same slot and the same contents, in the
\* same order: evidence cannot be carried over from one slot to another.
THEOREM PreconfBinds ==
  ASSUME NEW X, NEW pinned, NEW claim, NEW second,
         NEW a \in Seq(X), NEW b \in Seq(X),
         claim.slot \in Nat, second.slot \in Nat,
         verify_preconf(pinned, claim, a) = "Ok",
         verify_preconf(pinned, second, b) = "Ok",
         claim.quote = second.quote \/ claim.signature = second.signature
  PROVE  claim.slot = second.slot /\ a = b
<1>1. claim.commitment = second.commitment
  <2>1. CASE claim.quote = second.quote
    BY <2>1, AcceptedPreconf
  <2>2. CASE claim.signature = second.signature
    <3>1. mock_over(claim.commitment) = mock_over(second.commitment)
      BY <2>2, AcceptedPreconf
    <3> QED
      BY <3>1 DEF mock_over, Keccak256
  <2> QED
    BY <2>1, <2>2
<1>2. commit(claim.slot, a) = commit(second.slot, b)
  BY <1>1, AcceptedPreconf
<1> QED
  BY <1>2, CommitmentBinds

\* Slots as a proof is made for: their commitment is that of their contents.
RunsOfSlots(X) ==
  {slots \in Seq([slot : Nat, intents : Seq(X),
                  commitment : [keccak : Seq(Nat \cup X)]]) :
     \A k \in 1..Len(slots) :
       slots[k].commitment = commit(slots[k].slot, slots[k].intents)}

\* A proof handle verifies (prove/mod.rs:327-351) for one run of slots: the same
\* number of them, with the same numbers and contents, in the same order.
THEOREM ProofBinds ==
  ASSUME NEW X, NEW handle,
         NEW slots \in RunsOfSlots(X), NEW others \in RunsOfSlots(X),
         verify(handle, slots) = "Ok",
         verify(handle, others) = "Ok"
  PROVE  /\ Len(slots) = Len(others)
         /\ \A k \in 1..Len(slots) :
              /\ slots[k].slot = others[k].slot
              /\ slots[k].intents = others[k].intents
<1>1. statement(slots) = statement(others)
  BY DEF verify
<1>2. /\ DOMAIN slots = 1..Len(slots) /\ Len(slots) \in Nat
      /\ DOMAIN others = 1..Len(others) /\ Len(others) \in Nat
  BY DEF RunsOfSlots
<1>3. DOMAIN slots = DOMAIN others
  BY <1>1 DEF statement
<1>4. Len(slots) = Len(others)
  <2>1. \A m, n \in Nat : m < n => n \in 1..n /\ n \notin 1..m
    OBVIOUS
  <2>2. ~ Len(slots) < Len(others)
    BY <1>2, <1>3, <2>1
  <2>3. ~ Len(others) < Len(slots)
    BY <1>2, <1>3, <2>1
  <2>4. Len(slots) \in Nat /\ Len(others) \in Nat
    BY <1>2
  <2>5. \A m, n \in Nat : ~ m < n /\ ~ n < m => m = n
    OBVIOUS
  <2> QED
    BY <2>2, <2>3, <2>4, <2>5
<1>5. ASSUME NEW k \in 1..Len(slots)
      PROVE  slots[k].slot = others[k].slot /\ slots[k].intents = others[k].intents
  <2>1. slots[k].commitment = others[k].commitment
    <3>1. statement(slots)[k] = slots[k].commitment
      BY <1>2 DEF statement
    <3>2. statement(others)[k] = others[k].commitment
      BY <1>2, <1>4 DEF statement
    <3> QED
      BY <1>1, <3>1, <3>2
  <2>2. commit(slots[k].slot, slots[k].intents)
          = commit(others[k].slot, others[k].intents)
    BY <1>4, <2>1 DEF RunsOfSlots
  <2>3. /\ slots[k].slot \in Nat /\ slots[k].intents \in Seq(X)
        /\ others[k].slot \in Nat /\ others[k].intents \in Seq(X)
    <3> DEFINE Slot == [slot : Nat, intents : Seq(X),
                        commitment : [keccak : Seq(Nat \cup X)]]
    <3>1. slots \in Seq(Slot) /\ others \in Seq(Slot)
      BY DEF RunsOfSlots
    <3>2. slots[k] \in Slot /\ others[k] \in Slot
      <4> HIDE DEF Slot
      <4> QED
        BY <1>4, <3>1
    <3> QED
      BY <3>2
  <2> QED
    BY <2>2, <2>3, CommitmentBinds
<1> QED
  BY <1>4, <1>5

-----------------------------------------------------------------------------
(* The pipeline's log.                                                     *)

\* longer is the log with one entry more, as a reader of these kinds sees it.
GrowsBy(entries, longer, e, kinds) ==
  /\ \A p \in Of(entries, kinds) : longer[p] = entries[p]
  /\ Of(longer, kinds) =
       IF e.kind \in kinds THEN Of(entries, kinds) \cup {Len(entries) + 1}
       ELSE Of(entries, kinds)
  /\ longer[Len(entries) + 1] = e
  /\ Len(entries) \in Nat
  /\ Len(longer) = Len(entries) + 1
  /\ Len(entries) + 1 \notin Of(entries, kinds)
  /\ Of(entries, kinds) \subseteq 1..Len(entries)
  /\ IsFiniteSet(Of(entries, kinds))

\* That is what an append makes of it.
LEMMA OneMore ==
  ASSUME NEW S, NEW entries \in Seq(S), NEW e, NEW kinds
  PROVE  GrowsBy(entries, Append(entries, e), e, kinds)
<1> DEFINE longer == Append(entries, e)
           n == Len(entries) + 1
<1>1. /\ n \in Nat
      /\ Len(entries) \in Nat
      /\ DOMAIN entries = 1..Len(entries)
      /\ n \notin DOMAIN entries
  OBVIOUS
<1>2. entries \in Seq(S \cup {e})
  BY SeqMonotonic
<1>3. /\ longer \in Seq(S \cup {e})
      /\ Len(longer) = n
      /\ DOMAIN longer = 1..n
      /\ longer[n] = e
      /\ \A p \in DOMAIN entries : longer[p] = entries[p]
  BY <1>2
<1>4. 1..n = 1..Len(entries) \cup {n}
  BY <1>1
<1>5. Of(longer, kinds) = IF e.kind \in kinds THEN Of(entries, kinds) \cup {n}
                          ELSE Of(entries, kinds)
  BY <1>1, <1>3, <1>4 DEF Of
<1>6. Of(entries, kinds) \subseteq 1..Len(entries)
  BY <1>1 DEF Of
<1>7. IsFiniteSet(1..Len(entries))
  BY <1>1, FS_Interval
<1>8. IsFiniteSet(Of(entries, kinds))
  BY <1>6, <1>7, FS_Subset
<1>9. n \notin Of(entries, kinds)
  BY <1>1, <1>6
<1>10. QED
  BY <1>1, <1>3, <1>5, <1>6, <1>8, <1>9 DEF GrowsBy

\* The commitment of slot s, and those of a run of slots.
CommittedIn(entries, s)   == entries[CommitOf(entries, s)]
BatchIn(entries, from, to) ==
  [k \in 1..(to - from + 1) |-> CommittedIn(entries, from + k - 1)]

\* The entries of these positions are numbered 0, 1, ... without a gap and
\* without repetition.
Numbered(entries, positions) ==
  /\ {entries[p].slot : p \in positions} = 0..(Cardinality(positions) - 1)
  /\ \A p, q \in positions : entries[p].slot = entries[q].slot => p = q

\* Slots are committed in turn, each under the commitment of its contents.
CommitsInv(entries) ==
  /\ Numbered(entries, Commits(entries))
  /\ \A p \in Commits(entries) :
       /\ entries[p].intents \in Seq(Names)
       /\ entries[p].commitment = commit(entries[p].slot, entries[p].intents)

\* A ruling is what the enclave makes of the slot's commitment.
RulingsInv(entries, slots) ==
  /\ Numbered(entries, Rulings(entries))
  /\ RuledSlots(entries) \subseteq CommittedSlots(entries)
  /\ \A p \in Of(entries, {"SlotAttested"}) :
       LET s == entries[p].slot
           c == CommittedIn(entries, s).commitment
       IN  /\ s \notin slots
           /\ entries[p].quote = encode_quote(s, c, MOCK_MEASUREMENT)
           /\ entries[p].signature = mock_over(c)
  /\ \A p \in Of(entries, {"AttestFailed"}) :
       entries[p].slot \in slots /\ entries[p].reason \in EnclaveError

\* A verdict is what the backend makes of a run of committed slots.
VerdictsInv(entries, ranges) ==
  \A p \in Verdicts(entries) :
    LET from == entries[p].from_slot
        to == entries[p].to_slot
    IN  /\ from \in Nat /\ to \in Nat /\ from =< to
        /\ from .. to \subseteq CommittedSlots(entries)
        /\ entries[p].kind = "SlotsProven" =>
             /\ entries[p].proof = ProofHandle(BatchIn(entries, from, to))
             /\ \A range \in ranges : ~ Overlaps(from, to, range)
        /\ entries[p].kind = "ProveFailed" =>
             /\ entries[p].reason = "Backend"
             /\ \E range \in ranges : Overlaps(from, to, range)

\* Numbering goes on with one more entry under the next number.
LEMMA NumberedOn ==
  ASSUME NEW S, NEW entries \in Seq(S), NEW e, NEW kinds, e.kind \in kinds,
         Numbered(entries, Of(entries, kinds)),
         e.slot = Cardinality(Of(entries, kinds))
  PROVE  /\ Numbered(Append(entries, e), Of(Append(entries, e), kinds))
         /\ \A p \in Of(entries, kinds) : entries[p].slot # e.slot
         /\ e.slot \in Nat
<1> DEFINE old == Of(entries, kinds)
           longer == Append(entries, e)
           n == Len(entries) + 1
           c == Cardinality(old)
<1>1. /\ Of(longer, kinds) = old \cup {n}
      /\ n \notin old
      /\ IsFiniteSet(old)
      /\ longer[n] = e
      /\ \A p \in old : longer[p] = entries[p]
  <2>1. GrowsBy(entries, Append(entries, e), e, kinds)
    BY OneMore
  <2>2. QED
    BY <2>1 DEF GrowsBy
<1>2. c \in Nat
  BY <1>1, FS_CardinalityType
<1>3. Cardinality(old \cup {n}) = c + 1
  BY <1>1, FS_AddElement
<1>4. {entries[p].slot : p \in old} = 0..(c - 1)
  BY DEF Numbered
<1>5. \A p \in old : entries[p].slot \in 0..(c - 1)
  BY <1>4
<1>6. \A p \in old : entries[p].slot # c
  BY <1>2, <1>5
<1>7. {longer[p].slot : p \in old \cup {n}} = {entries[p].slot : p \in old} \cup {c}
  BY <1>1
<1>8. 0..(c - 1) \cup {c} = 0..((c + 1) - 1)
  BY <1>2
<1>9. \A p, q \in old \cup {n} : longer[p].slot = longer[q].slot => p = q
  BY <1>1, <1>6 DEF Numbered
<1>10. QED
  BY <1>1, <1>2, <1>3, <1>4, <1>6, <1>7, <1>8, <1>9 DEF Numbered

\* It is not disturbed by an entry of another kind.
LEMMA NumberedStill ==
  ASSUME NEW S, NEW entries \in Seq(S), NEW e, NEW kinds, e.kind \notin kinds,
         Numbered(entries, Of(entries, kinds))
  PROVE  Numbered(Append(entries, e), Of(Append(entries, e), kinds))
<1> DEFINE old == Of(entries, kinds)
           longer == Append(entries, e)
<1>1. Of(longer, kinds) = old /\ \A p \in old : longer[p] = entries[p]
  <2>1. GrowsBy(entries, Append(entries, e), e, kinds)
    BY OneMore
  <2>2. QED
    BY <2>1 DEF GrowsBy
<1>2. {longer[p].slot : p \in old} = {entries[p].slot : p \in old}
  BY <1>1
<1>3. QED
  BY <1>1, <1>2 DEF Numbered

\* What a slot was committed as stays so: only a slot with a new number comes.
LEMMA CommittedStays ==
  ASSUME NEW S, NEW entries \in Seq(S), NEW e,
         Numbered(entries, Commits(entries)),
         e.kind = "SlotCommitted" => e.slot \notin CommittedSlots(entries)
  PROVE  /\ CommittedSlots(entries) \subseteq CommittedSlots(Append(entries, e))
         /\ \A s \in CommittedSlots(entries) :
              /\ CommittedIn(Append(entries, e), s) = CommittedIn(entries, s)
              /\ CommitOf(entries, s) \in Commits(entries)
              /\ CommittedIn(entries, s).slot = s
<1> DEFINE longer == Append(entries, e)
           n == Len(entries) + 1
<1>1. /\ \/ Commits(longer) = Commits(entries)
         \/ e.kind = "SlotCommitted" /\ Commits(longer) = Commits(entries) \cup {n}
      /\ longer[n] = e
      /\ \A p \in Commits(entries) : p \in 1..Len(entries) /\ longer[p] = entries[p]
      /\ n \in Nat
  <2>1. GrowsBy(entries, Append(entries, e), e, {"SlotCommitted"})
    BY OneMore
  <2>2. QED
    BY <2>1 DEF GrowsBy, Commits
<1>2. CommittedSlots(entries) \subseteq CommittedSlots(longer)
  BY <1>1 DEF CommittedSlots
<1>3. ASSUME NEW s \in CommittedSlots(entries)
      PROVE  /\ CommittedIn(longer, s) = CommittedIn(entries, s)
             /\ CommitOf(entries, s) \in Commits(entries)
             /\ CommittedIn(entries, s).slot = s
  <2>1. PICK p \in Commits(entries) : entries[p].slot = s
    BY DEF CommittedSlots
  <2>2. \A q \in Commits(entries) : entries[q].slot = s => q = p
    BY <2>1 DEF Numbered
  <2>3. p =< p
    BY <1>1
  <2>4. CommitOf(entries, s) = p
    BY <2>1, <2>2, <2>3 DEF CommitOf
  <2>5. \A q \in Commits(longer) : longer[q].slot = s => q = p
    BY <1>1, <2>2
  <2>6. p \in Commits(longer) /\ longer[p].slot = s /\ longer[p] = entries[p]
    BY <1>1, <2>1
  <2>7. CommitOf(longer, s) = p
    BY <2>3, <2>5, <2>6 DEF CommitOf
  <2>8. QED
    BY <2>1, <2>4, <2>6, <2>7 DEF CommittedIn
<1>4. QED
  BY <1>2, <1>3

\* A commitment in its turn keeps CommitsInv, and so does any other entry.
LEMMA CommitsInvOn ==
  ASSUME NEW S, NEW entries \in Seq(S), NEW e, CommitsInv(entries),
         e.kind = "SlotCommitted" =>
           /\ e.slot = Cardinality(Commits(entries))
           /\ e.intents \in Seq(Names)
           /\ e.commitment = commit(e.slot, e.intents)
  PROVE  /\ CommitsInv(Append(entries, e))
         /\ e.kind = "SlotCommitted" => e.slot \notin CommittedSlots(entries)
<1> DEFINE longer == Append(entries, e)
           n == Len(entries) + 1
<1>1. /\ Commits(longer) = IF e.kind = "SlotCommitted" THEN Commits(entries) \cup {n}
                           ELSE Commits(entries)
      /\ longer[n] = e
      /\ \A p \in Commits(entries) : longer[p] = entries[p]
  <2>1. GrowsBy(entries, longer, e, {"SlotCommitted"})
    BY OneMore
  <2>2. QED
    BY <2>1 DEF GrowsBy, Commits
<1>2. CASE e.kind = "SlotCommitted"
  <2>1. /\ Numbered(longer, Commits(longer))
        /\ \A p \in Commits(entries) : entries[p].slot # e.slot
    BY <1>2, NumberedOn DEF CommitsInv, Commits
  <2>2. \A p \in Commits(longer) :
          /\ longer[p].intents \in Seq(Names)
          /\ longer[p].commitment = commit(longer[p].slot, longer[p].intents)
    BY <1>1, <1>2 DEF CommitsInv
  <2>3. QED
    BY <2>1, <2>2 DEF CommitsInv, CommittedSlots
<1>3. CASE e.kind # "SlotCommitted"
  <2>1. Numbered(longer, Commits(longer))
    BY <1>3, NumberedStill DEF CommitsInv, Commits
  <2>2. QED
    BY <1>1, <1>3, <2>1 DEF CommitsInv
<1>4. QED
  BY <1>2, <1>3

\* Rulings keep to the slots' commitments, with one more that does.
LEMMA RulingsInvOn ==
  ASSUME NEW S, NEW entries \in Seq(S), NEW e, NEW slots,
         Numbered(entries, Commits(entries)),
         RulingsInv(entries, slots),
         e.kind = "SlotCommitted" => e.slot \notin CommittedSlots(entries),
         e.kind \in {"SlotAttested", "AttestFailed"} =>
           /\ e.slot = Cardinality(Rulings(entries))
           /\ e.slot \in CommittedSlots(entries),
         e.kind = "SlotAttested" =>
           LET c == CommittedIn(entries, e.slot).commitment
           IN  /\ e.slot \notin slots
               /\ e.quote = encode_quote(e.slot, c, MOCK_MEASUREMENT)
               /\ e.signature = mock_over(c),
         e.kind = "AttestFailed" => e.slot \in slots /\ e.reason \in EnclaveError
  PROVE  RulingsInv(Append(entries, e), slots)
<1> DEFINE longer == Append(entries, e)
           n == Len(entries) + 1
           Attested(es) == Of(es, {"SlotAttested"})
           Failed(es) == Of(es, {"AttestFailed"})
<1>1. /\ CommittedSlots(entries) \subseteq CommittedSlots(longer)
      /\ \A s \in CommittedSlots(entries) :
           CommittedIn(longer, s) = CommittedIn(entries, s)
  BY CommittedStays
<1>2. /\ Rulings(longer) = IF e.kind \in {"SlotAttested", "AttestFailed"}
                           THEN Rulings(entries) \cup {n} ELSE Rulings(entries)
      /\ longer[n] = e
      /\ \A p \in Rulings(entries) : longer[p] = entries[p]
  <2>1. GrowsBy(entries, longer, e, {"SlotAttested", "AttestFailed"})
    BY OneMore
  <2>2. QED
    BY <2>1 DEF GrowsBy, Rulings
<1>3. Attested(longer) = IF e.kind = "SlotAttested" THEN Attested(entries) \cup {n}
                         ELSE Attested(entries)
  <2>1. GrowsBy(entries, longer, e, {"SlotAttested"})
    BY OneMore
  <2>2. QED
    BY <2>1 DEF GrowsBy
<1>4. Failed(longer) = IF e.kind = "AttestFailed" THEN Failed(entries) \cup {n}
                       ELSE Failed(entries)
  <2>1. GrowsBy(entries, longer, e, {"AttestFailed"})
    BY OneMore
  <2>2. QED
    BY <2>1 DEF GrowsBy
<1>5. Numbered(longer, Rulings(longer))
  <2>1. CASE e.kind \in {"SlotAttested", "AttestFailed"}
    BY <2>1, NumberedOn DEF RulingsInv, Rulings
  <2>2. CASE e.kind \notin {"SlotAttested", "AttestFailed"}
    BY <2>2, NumberedStill DEF RulingsInv, Rulings
  <2>3. QED
    BY <2>1, <2>2
<1>6. RuledSlots(longer) \subseteq CommittedSlots(longer)
  BY <1>1, <1>2 DEF RulingsInv, RuledSlots
<1>7. /\ Attested(entries) \subseteq Rulings(entries)
      /\ Failed(entries) \subseteq Rulings(entries)
      /\ \A p \in Rulings(entries) : entries[p].slot \in CommittedSlots(entries)
  BY DEF Of, Rulings, RulingsInv, RuledSlots
<1>8. ASSUME NEW p \in Attested(longer)
      PROVE  LET s == longer[p].slot
                 c == CommittedIn(longer, s).commitment
             IN  /\ s \notin slots
                 /\ longer[p].quote = encode_quote(s, c, MOCK_MEASUREMENT)
                 /\ longer[p].signature = mock_over(c)
  <2>1. CASE p \in Attested(entries)
    <3>1. longer[p] = entries[p] /\ entries[p].slot \in CommittedSlots(entries)
      BY <1>2, <1>7, <2>1
    <3>2. CommittedIn(longer, entries[p].slot) = CommittedIn(entries, entries[p].slot)
      BY <1>1, <3>1
    <3>3. QED
      BY <2>1, <3>1, <3>2 DEF RulingsInv
  <2>2. CASE p = n /\ e.kind = "SlotAttested"
    <3>1. longer[p] = e /\ e.slot \in CommittedSlots(entries)
      BY <1>2, <2>2
    <3>2. CommittedIn(longer, e.slot) = CommittedIn(entries, e.slot)
      BY <1>1, <3>1
    <3>3. QED
      BY <2>2, <3>1, <3>2
  <2>3. QED
    BY <1>3, <2>1, <2>2
<1>9. \A p \in Failed(longer) :
        longer[p].slot \in slots /\ longer[p].reason \in EnclaveError
  BY <1>2, <1>4, <1>7 DEF RulingsInv
<1>10. QED
  BY <1>5, <1>6, <1>8, <1>9 DEF RulingsInv

\* The batch of a run of committed slots stays what it is.
LEMMA BatchStays ==
  ASSUME NEW S, NEW entries \in Seq(S), NEW e,
         Numbered(entries, Commits(entries)),
         e.kind = "SlotCommitted" => e.slot \notin CommittedSlots(entries),
         NEW from \in Nat, NEW to \in Nat,
         from .. to \subseteq CommittedSlots(entries)
  PROVE  BatchIn(Append(entries, e), from, to) = BatchIn(entries, from, to)
<1>1. \A s \in CommittedSlots(entries) :
        CommittedIn(Append(entries, e), s) = CommittedIn(entries, s)
  BY CommittedStays
<1>2. \A k \in 1..(to - from + 1) : from + k - 1 \in from .. to
  OBVIOUS
<1>3. \A k \in 1..(to - from + 1) :
        CommittedIn(Append(entries, e), from + k - 1)
          = CommittedIn(entries, from + k - 1)
  BY <1>1, <1>2
<1>4. QED
  BY <1>3 DEF BatchIn

\* Verdicts keep to the slots they are on, with one more that does.
LEMMA VerdictsInvOn ==
  ASSUME NEW S, NEW entries \in Seq(S), NEW e, NEW ranges,
         Numbered(entries, Commits(entries)),
         VerdictsInv(entries, ranges),
         e.kind = "SlotCommitted" => e.slot \notin CommittedSlots(entries),
         e.kind \in {"SlotsProven", "ProveFailed"} =>
           /\ e.from_slot \in Nat /\ e.to_slot \in Nat /\ e.from_slot =< e.to_slot
           /\ e.from_slot .. e.to_slot \subseteq CommittedSlots(entries),
         e.kind = "SlotsProven" =>
           /\ e.proof = ProofHandle(BatchIn(entries, e.from_slot, e.to_slot))
           /\ \A range \in ranges : ~ Overlaps(e.from_slot, e.to_slot, range),
         e.kind = "ProveFailed" =>
           /\ e.reason = "Backend"
           /\ \E range \in ranges : Overlaps(e.from_slot, e.to_slot, range)
  PROVE  VerdictsInv(Append(entries, e), ranges)
<1> DEFINE longer == Append(entries, e)
           n == Len(entries) + 1
<1>1. CommittedSlots(entries) \subseteq CommittedSlots(longer)
  BY CommittedStays
<1>2. /\ Verdicts(longer) = IF e.kind \in {"SlotsProven", "ProveFailed"}
                            THEN Verdicts(entries) \cup {n} ELSE Verdicts(entries)
      /\ longer[n] = e
      /\ \A p \in Verdicts(entries) : longer[p] = entries[p]
  <2>1. GrowsBy(entries, longer, e, {"SlotsProven", "ProveFailed"})
    BY OneMore
  <2>2. QED
    BY <2>1 DEF GrowsBy, Verdicts
<1>3. ASSUME NEW p \in Verdicts(longer)
      PROVE  LET from == longer[p].from_slot
                 to == longer[p].to_slot
             IN  /\ from \in Nat /\ to \in Nat /\ from =< to
                 /\ from .. to \subseteq CommittedSlots(longer)
                 /\ longer[p].kind = "SlotsProven" =>
                      /\ longer[p].proof = ProofHandle(BatchIn(longer, from, to))
                      /\ \A range \in ranges : ~ Overlaps(from, to, range)
                 /\ longer[p].kind = "ProveFailed" =>
                      /\ longer[p].reason = "Backend"
                      /\ \E range \in ranges : Overlaps(from, to, range)
  <2> DEFINE from == longer[p].from_slot
             to == longer[p].to_slot
  <2>1. \/ p \in Verdicts(entries) /\ longer[p] = entries[p]
        \/ e.kind \in {"SlotsProven", "ProveFailed"} /\ longer[p] = e
    BY <1>2
  <2>2. /\ from \in Nat /\ to \in Nat /\ from =< to
        /\ from .. to \subseteq CommittedSlots(entries)
        /\ longer[p].kind = "SlotsProven" =>
             /\ longer[p].proof = ProofHandle(BatchIn(entries, from, to))
             /\ \A range \in ranges : ~ Overlaps(from, to, range)
        /\ longer[p].kind = "ProveFailed" =>
             /\ longer[p].reason = "Backend"
             /\ \E range \in ranges : Overlaps(from, to, range)
    BY <2>1 DEF VerdictsInv
  <2> HIDE DEF from, to
  <2>3. BatchIn(longer, from, to) = BatchIn(entries, from, to)
    BY <2>2, BatchStays
  <2>4. QED
    BY <1>1, <2>2, <2>3 DEF from, to
<1>4. QED
  BY <1>3 DEF VerdictsInv

-----------------------------------------------------------------------------
(* The steps.                                                              *)

\* What the projector makes of the log.
RM == INSTANCE ReadModelProofs WITH Window <- 0

\* The intent is the one its id names.
MadeFrom(intent) ==
  /\ intent.body \in Bodies
  /\ intent.id = id(intent.body)
  /\ intent.deadline_ms = intent.body.deadline_ms

\* What the log holds, and what the enclave and the backend are set up to fail.
PipelineInv ==
  /\ log \in Seq(Range(log))
  /\ failing \in Faults
  /\ RM!History(log, Data)
  /\ folded \in 0..Len(log)
  /\ \A p \in Received : MadeFrom(log[p].intent)
  /\ CommitsInv(log)
  /\ RulingsInv(log, failing.slots)
  /\ VerdictsInv(log, failing.ranges)

\* Committed and Batch read the log there is.
LEMMA OfThisLog ==
  /\ \A s : Committed(s) = CommittedIn(log, s)
  /\ \A from, to : Batch(from, to) = BatchIn(log, from, to)
BY DEF Committed, CommittedIn, Batch, BatchIn

\* The entry of a commitment is one of a number, contents and their commitment.
LEMMA CommittedFields ==
  ASSUME CommitsInv(log), log \in Seq(Range(log)), NEW s \in CommittedSlots(log)
  PROVE  /\ CommittedIn(log, s).slot = s
         /\ CommittedIn(log, s).intents \in Seq(Names)
         /\ CommittedIn(log, s).commitment = commit(s, CommittedIn(log, s).intents)
         /\ s \in Nat
<1>1. CommitOf(log, s) \in Commits(log) /\ CommittedIn(log, s).slot = s
  <2>1. PICK e : e = [kind |-> "Other"]
    OBVIOUS
  <2>2. e.kind # "SlotCommitted"
    BY <2>1
  <2>3. Numbered(log, Commits(log))
    BY DEF CommitsInv
  <2>4. QED
    BY <2>2, <2>3, CommittedStays
<1>2. /\ CommittedIn(log, s).intents \in Seq(Names)
      /\ CommittedIn(log, s).commitment
           = commit(CommittedIn(log, s).slot, CommittedIn(log, s).intents)
  BY <1>1 DEF CommitsInv, CommittedIn
<1>3. s \in 0..(Cardinality(Commits(log)) - 1)
  BY DEF CommitsInv, Numbered, CommittedSlots
<1>4. QED
  BY <1>1, <1>2, <1>3

\* It is the entry of that number.
LEMMA CommitIsThe ==
  ASSUME CommitsInv(log), log \in Seq(Range(log)),
         NEW p \in Commits(log), NEW s, log[p].slot = s
  PROVE  CommittedIn(log, s) = log[p]
<1>1. \A q \in Commits(log) : log[q].slot = s => q = p
  BY DEF CommitsInv, Numbered
<1>2. p =< p
  BY DEF Commits, Of
<1>3. CommitOf(log, s) = p
  BY <1>1, <1>2 DEF CommitOf
<1>4. QED
  BY <1>3 DEF CommittedIn

\* A log is a list of its entries.
LEMMA OfItsRange ==
  ASSUME NEW S, NEW entries \in Seq(S)
  PROVE  entries \in Seq(Range(entries))
<1>1. /\ Len(entries) \in Nat
      /\ entries \in [1..Len(entries) -> S]
      /\ DOMAIN entries = 1..Len(entries)
  BY LenProperties
<1>2. entries \in [1..Len(entries) -> Range(entries)]
  BY <1>1 DEF Range
<1>3. QED
  BY <1>1, <1>2, SeqDef

\* The ends of a batch are its first and its last slot.
LEMMA BatchEnds ==
  ASSUME PipelineInv, NEW from \in Nat, NEW to \in Nat, from =< to,
         from .. to \subseteq CommittedSlots(log)
  PROVE  LET slots == BatchIn(log, from, to)
         IN  /\ Len(slots) = to - from + 1
             /\ DOMAIN slots = 1..(to - from + 1)
             /\ \A k \in 1..(to - from + 1) :
                  /\ slots[k] = CommittedIn(log, from + k - 1)
                  /\ slots[k].slot = from + k - 1
                  /\ slots[k].intents \in Seq(Names)
                  /\ slots[k].commitment = commit(slots[k].slot, slots[k].intents)
<1> DEFINE slots == BatchIn(log, from, to)
<1>1. to - from + 1 \in Nat
  OBVIOUS
<1>2. /\ Len(slots) = to - from + 1
      /\ DOMAIN slots = 1..(to - from + 1)
      /\ \A k \in 1..(to - from + 1) : slots[k] = CommittedIn(log, from + k - 1)
  BY <1>1 DEF BatchIn
<1>3. ASSUME NEW k \in 1..(to - from + 1)
      PROVE  /\ slots[k].slot = from + k - 1
             /\ slots[k].intents \in Seq(Names)
             /\ slots[k].commitment = commit(slots[k].slot, slots[k].intents)
  <2>1. PICK s \in CommittedSlots(log) : s = from + k - 1
    OBVIOUS
  <2>2. /\ CommittedIn(log, s).slot = s
        /\ CommittedIn(log, s).intents \in Seq(Names)
        /\ CommittedIn(log, s).commitment
             = commit(s, CommittedIn(log, s).intents)
    BY CommittedFields DEF PipelineInv
  <2>3. slots[k] = CommittedIn(log, s)
    BY <1>2, <2>1
  <2>4. QED
    BY <2>1, <2>2, <2>3
<1>4. QED
  BY <1>2, <1>3

\* A commitment to ids is one the read model may hold.
LEMMA CommitmentCarried ==
  ASSUME NEW s \in Nat, NEW ids \in Seq(Names)
  PROVE  commit(s, ids) \in Commitments
<1>1. Len(ids) \in Nat
  OBVIOUS
<1>2. <<s, Len(ids)>> \in Seq(Nat \cup Names)
  BY <1>1
<1>3. ids \in Seq(Nat \cup Names)
  BY SeqMonotonic
<1>4. <<s, Len(ids)>> \o ids \in Seq(Nat \cup Names)
  BY <1>2, <1>3
<1>5. QED
  BY <1>4 DEF commit, Keccak256, Commitments

\* So is the handle of a proof over a run of slots.
LEMMA HandleCarried ==
  ASSUME PipelineInv, NEW from \in Nat, NEW to \in Nat, from =< to,
         from .. to \subseteq CommittedSlots(log)
  PROVE  ProofHandle(BatchIn(log, from, to)) \in Handles
<1> PICK slots, n : slots = BatchIn(log, from, to) /\ n = to - from + 1
  OBVIOUS
<1>1. /\ DOMAIN slots = 1..n /\ n \in Nat
      /\ \A k \in 1..n :
           /\ slots[k].slot = from + k - 1
           /\ slots[k].intents \in Seq(Names)
           /\ slots[k].commitment = commit(slots[k].slot, slots[k].intents)
  BY BatchEnds
<1>2. \A k \in 1..n : slots[k].commitment \in Commitments
  <2>1. \A k \in 1..n : from + k - 1 \in Nat
    BY <1>1
  <2>2. QED
    BY <1>1, <2>1, CommitmentCarried
<1>3. statement(slots) \in [1..n -> Commitments]
  BY <1>1, <1>2 DEF statement
<1>4. statement(slots) \in Seq(Commitments)
  BY <1>1, <1>3, SeqDef
<1>5. QED
  BY <1>4 DEF ProofHandle, chain, Keccak256, Handles

\* The next slot to commit has a number.
LEMMA NextSlot == PipelineInv => Cardinality(Commits(log)) \in Nat
<1>1. PICK e : e = [kind |-> "Other"]
  OBVIOUS
<1>2. ASSUME PipelineInv PROVE IsFiniteSet(Commits(log))
  <2>1. GrowsBy(log, Append(log, e), e, {"SlotCommitted"})
    BY <1>2, OneMore DEF PipelineInv
  <2>2. QED
    BY <2>1 DEF GrowsBy, Commits
<1>3. QED
  BY <1>2, FS_CardinalityType

\* The two ways to say what a log holds.
LEMMA SameSets ==
  ASSUME NEW r
  PROVE  /\ \A kinds : RM!Of(r, kinds) = Of(r, kinds)
         /\ RM!Commits(r) = Commits(r)
         /\ RM!CommittedSlots(r) = CommittedSlots(r)
         /\ RM!RuledSlots(r) = RuledSlots(r)
         /\ RM!AttestedSlots(r) = AttestedSlots(r)
         /\ RM!JudgedSlots(r) = JudgedSlots(r)
         /\ \A p : RM!Covers(r, p) = Covers(r, p)
<1>1. \A kinds : RM!Of(r, kinds) = Of(r, kinds)
  BY DEF RM!Of, Of
<1>2. \A p : RM!Covers(r, p) = Covers(r, p)
  BY DEF RM!Covers, Covers
<1>3. /\ RM!Commits(r) = Commits(r)
      /\ RM!Rulings(r) = Rulings(r)
      /\ RM!Verdicts(r) = Verdicts(r)
  BY <1>1 DEF RM!Commits, Commits, RM!Rulings, Rulings, RM!Verdicts, Verdicts
<1>4. /\ RM!CommittedSlots(r) = CommittedSlots(r)
      /\ RM!RuledSlots(r) = RuledSlots(r)
      /\ RM!AttestedSlots(r) = AttestedSlots(r)
  BY <1>1, <1>3 DEF RM!CommittedSlots, CommittedSlots, RM!RuledSlots, RuledSlots,
                    RM!AttestedSlots, AttestedSlots
<1>5. RM!JudgedSlots(r) = JudgedSlots(r)
  BY <1>2, <1>3 DEF RM!JudgedSlots, JudgedSlots
<1>6. QED
  BY <1>1, <1>2, <1>3, <1>4, <1>5

\* And what has become of the intents.
LEMMA SameIds ==
  /\ RM!IdsIn(log) = ReceivedIds
  /\ RM!DroppedIn(log) = DroppedIds
  /\ RM!PlacedIn(log) = PlacedIds
<1>1. /\ \A kinds : RM!Of(log, kinds) = Of(log, kinds)
      /\ RM!Commits(log) = Commits(log)
  BY SameSets
<1>2. \A s : RM!ToSet(s) = ToSet(s)
  BY DEF RM!ToSet, ToSet
<1>3. QED
  BY <1>1, <1>2 DEF RM!IdsIn, RM!DroppedIn, RM!PlacedIn, ReceivedIds, Received,
                    DroppedIds, PlacedIds

\* What a stage appends: nothing but what the entries in the log call for.
Fits(e) ==
  /\ RM!Fits(log, e)
  /\ e.kind = "IntentReceived" => MadeFrom(e.intent) /\ e.received_at = 0
  /\ e.kind = "IntentExpired" => e.guarantee_deadline_ms = 0 /\ e.at_ms = 0
  /\ e.kind = "SlotCommitted" =>
       /\ e.committed_at_ms = 0
       /\ e.slot = Cardinality(Commits(log))
       /\ e.intents \in Seq(Names)
       /\ e.commitment = commit(e.slot, e.intents)
  /\ e.kind \in {"SlotAttested", "AttestFailed"} =>
       /\ e.slot = Cardinality(Rulings(log))
       /\ e.slot \in CommittedSlots(log)
  /\ e.kind = "SlotAttested" =>
       LET c == CommittedIn(log, e.slot).commitment
       IN  /\ e.slot \notin failing.slots
           /\ e.quote = encode_quote(e.slot, c, MOCK_MEASUREMENT)
           /\ e.signature = mock_over(c)
  /\ e.kind = "AttestFailed" =>
       e.slot \in failing.slots /\ e.reason \in EnclaveError
  /\ e.kind \in {"SlotsProven", "ProveFailed"} =>
       /\ e.from_slot \in Nat /\ e.to_slot \in Nat /\ e.from_slot =< e.to_slot
       /\ e.from_slot .. e.to_slot \subseteq CommittedSlots(log)
  /\ e.kind = "SlotsProven" =>
       /\ e.proof = ProofHandle(BatchIn(log, e.from_slot, e.to_slot))
       /\ \A range \in failing.ranges : ~ Overlaps(e.from_slot, e.to_slot, range)
  /\ e.kind = "ProveFailed" =>
       /\ e.reason = "Backend"
       /\ \E range \in failing.ranges : Overlaps(e.from_slot, e.to_slot, range)

\* What it carries is what the read model copies.
LEMMA CarriesData ==
  ASSUME PipelineInv, NEW e, Fits(e)
  PROVE  RM!Carries(e, Data)
<1>1. ASSUME NEW s \in Nat, NEW ids \in Seq(Names)
      PROVE  commit(s, ids) \in Commitments
  BY <1>1, CommitmentCarried
<1>2. ASSUME NEW s \in CommittedSlots(log)
      PROVE  /\ s \in Nat
             /\ CommittedIn(log, s).commitment \in Commitments
  BY <1>1, CommittedFields DEF PipelineInv
<1>3. CASE e.kind = "IntentReceived"
  <2>1. e.intent.deadline_ms \in Nat
    BY <1>3, WiringAssumption DEF Fits, MadeFrom, Body
  <2>2. QED
    BY <1>3, <2>1 DEF Fits, Data, RM!Carries
<1>4. CASE e.kind = "IntentExpired"
  BY <1>4 DEF Fits, Data, RM!Carries
<1>5. CASE e.kind = "SlotCommitted"
  <2>1. e.slot \in Nat
    BY <1>5, NextSlot DEF Fits
  <2>2. e.commitment \in Commitments
    BY <1>1, <1>5, <2>1 DEF Fits
  <2>3. QED
    BY <1>5, <2>1, <2>2 DEF Fits, Data, RM!Carries
<1>6. CASE e.kind = "SlotAttested"
  <2>1. PICK s \in Nat, c \in Commitments :
          /\ e.quote = encode_quote(s, c, MOCK_MEASUREMENT)
          /\ e.signature = mock_over(c)
    BY <1>2, <1>6 DEF Fits
  <2>2. e.quote \in Quotes
    BY <2>1 DEF encode_quote, Quotes
  <2>3. e.signature \in Signatures
    BY <2>1 DEF mock_over, Keccak256, Signatures
  <2>4. e.quote \in Data /\ e.signature \in Data
    BY <2>2, <2>3 DEF Data
  <2>5. QED
    BY <1>6, <2>4 DEF RM!Carries, RM!Preconf, RM!Preconfs
<1>7. CASE e.kind = "SlotsProven"
  <2>1. /\ e.from_slot \in Nat /\ e.to_slot \in Nat /\ e.from_slot =< e.to_slot
        /\ e.from_slot .. e.to_slot \subseteq CommittedSlots(log)
        /\ e.proof = ProofHandle(BatchIn(log, e.from_slot, e.to_slot))
    BY <1>7 DEF Fits
  <2>2. PICK from \in Nat, to \in Nat : from = e.from_slot /\ to = e.to_slot
    BY <2>1
  <2>3. e.proof \in Handles
    BY <2>1, <2>2, HandleCarried
  <2>4. e.proof \in Data
    BY <2>3 DEF Data
  <2>5. QED
    BY <1>7, <2>1, <2>4 DEF RM!Carries, RM!ProvenRange, RM!ProvenRanges
<1>8. CASE e.kind = "AttestFailed"
  BY <1>8 DEF Fits, Data, RM!Carries
<1>9. CASE e.kind = "ProveFailed"
  BY <1>9 DEF Fits, Data, RM!Carries, ProveFailure
<1>10. QED
  BY <1>3, <1>4, <1>5, <1>6, <1>7, <1>8, <1>9 DEF Fits, RM!Fits

\* Such an entry keeps the invariant.
LEMMA FittingEntry ==
  ASSUME PipelineInv, NEW e, Fits(e), log' = Append(log, e), UNCHANGED <<failing, folded>>
  PROVE  PipelineInv'
<1> PICK entries, longer : entries = log /\ longer = Append(log, e)
  OBVIOUS
<1>1. entries \in Seq(Range(log))
  BY DEF PipelineInv
<1>2. CommitsInv(longer)
      /\ (e.kind = "SlotCommitted" => e.slot \notin CommittedSlots(log))
  BY <1>1, CommitsInvOn DEF PipelineInv, Fits
<1>3. Numbered(log, Commits(log))
  BY DEF PipelineInv, CommitsInv
<1>4. RulingsInv(longer, failing.slots)
  BY <1>1, <1>2, <1>3, RulingsInvOn DEF PipelineInv, Fits
<1>5. VerdictsInv(longer, failing.ranges)
  BY <1>1, <1>2, <1>3, VerdictsInvOn DEF PipelineInv, Fits
<1>6. longer \in Seq(Range(longer))
  <2>1. log \in Seq(Range(log) \cup {e})
    BY <1>1, SeqMonotonic
  <2>2. longer \in Seq(Range(log) \cup {e})
    BY <2>1
  <2>3. QED
    BY <2>2, OfItsRange
<1>7. \A p \in Of(longer, {"IntentReceived"}) : MadeFrom(longer[p].intent)
  <2>1. GrowsBy(entries, longer, e, {"IntentReceived"})
    BY <1>1, OneMore
  <2>2. QED
    BY <2>1 DEF GrowsBy, PipelineInv, Received, Fits
<1>8. RM!History(longer, Data) /\ folded \in 0..Len(longer)
  <2>1. log \in Seq(Range(log) \cup {e})
    BY <1>1, SeqMonotonic
  <2>2. RM!Carries(e, Data)
    BY CarriesData
  <2>3. RM!History(longer, Data)
    BY <2>1, <2>2, RM!HistoryOn DEF PipelineInv, Fits
  <2>4. Len(longer) = Len(log) + 1 /\ Len(log) \in Nat
    BY <1>1
  <2>5. QED
    BY <2>3, <2>4 DEF PipelineInv
<1>9. QED
  BY <1>2, <1>4, <1>5, <1>6, <1>7, <1>8 DEF PipelineInv, Received

\* The gate's entry names the intent it was made from.
LEMMA AdmissionFits ==
  ASSUME PipelineInv, NEW i \in Bodies, Admit(i)
  PROVE  \E e : Fits(e) /\ log' = Append(log, e) /\ UNCHANGED <<failing, folded>>
<1>1. PICK e : e = [kind |-> "IntentReceived", received_at |-> 0,
                    intent |-> [id |-> id(i), deadline_ms |-> i.deadline_ms,
                                body |-> i]]
  OBVIOUS
<1>2. /\ e.kind = "IntentReceived" /\ e.received_at = 0
      /\ e.intent.id = id(i) /\ MadeFrom(e.intent)
  BY <1>1 DEF MadeFrom
<1>3. RM!Fits(log, e)
  BY <1>2, SameIds DEF RM!Fits, Admit
<1>4. Fits(e)
  BY <1>2, <1>3 DEF Fits
<1>5. QED
  BY <1>1, <1>4 DEF Admit

\* So does a drop.
LEMMA DropFits ==
  ASSUME PipelineInv, Drop
  PROVE  \E e : Fits(e) /\ log' = Append(log, e) /\ UNCHANGED <<failing, folded>>
<1>1. PICK i \in Open :
        log' = Append(log, [kind |-> "IntentExpired", id |-> i,
                            guarantee_deadline_ms |-> 0, at_ms |-> 0])
  BY DEF Drop
<1>2. PICK e : e = [kind |-> "IntentExpired", id |-> i,
                    guarantee_deadline_ms |-> 0, at_ms |-> 0]
  OBVIOUS
<1>3. /\ e.kind = "IntentExpired" /\ e.id = i
      /\ e.guarantee_deadline_ms = 0 /\ e.at_ms = 0
  BY <1>2
<1>4. Fits(e)
  BY <1>1, <1>3, SameIds DEF Fits, RM!Fits, Open
<1>5. QED
  BY <1>1, <1>2, <1>4 DEF Drop

\* What a buffer is laid out as is a list of ids, none twice, of intents that are
\* still to be placed.
LEMMA LaidOut ==
  ASSUME PipelineInv, NEW some \in Buffers, NEW ids \in SetToSeqs(some)
  PROVE  /\ ids \in Seq(Open)
         /\ ids \in Seq(Names)
         /\ \A k, l \in DOMAIN ids : ids[k] = ids[l] => k = l
<1>1. some \subseteq Open /\ Open \subseteq ReceivedIds
  BY DEF Buffers, Open
<1>2. ReceivedIds \subseteq Names
  BY DEF PipelineInv, ReceivedIds, MadeFrom, Names
<1>3. IsFiniteSet(ReceivedIds)
  <2>1. PICK e : e = [kind |-> "Other"]
    OBVIOUS
  <2>2. GrowsBy(log, Append(log, e), e, {"IntentReceived"})
    BY OneMore DEF PipelineInv
  <2>3. IsFiniteSet(Received)
    BY <2>2 DEF GrowsBy, Received
  <2> DEFINE f == [p \in Received |-> log[p].intent.id]
  <2>4. f \in Surjection(Received, ReceivedIds)
    BY DEF Surjection, ReceivedIds
  <2>5. QED
    BY <2>3, <2>4, FS_Surjection
<1>4. Cardinality(some) \in Nat
  BY <1>1, <1>3, FS_Subset, FS_CardinalityType
<1>5. /\ ids \in [1..Cardinality(some) -> some]
      /\ \A k, l \in DOMAIN ids : ids[k] = ids[l] => k = l
  BY DEF SetToSeqs, IsInjective
<1>6. ids \in [1..Cardinality(some) -> Open]
  BY <1>1, <1>5
<1>7. ids \in Seq(Open)
  BY <1>4, <1>6, SeqDef
<1>8. ids \in Seq(Names)
  <2>1. Open \subseteq Names
    BY <1>1, <1>2
  <2>2. QED
    BY <1>7, <2>1, SeqMonotonic
<1>9. QED
  BY <1>5, <1>7, <1>8

\* The sequencer commits to the list it writes.
LEMMA CommitmentFits ==
  ASSUME PipelineInv, CloseSlot
  PROVE  \E e : Fits(e) /\ log' = Append(log, e) /\ UNCHANGED <<failing, folded>>
<1>1. PICK next : next = Cardinality(Commits(log))
  OBVIOUS
<1>2. PICK some \in Buffers : \E ids \in SetToSeqs(some) :
        CloseWith(next, ids, commit(next, ids))
  BY <1>1 DEF CloseSlot
<1>3. PICK ids \in SetToSeqs(some) : CloseWith(next, ids, commit(next, ids))
  BY <1>2
<1>4. PICK e : e = [kind |-> "SlotCommitted", slot |-> next, intents |-> ids,
                    commitment |-> commit(next, ids), committed_at_ms |-> 0]
  OBVIOUS
<1>5. /\ e.kind = "SlotCommitted"
      /\ e.slot = next
      /\ e.intents = ids
      /\ e.commitment = commit(next, ids)
      /\ e.committed_at_ms = 0
  BY <1>4
<1>6. /\ ids \in Seq(Open)
      /\ ids \in Seq(Names)
      /\ \A k, l \in DOMAIN ids : ids[k] = ids[l] => k = l
  BY LaidOut
<1>7. Fits(e)
  <2>1. next \notin CommittedSlots(log)
    <3>1. next \in Nat
      BY <1>1, NextSlot
    <3>2. CommittedSlots(log) = 0..(next - 1)
      BY <1>1 DEF PipelineInv, CommitsInv, Numbered, CommittedSlots
    <3>3. QED
      BY <3>1, <3>2
  <2>2. RM!IdsIn(log) \ (RM!PlacedIn(log) \cup RM!DroppedIn(log)) = Open
    BY SameIds DEF Open
  <2>3. RM!Fits(log, e)
    BY <1>5, <1>6, <2>1, <2>2, SameSets DEF RM!Fits
  <2>4. QED
    BY <1>1, <1>5, <1>6, <2>3 DEF Fits
<1>8. QED
  BY <1>3, <1>4, <1>7 DEF CloseSlot, CloseWith

\* The attester finds the slot's commitment in order, so it is the enclave that
\* decides.
LEMMA RulingFits ==
  ASSUME PipelineInv, Attest
  PROVE  \E e : Fits(e) /\ log' = Append(log, e) /\ UNCHANGED <<failing, folded>>
<1>1. PICK next \in CommittedSlots(log) :
        /\ next = Cardinality(Rulings(log))
        /\ log' = Append(log, RulingOn(Committed(next)))
  BY DEF Attest
<1>2. PICK c : c = Committed(next)
  OBVIOUS
<1>3. /\ c = CommittedIn(log, next)
      /\ c.slot = next
      /\ c.commitment = commit(c.slot, c.intents)
  BY <1>2, OfThisLog, CommittedFields DEF PipelineInv
<1>4. PICK e : e = RulingOn(c)
  OBVIOUS
<1> DEFINE Ruling == e.kind \in {"SlotAttested", "AttestFailed"} /\ e.slot = next
<1>0. Ruling => RM!Fits(log, e)
  <2>1. RuledSlots(log) = 0..(next - 1)
    BY <1>1 DEF PipelineInv, RulingsInv, Numbered, RuledSlots
  <2>2. next \in Nat
    BY CommittedFields DEF PipelineInv
  <2>3. next \notin RuledSlots(log)
    BY <2>1, <2>2
  <2>4. QED
    BY <2>3, SameSets DEF RM!Fits
<1>5. ASSUME next \in failing.slots
      PROVE  Fits(e)
  <2>1. attest(MockEnclave(failing.slots), c.slot, c.intents, c.commitment)
          = [err |-> "Unavailable"]
    BY <1>3, <1>5 DEF attest, MockEnclave
  <2>2. e = [kind |-> "AttestFailed", slot |-> c.slot, reason |-> "Unavailable"]
    BY <1>3, <1>4, <2>1 DEF RulingOn, Succeeded
  <2>3. e.kind = "AttestFailed" /\ e.slot = next /\ e.reason \in EnclaveError
    BY <1>3, <2>2 DEF EnclaveError
  <2>4. QED
    BY <1>0, <1>1, <1>5, <2>3 DEF Fits
<1>6. ASSUME next \notin failing.slots
      PROVE  Fits(e)
  <2> DEFINE ok == [quote |-> encode_quote(c.slot, c.commitment, MOCK_MEASUREMENT),
                    sig |-> mock_over(c.commitment)]
  <2>1. attest(MockEnclave(failing.slots), c.slot, c.intents, c.commitment) = [ok |-> ok]
    BY <1>3, <1>6 DEF attest, MockEnclave
  <2>2. e = [kind |-> "SlotAttested", slot |-> c.slot,
             quote |-> ok.quote, signature |-> ok.sig]
    BY <1>3, <1>4, <2>1 DEF RulingOn, Succeeded
  <2>3. /\ e.kind = "SlotAttested"
        /\ e.slot = next
        /\ e.quote = encode_quote(next, c.commitment, MOCK_MEASUREMENT)
        /\ e.signature = mock_over(c.commitment)
    BY <1>3, <2>2
  <2>4. QED
    BY <1>0, <1>1, <1>3, <1>6, <2>3 DEF Fits
<1>7. Fits(e)
  BY <1>5, <1>6
<1>8. QED
  BY <1>1, <1>2, <1>4, <1>7 DEF Attest

\* The prover hands the backend committed slots, so it is the backend that
\* decides.
LEMMA VerdictFits ==
  ASSUME PipelineInv, Prove
  PROVE  \E e : Fits(e) /\ log' = Append(log, e) /\ UNCHANGED <<failing, folded>>
<1>1. PICK from, to \in Queued :
        /\ from .. to \subseteq Queued
        /\ from =< to
        /\ log' = Append(log, VerdictOn(Batch(from, to)))
  BY DEF Prove
<1>2. Queued \subseteq CommittedSlots(log)
  <2>1. AttestedSlots(log) \subseteq RuledSlots(log)
    BY DEF AttestedSlots, RuledSlots, Rulings, Of
  <2>2. QED
    BY <2>1 DEF Queued, PipelineInv, RulingsInv
<1>3. /\ from \in Nat
      /\ to \in Nat
      /\ from .. to \subseteq CommittedSlots(log)
  BY <1>1, <1>2, CommittedFields DEF PipelineInv
<1>4. PICK slots : slots = BatchIn(log, from, to)
  OBVIOUS
<1>5. slots = Batch(from, to)
  BY <1>4, OfThisLog
<1>6. /\ slots[1].slot = from
      /\ slots[Len(slots)].slot = to
  <2>1. 1 \in 1..(to - from + 1) /\ to - from + 1 \in 1..(to - from + 1)
    BY <1>1, <1>3
  <2>2. /\ slots[1].slot = from + 1 - 1
        /\ Len(slots) = to - from + 1
        /\ slots[to - from + 1].slot = from + (to - from + 1) - 1
    BY <1>1, <1>3, <1>4, <2>1, BatchEnds
  <2>3. from + 1 - 1 = from /\ from + (to - from + 1) - 1 = to
    BY <1>3
  <2>4. QED
    BY <2>2, <2>3
<1>7. PICK e : e = VerdictOn(slots)
  OBVIOUS
<1> DEFINE Verdict == /\ e.kind \in {"SlotsProven", "ProveFailed"}
                      /\ e.from_slot = from /\ e.to_slot = to
<1>0. Verdict => RM!Fits(log, e)
  BY <1>1, SameSets DEF RM!Fits, Queued
<1>8. ASSUME NEW range \in failing.ranges, Overlaps(from, to, range)
      PROVE  Fits(e)
  <2>1. prove(MockProver(failing.ranges), slots) = [err |-> "Backend"]
    BY <1>6, <1>8 DEF prove, MockProver
  <2>2. e = [kind |-> "ProveFailed", from_slot |-> from, to_slot |-> to,
             reason |-> "Backend"]
    BY <1>6, <1>7, <2>1 DEF VerdictOn, Succeeded
  <2>3. /\ e.kind = "ProveFailed"
        /\ e.from_slot = from
        /\ e.to_slot = to
        /\ e.reason = "Backend"
    BY <2>2
  <2>4. QED
    BY <1>0, <1>1, <1>3, <1>8, <2>3 DEF Fits
<1>9. ASSUME \A range \in failing.ranges : ~ Overlaps(from, to, range)
      PROVE  Fits(e)
  <2>1. prove(MockProver(failing.ranges), slots) = [ok |-> ProofHandle(slots)]
    BY <1>6, <1>9 DEF prove, MockProver
  <2>2. e = [kind |-> "SlotsProven", from_slot |-> from, to_slot |-> to,
             proof |-> ProofHandle(slots)]
    BY <1>6, <1>7, <2>1 DEF VerdictOn, Succeeded
  <2>3. /\ e.kind = "SlotsProven"
        /\ e.from_slot = from
        /\ e.to_slot = to
        /\ e.proof = ProofHandle(slots)
    BY <2>2
  <2>4. QED
    BY <1>0, <1>1, <1>3, <1>4, <1>9, <2>3 DEF Fits
<1>10. QED
  BY <1>1, <1>5, <1>7, <1>8, <1>9 DEF Prove

\* The invariant in every step.
LEMMA PipelineInvKeeps ==
  ASSUME PipelineInv, [Next]_vars
  PROVE  PipelineInv'
<1>1. ASSUME UNCHANGED <<log, failing>>, folded' \in 0..Len(log)
      PROVE  PipelineInv'
  BY <1>1 DEF PipelineInv, Received
<1>2. CASE Project \/ Crash \/ UNCHANGED vars
  <2>1. Len(log) \in Nat
    BY DEF PipelineInv
  <2>2. folded' \in 0..Len(log)
    BY <1>2, <2>1 DEF Project, Crash, vars, PipelineInv
  <2>3. QED
    BY <1>1, <1>2, <2>2 DEF Project, Crash, vars
<1>3. CASE \E e : Fits(e) /\ log' = Append(log, e) /\ UNCHANGED <<failing, folded>>
  BY <1>3, FittingEntry
<1>4. ASSUME NEW i \in Bodies, Admit(i)
      PROVE  PipelineInv'
  BY <1>3, <1>4, AdmissionFits
<1>5. CASE Drop
  BY <1>3, <1>5, DropFits
<1>6. CASE CloseSlot
  BY <1>3, <1>6, CommitmentFits
<1>7. CASE Attest
  BY <1>3, <1>7, RulingFits
<1>8. CASE Prove
  BY <1>3, <1>8, VerdictFits
<1>9. QED
  BY <1>2, <1>4, <1>5, <1>6, <1>7, <1>8 DEF Next

\* It holds throughout.
LEMMA PipelineInvHolds == Spec => []PipelineInv
<1>1. Init => PipelineInv
  <2> SUFFICES ASSUME Init PROVE PipelineInv
    OBVIOUS
  <2>1. log = <<>> /\ failing \in Faults
    BY DEF Init
  <2>2. \A kinds : Of(log, kinds) = {}
    BY <2>1 DEF Of
  <2>3. Commits(log) = {} /\ Rulings(log) = {} /\ Verdicts(log) = {} /\ Received = {}
    BY <2>2 DEF Commits, Rulings, Verdicts, Received
  <2>4. Numbered(log, {})
    BY FS_EmptySet DEF Numbered
  <2>5. CommitsInv(log)
    BY <2>3, <2>4 DEF CommitsInv
  <2>6. RulingsInv(log, failing.slots)
    BY <2>2, <2>3, <2>4 DEF RulingsInv, RuledSlots
  <2>7. VerdictsInv(log, failing.ranges)
    BY <2>3 DEF VerdictsInv
  <2>8. log \in Seq(Range(log))
    BY <2>1
  <2>9. RM!History(log, Data) /\ folded \in 0..Len(log)
    BY <2>1 DEF RM!History, Init
  <2>10. QED
    BY <2>1, <2>3, <2>5, <2>6, <2>7, <2>8, <2>9 DEF PipelineInv
<1>2. QED
  BY <1>1, PipelineInvKeeps, PTL DEF Spec

-----------------------------------------------------------------------------
(* What the evidence in the log says.                                      *)

\* Overlaps is that a batch and a range have a slot in common.
LEMMA OverlapsMeet ==
  ASSUME NEW from \in Nat, NEW to \in Nat, from =< to,
         NEW a \in Nat, NEW b \in Nat, a =< b
  PROVE  Overlaps(from, to, <<a, b>>) <=> (a .. b) \cap (from .. to) # {}
<1>1. Overlaps(from, to, <<a, b>>) <=> from =< b /\ to >= a
  BY DEF Overlaps
<1>2. ASSUME from =< b, to >= a
      PROVE  (a .. b) \cap (from .. to) # {}
  <2>1. CASE a =< from
    BY <1>2, <2>1
  <2>2. CASE from < a
    BY <1>2, <2>2
  <2>3. QED
    BY <2>1, <2>2
<1>3. ASSUME (a .. b) \cap (from .. to) # {}
      PROVE  from =< b /\ to >= a
  BY <1>3
<1>4. QED
  BY <1>1, <1>2, <1>3

\* What is in the log failed because it was set up to.
LEMMA InjectedOnly == PipelineInv => FailuresAreInjected
<1> SUFFICES ASSUME PipelineInv PROVE FailuresAreInjected
  OBVIOUS
<1>1. /\ \A p \in Of(log, {"SlotAttested"}) : log[p].slot \notin failing.slots
      /\ \A p \in Of(log, {"AttestFailed"}) :
           log[p].slot \in failing.slots /\ log[p].reason \in EnclaveError
  BY DEF PipelineInv, RulingsInv
<1>2. ASSUME NEW p \in Rulings(log)
      PROVE  log[p].kind = "AttestFailed" <=> log[p].slot \in failing.slots
  <2>1. \/ log[p].kind = "SlotAttested" /\ p \in Of(log, {"SlotAttested"})
        \/ log[p].kind = "AttestFailed" /\ p \in Of(log, {"AttestFailed"})
    BY DEF Rulings, Of
  <2>2. QED
    BY <1>1, <2>1
<1>3. ASSUME NEW p \in Verdicts(log)
      PROVE  /\ log[p].kind = "ProveFailed" => log[p].reason \in ProveFailure
             /\ log[p].kind = "ProveFailed" <=>
                  \E range \in failing.ranges :
                    (range[1] .. range[2]) \cap Covers(log, p) # {}
  <2> DEFINE from == log[p].from_slot
             to == log[p].to_slot
  <2>1. /\ from \in Nat /\ to \in Nat /\ from =< to
        /\ log[p].kind = "SlotsProven" =>
             \A range \in failing.ranges : ~ Overlaps(from, to, range)
        /\ log[p].kind = "ProveFailed" =>
             /\ log[p].reason = "Backend"
             /\ \E range \in failing.ranges : Overlaps(from, to, range)
    BY DEF PipelineInv, VerdictsInv
  <2>2. ASSUME NEW range \in failing.ranges
        PROVE  Overlaps(from, to, range)
                 <=> (range[1] .. range[2]) \cap Covers(log, p) # {}
    <3>1. /\ range \in Nat \X Nat
          /\ range[1] =< range[2]
      BY WiringAssumption DEF PipelineInv, fail_slots
    <3>2. PICK a \in Nat, b \in Nat : range = <<a, b>>
      BY <3>1
    <3>3. a =< b /\ range[1] = a /\ range[2] = b
      BY <3>1, <3>2
    <3> HIDE DEF from, to
    <3>4. Overlaps(from, to, <<a, b>>) <=> (a .. b) \cap (from .. to) # {}
      BY <2>1, <3>3, OverlapsMeet
    <3>5. Covers(log, p) = from .. to
      BY DEF Covers, from, to
    <3>6. QED
      BY <3>2, <3>3, <3>4, <3>5
  <2>3. log[p].kind \in {"SlotsProven", "ProveFailed"}
    BY DEF Verdicts, Of
  <2>4. "Backend" \in ProveFailure
    BY DEF ProveFailure
  <2> HIDE DEF from, to
  <2>5. QED
    BY <2>1, <2>2, <2>3, <2>4
<1>4. \A p \in Of(log, {"ProveFailed"}) :
        p \in Verdicts(log) /\ log[p].kind = "ProveFailed"
  BY DEF Of, Verdicts
<1>5. QED
  BY <1>1, <1>2, <1>3, <1>4 DEF FailuresAreInjected

\* No stage finds fault with what another wrote: the sequencer's commitment is
\* always of its contents (sequencer.rs:226), so neither the attester's check
\* (attest.rs:225-230) nor the enclave's (attest.rs:338-343) refuses a slot, and a
\* batch fails exactly when it meets a range (prove/mod.rs:318).
THEOREM OnlyInjected == Spec => []FailuresAreInjected
BY InjectedOnly, PipelineInvHolds, PTL

\* A run begins with its first slot, under the commitment of what is in it.
LEMMA RunStart ==
  ASSUME PipelineInv, NEW from \in Nat, NEW to \in Nat, from =< to,
         from .. to \subseteq CommittedSlots(log)
  PROVE  /\ DOMAIN BatchIn(log, from, to) = 1..(to - from + 1)
         /\ \E a \in Seq(Names) :
              BatchIn(log, from, to)[1].commitment = commit(from, a)
<1> PICK slots : slots = BatchIn(log, from, to)
  OBVIOUS
<1>1. /\ DOMAIN slots = 1..(to - from + 1)
      /\ \A k \in 1..(to - from + 1) :
           /\ slots[k].slot = from + k - 1
           /\ slots[k].intents \in Seq(Names)
           /\ slots[k].commitment = commit(slots[k].slot, slots[k].intents)
  BY BatchEnds
<1>2. 1 \in 1..(to - from + 1) /\ from + 1 - 1 = from
  OBVIOUS
<1>3. /\ slots[1].slot = from
      /\ slots[1].intents \in Seq(Names)
      /\ slots[1].commitment = commit(slots[1].slot, slots[1].intents)
  <2>1. slots[1].slot = from + 1 - 1
    BY <1>1, <1>2
  <2>2. QED
    BY <1>1, <1>2, <2>1
<1>4. QED
  BY <1>1, <1>3

\* The statement of a run of slots tells which slots they are.
LEMMA StatementNamesRun ==
  ASSUME PipelineInv,
         NEW from \in Nat, NEW to \in Nat, from =< to,
         NEW first \in Nat, NEW last \in Nat, first =< last,
         from .. to \subseteq CommittedSlots(log),
         first .. last \subseteq CommittedSlots(log),
         statement(BatchIn(log, from, to)) = statement(BatchIn(log, first, last))
  PROVE  from = first /\ to = last
<1> PICK slots, others :
      slots = BatchIn(log, from, to) /\ others = BatchIn(log, first, last)
  OBVIOUS
<1> PICK m, n : m = to - from + 1 /\ n = last - first + 1
  OBVIOUS
<1>1. m \in Nat /\ n \in Nat /\ 1 \in 1..m /\ 1 \in 1..n
  OBVIOUS
<1>2. /\ DOMAIN slots = 1..m
      /\ \E a \in Seq(Names) : slots[1].commitment = commit(from, a)
  BY RunStart
<1>3. /\ DOMAIN others = 1..n
      /\ \E a \in Seq(Names) : others[1].commitment = commit(first, a)
  BY RunStart
<1>4. statement(slots) = statement(others)
  OBVIOUS
<1>5. 1..m = 1..n
  BY <1>2, <1>3, <1>4 DEF statement
<1>6. m = n
  <2>1. m \in 1..n /\ n \in 1..m
    BY <1>1, <1>5
  <2>2. QED
    BY <1>1, <2>1
<1>7. slots[1].commitment = others[1].commitment
  BY <1>1, <1>2, <1>3, <1>4 DEF statement
<1>8. PICK a, b \in Seq(Names) : commit(from, a) = commit(first, b)
  BY <1>2, <1>3, <1>7
<1>9. from = first
  BY <1>8, CommitmentBinds
<1>10. QED
  BY <1>6, <1>9

\* A list cut short is shorter by one.
LEMMA FrontIsShorter ==
  ASSUME NEW S, NEW s \in Seq(S), Len(s) > 0
  PROVE  Len(Front(s)) = Len(s) - 1
<1>1. Len(s) \in Nat /\ \A k \in 1..(Len(s) - 1) : s[k] \in S
  OBVIOUS
<1>2. 1 \in Int /\ Len(s) - 1 \in Int
  BY <1>1
<1>3. Len(SubSeq(s, 1, Len(s) - 1)) = IF 1 <= Len(s) - 1 THEN Len(s) - 1 - 1 + 1 ELSE 0
  BY <1>1, <1>2, SubSeqProperties
<1>4. Front(s) = SubSeq(s, 1, Len(s) - 1)
  BY DEF Front
<1>5. Len(Front(s)) = IF 1 <= Len(s) - 1 THEN Len(s) - 1 - 1 + 1 ELSE 0
  BY <1>3, <1>4
<1>6. PICK n, m : n = Len(s) /\ m = Len(Front(s))
  OBVIOUS
<1>7. n \in Nat /\ n > 0 /\ m = IF 1 <= n - 1 THEN n - 1 - 1 + 1 ELSE 0
  BY <1>1, <1>5, <1>6
<1>8. m = n - 1
  BY <1>7
<1>9. QED
  BY <1>6, <1>8

\* A list differs from itself cut short, and from itself with more at the end.
LEMMA CutOrLonger ==
  ASSUME NEW S, NEW s \in Seq(S), NEW x
  PROVE  /\ Append(s, x) \in Seq(S \cup {x})
         /\ Append(s, x) # s
         /\ s \o <<x>> # s
         /\ Len(s) > 0 => Front(s) # s
<1>1. s \in Seq(S \cup {x}) /\ <<x>> \in Seq(S \cup {x}) /\ Len(s) \in Nat
  BY SeqMonotonic
<1>2. Len(Append(s, x)) = Len(s) + 1 /\ Len(s \o <<x>>) = Len(s) + 1
  BY <1>1
<1>3. Len(s) > 0 => Len(Front(s)) = Len(s) - 1
  BY FrontIsShorter
<1>4. Append(s, x) \in Seq(S \cup {x})
  BY <1>1
<1>5. QED
  BY <1>1, <1>2, <1>3, <1>4

\* Proofs in the log check for their own slots and nothing else.
LEMMA ProofsOfTheirs == PipelineInv => ProofsAreOfTheirSlots
<1> SUFFICES ASSUME PipelineInv, NEW p \in Of(log, {"SlotsProven"})
             PROVE  LET handle == log[p].proof
                        own == Batch(log[p].from_slot, log[p].to_slot)
                        answer ==
                          [WrongVerifyingKey |->
                             verify([handle EXCEPT !.vkey_hash = "bb"], own),
                           WrongStatement |->
                             verify([handle EXCEPT !.public_inputs = Front(@)], own),
                           Invalid |->
                             verify([handle EXCEPT !.proof =
                                       Keccak256(statement(own) \o <<0>>)], own)]
                    IN  /\ \A e \in VerifyFailure \ {"WrongBackend", "Malformed"} :
                             answer[e] = e
                        /\ \A from, to \in CommittedSlots(log) : from =< to =>
                             ( verify(handle, Batch(from, to)) = "Ok"
                                 <=> from = log[p].from_slot /\ to = log[p].to_slot )
  BY DEF ProofsAreOfTheirSlots
<1> PICK from, to, handle, own :
      /\ from = log[p].from_slot
      /\ to = log[p].to_slot
      /\ handle = log[p].proof
      /\ own = Batch(from, to)
  OBVIOUS
<1>1. /\ from \in Nat /\ to \in Nat /\ from =< to
      /\ from .. to \subseteq CommittedSlots(log)
      /\ handle = ProofHandle(own)
      /\ own = BatchIn(log, from, to)
  <2>1. p \in Verdicts(log) /\ log[p].kind = "SlotsProven"
    BY DEF Of, Verdicts
  <2>2. QED
    BY <2>1, OfThisLog DEF PipelineInv, VerdictsInv
<1> PICK said : said = statement(own)
  OBVIOUS
<1>2. /\ handle = [backend |-> "mock", proof |-> Keccak256(said),
                   public_inputs |-> said, vkey_hash |-> "aa"]
      /\ chain(own) = Keccak256(said)
  BY <1>1 DEF ProofHandle, chain, MOCK_VKEY_HASH
<1>3. said \in Seq(Range(said)) /\ Len(said) > 0
  <2> PICK n : n = to - from + 1
    OBVIOUS
  <2>1. n \in Nat /\ n > 0
    BY <1>1
  <2>2. DOMAIN own = 1..n
    BY <1>1, BatchEnds
  <2>3. said = [k \in 1..n |-> own[k].commitment]
    BY <2>2 DEF statement
  <2>4. said \in [1..n -> Range(said)]
    BY <2>3 DEF Range
  <2>5. said \in Seq(Range(said))
    BY <2>1, <2>4, SeqDef
  <2>6. Len(said) = n
    BY <2>1, <2>3
  <2>7. QED
    BY <2>1, <2>5, <2>6
<1>4. verify([handle EXCEPT !.vkey_hash = "bb"], own) = "WrongVerifyingKey"
  BY <1>2 DEF verify, MOCK_VKEY_HASH
<1>5. verify([handle EXCEPT !.public_inputs = Front(@)], own) = "WrongStatement"
  <2>1. Front(said) # said
    BY <1>3, CutOrLonger
  <2>2. [handle EXCEPT !.public_inputs = Front(@)]
          = [backend |-> "mock", proof |-> Keccak256(said),
             public_inputs |-> Front(said), vkey_hash |-> "aa"]
    BY <1>2
  <2>3. QED
    BY <2>1, <2>2 DEF verify, MOCK_VKEY_HASH
<1>6. verify([handle EXCEPT !.proof = Keccak256(statement(own) \o <<0>>)], own)
        = "Invalid"
  <2>1. said \o <<0>> # said
    BY <1>3, CutOrLonger
  <2>2. Keccak256(said \o <<0>>) # Keccak256(said)
    BY <2>1 DEF Keccak256
  <2>3. [handle EXCEPT !.proof = Keccak256(said \o <<0>>)]
          = [backend |-> "mock", proof |-> Keccak256(said \o <<0>>),
             public_inputs |-> said, vkey_hash |-> "aa"]
    BY <1>2
  <2>4. QED
    BY <1>2, <2>2, <2>3 DEF verify, MOCK_VKEY_HASH
<1>7. VerifyFailure \ {"WrongBackend", "Malformed"}
        = {"WrongVerifyingKey", "WrongStatement", "Invalid"}
  BY DEF VerifyFailure
<1>8. ASSUME NEW first \in CommittedSlots(log), NEW last \in CommittedSlots(log),
             first =< last
      PROVE  verify(handle, Batch(first, last)) = "Ok" <=> first = from /\ last = to
  <2>1. first = from /\ last = to => verify(handle, Batch(first, last)) = "Ok"
    BY <1>2 DEF verify, MOCK_VKEY_HASH
  <2>2. ASSUME verify(handle, Batch(first, last)) = "Ok"
        PROVE  first = from /\ last = to
    <3>1. said = statement(BatchIn(log, first, last))
      BY <1>2, <2>2, OfThisLog DEF verify
    <3>2. CommittedSlots(log) = 0..(Cardinality(Commits(log)) - 1)
      BY DEF PipelineInv, CommitsInv, Numbered, CommittedSlots
    <3>3. first \in Nat /\ last \in Nat /\ first .. last \subseteq CommittedSlots(log)
      <4>1. first \in Nat /\ last \in Nat
        BY CommittedFields DEF PipelineInv
      <4>2. \A s \in first .. last : s \in 0..(Cardinality(Commits(log)) - 1)
        <5> PICK c : c = Cardinality(Commits(log)) - 1
          OBVIOUS
        <5>1. first \in 0..c /\ last \in 0..c
          BY <3>2
        <5>2. QED
          BY <4>1, <5>1
      <4>3. QED
        BY <3>2, <4>1, <4>2
    <3>4. QED
      BY <1>1, <1>8, <3>1, <3>3, StatementNamesRun
  <2>3. QED
    BY <2>1, <2>2
<1>9. QED
  BY <1>4, <1>5, <1>6, <1>7, <1>8

\* A proof in the log checks for the slots of its range and for no others, and
\* not with a field changed (prove/mod.rs:327-351): the slots of the log are
\* numbered without repetition and each commitment binds its number, so two
\* ranges never have one statement.
THEOREM ProofsOwn == Spec => []ProofsAreOfTheirSlots
BY ProofsOfTheirs, PipelineInvHolds, PTL


\* Other contents of a slot are under another commitment.
LEMMA ContentsBound ==
  ASSUME NEW Y, NEW slot \in Nat, NEW a \in Seq(Y), NEW b \in Seq(Y), a # b
  PROVE  commit(slot, a) # commit(slot, b)
BY CommitmentBinds

\* A quote cut short is none.
LEMMA CutQuote ==
  ASSUME NEW slot, NEW commitment, NEW measurement
  PROVE  ~ WellFormed(Front(encode_quote(slot, commitment, measurement)))
<1> PICK quote : quote = encode_quote(slot, commitment, measurement)
  OBVIOUS
<1> PICK S : S = {"MOCKQUOTE", 1, slot, commitment, measurement}
  OBVIOUS
<1>1. quote \in Seq(S) /\ Len(quote) = 5
  BY DEF encode_quote
<1>2. Len(quote) > 0
  BY <1>1
<1>3. Len(Front(quote)) = Len(quote) - 1
  BY <1>1, <1>2, FrontIsShorter
<1>4. Len(Front(quote)) # 5
  BY <1>1, <1>3
<1>5. QED
  BY <1>4 DEF WellFormed

\* What is answered to each change of the evidence of slot s, with contents a under
\* commitment c: quote cut short, quote or signature (over d) of another slot, other
\* contents, the commitment of other contents, another build pinned.
TellsWhatIsWrong(s, a, c, quote, other, d, more) ==
  /\ verify_preconf(MOCK_MEASUREMENT,
       PreconfClaim(s, c, Front(quote), mock_over(c)), a) = "MalformedQuote"
  /\ verify_preconf(MOCK_MEASUREMENT,
       PreconfClaim(s, c, other, mock_over(c)), a) = "SlotMismatch"
  /\ verify_preconf(MOCK_MEASUREMENT,
       PreconfClaim(s, c, quote, mock_over(d)), a) = "BadSignature"
  /\ verify_preconf(MOCK_MEASUREMENT,
       PreconfClaim(s, c, quote, mock_over(c)), more) = "ContentsMismatch"
  /\ verify_preconf(MOCK_MEASUREMENT,
       PreconfClaim(s, commit(s, more), quote, mock_over(c)), more)
       = "CommitmentMismatch"
  /\ verify_preconf("another build",
       PreconfClaim(s, c, quote, mock_over(c)), a) = "UntrustedMeasurement"

\* So it is for two slots of different numbers, whatever is in them.
LEMMA TamperedPreconf ==
  ASSUME NEW X, NEW s \in Nat, NEW t \in Nat, s # t,
         NEW a \in Seq(X), NEW b \in Seq(X), NEW x,
         NEW c, c = commit(s, a), NEW d, d = commit(t, b)
  PROVE  TellsWhatIsWrong(s, a, c, encode_quote(s, c, MOCK_MEASUREMENT),
                          encode_quote(t, d, MOCK_MEASUREMENT), d, Append(a, x))
<1> PICK quote, other :
      /\ quote = encode_quote(s, c, MOCK_MEASUREMENT)
      /\ other = encode_quote(t, d, MOCK_MEASUREMENT)
  OBVIOUS
<1> PICK more, e : more = Append(a, x) /\ e = commit(s, more)
  OBVIOUS
<1>1. c # d
  BY CommitmentBinds
<1>2. c # e
  <2>1. more \in Seq(X \cup {x}) /\ more # a
    BY CutOrLonger
  <2>2. a \in Seq(X \cup {x})
    BY SeqMonotonic
  <2>3. commit(s, a) # commit(s, more)
    BY <2>1, <2>2, ContentsBound
  <2>4. QED
    BY <2>3
<1>3. mock_over(c) # mock_over(d)
  <2>1. ASSUME mock_over(c) = mock_over(d)
        PROVE  FALSE
    <3>1. <<"MOCKSIG", c>> = <<"MOCKSIG", d>>
      BY <2>1 DEF mock_over, Keccak256
    <3>2. <<"MOCKSIG", c>>[2] = <<"MOCKSIG", d>>[2]
      BY <3>1
    <3>3. QED
      BY <1>1, <3>2
  <2>2. QED
    BY <2>1
<1>4. ~ WellFormed(Front(quote))
  BY CutQuote
<1>5. WellFormed(quote) /\ WellFormed(other)
  BY DEF WellFormed, encode_quote
<1>6. /\ decode_quote(quote).slot = s
      /\ decode_quote(quote).commitment = c
      /\ decode_quote(quote).measurement = MOCK_MEASUREMENT
      /\ decode_quote(other).slot = t
  BY DEF decode_quote, encode_quote
<1>7. "another build" # MOCK_MEASUREMENT
  BY DEF MOCK_MEASUREMENT
<1>8. \A pinned, commitment, shown, signature, intents :
        verify_preconf(pinned, PreconfClaim(s, commitment, shown, signature), intents)
          = IF commit(s, intents) # commitment THEN "ContentsMismatch"
            ELSE IF ~ WellFormed(shown) THEN "MalformedQuote"
            ELSE IF decode_quote(shown).slot # s THEN "SlotMismatch"
            ELSE IF decode_quote(shown).commitment # commitment
                 THEN "CommitmentMismatch"
            ELSE IF decode_quote(shown).measurement # pinned
                 THEN "UntrustedMeasurement"
            ELSE IF signature # mock_over(decode_quote(shown).commitment)
                 THEN "BadSignature"
            ELSE "Ok"
  BY DEF verify_preconf, PreconfClaim, trusts, signature_is_valid
<1>9. verify_preconf(MOCK_MEASUREMENT,
        PreconfClaim(s, c, Front(quote), mock_over(c)), a) = "MalformedQuote"
  BY <1>4, <1>8
<1>10. verify_preconf(MOCK_MEASUREMENT,
         PreconfClaim(s, c, other, mock_over(c)), a) = "SlotMismatch"
  BY <1>5, <1>6, <1>8
<1>11. verify_preconf(MOCK_MEASUREMENT,
         PreconfClaim(s, c, quote, mock_over(d)), a) = "BadSignature"
  BY <1>3, <1>5, <1>6, <1>8
<1>12. verify_preconf(MOCK_MEASUREMENT,
         PreconfClaim(s, c, quote, mock_over(c)), more) = "ContentsMismatch"
  BY <1>2, <1>8
<1>13. verify_preconf(MOCK_MEASUREMENT,
         PreconfClaim(s, e, quote, mock_over(c)), more) = "CommitmentMismatch"
  BY <1>2, <1>5, <1>6, <1>8
<1>14. verify_preconf("another build",
         PreconfClaim(s, c, quote, mock_over(c)), a) = "UntrustedMeasurement"
  <2>1. PICK pinned : pinned = "another build"
    OBVIOUS
  <2>2. decode_quote(quote).measurement # pinned
    BY <1>6, <1>7, <2>1
  <2>3. verify_preconf(pinned, PreconfClaim(s, c, quote, mock_over(c)), a)
          = "UntrustedMeasurement"
    BY <1>5, <1>6, <1>8, <2>2
  <2>4. QED
    BY <2>1, <2>3
<1>15. QED
  BY <1>9, <1>10, <1>11, <1>12, <1>13, <1>14 DEF TellsWhatIsWrong


\* The evidence for two slots of the log is of two numbers.
LEMMA SignedFields ==
  ASSUME PipelineInv, NEW p \in Signed
  PROVE  LET s == log[p].slot
             own == CommittedIn(log, s)
         IN  /\ s \in Nat
             /\ own.slot = s
             /\ own.intents \in Seq(Names)
             /\ own.commitment = commit(s, own.intents)
             /\ log[p].quote = encode_quote(s, own.commitment, MOCK_MEASUREMENT)
             /\ log[p].signature = mock_over(own.commitment)
<1>1. p \in Rulings(log)
  BY DEF Signed, Rulings, Of
<1>2. log[p].slot \in CommittedSlots(log)
  BY <1>1 DEF PipelineInv, RulingsInv, RuledSlots
<1>3. QED
  BY <1>2, CommittedFields DEF PipelineInv, RulingsInv, Signed

\* The answers MixedEvidenceIsRejected is about, for the claim on slot own and quote
\* and signature of another.
Answers(own, claim, quote, signature, more) ==
  [MalformedQuote |->
     verify_preconf(MOCK_MEASUREMENT, [claim EXCEPT !.quote = Front(@)], own.intents),
   SlotMismatch |->
     verify_preconf(MOCK_MEASUREMENT, [claim EXCEPT !.quote = quote], own.intents),
   BadSignature |->
     verify_preconf(MOCK_MEASUREMENT, [claim EXCEPT !.signature = signature],
                    own.intents),
   ContentsMismatch |-> verify_preconf(MOCK_MEASUREMENT, claim, more),
   CommitmentMismatch |->
     verify_preconf(MOCK_MEASUREMENT,
                    [claim EXCEPT !.commitment = commit(own.slot, more)], more),
   UntrustedMeasurement |-> verify_preconf("another build", claim, own.intents)]

EachItsOwn(answer) == \A e \in VerifyError : answer[e] = e

\* They are the errors that name what is wrong.
LEMMA AnswersTell ==
  ASSUME NEW own, NEW s, s = own.slot, NEW a, a = own.intents,
         NEW c, NEW quote, NEW other, NEW d, NEW more,
         TellsWhatIsWrong(s, a, c, quote, other, d, more)
  PROVE  EachItsOwn(Answers(own, PreconfClaim(s, c, quote, mock_over(c)),
                            other, mock_over(d), more))
<1> PICK claim, signature :
      /\ claim = PreconfClaim(s, c, quote, mock_over(c))
      /\ signature = mock_over(d)
  OBVIOUS
<1> PICK cut, quoted, signed, renamed :
      /\ cut = [claim EXCEPT !.quote = Front(@)]
      /\ quoted = [claim EXCEPT !.quote = other]
      /\ signed = [claim EXCEPT !.signature = signature]
      /\ renamed = [claim EXCEPT !.commitment = commit(s, more)]
  OBVIOUS
<1>1. cut = PreconfClaim(s, c, Front(quote), mock_over(c))
  BY DEF PreconfClaim
<1>2. quoted = PreconfClaim(s, c, other, mock_over(c))
  BY DEF PreconfClaim
<1>3. signed = PreconfClaim(s, c, quote, mock_over(d))
  BY DEF PreconfClaim
<1>4. renamed = PreconfClaim(s, commit(s, more), quote, mock_over(c))
  BY DEF PreconfClaim
<1>5. /\ verify_preconf(MOCK_MEASUREMENT, cut, a) = "MalformedQuote"
      /\ verify_preconf(MOCK_MEASUREMENT, quoted, a) = "SlotMismatch"
      /\ verify_preconf(MOCK_MEASUREMENT, signed, a) = "BadSignature"
      /\ verify_preconf(MOCK_MEASUREMENT, claim, more) = "ContentsMismatch"
      /\ verify_preconf(MOCK_MEASUREMENT, renamed, more) = "CommitmentMismatch"
      /\ verify_preconf("another build", claim, a) = "UntrustedMeasurement"
  BY <1>1, <1>2, <1>3, <1>4 DEF TellsWhatIsWrong
<1>6. Answers(own, claim, other, signature, more)
        = [MalformedQuote |-> verify_preconf(MOCK_MEASUREMENT, cut, a),
           SlotMismatch |-> verify_preconf(MOCK_MEASUREMENT, quoted, a),
           BadSignature |-> verify_preconf(MOCK_MEASUREMENT, signed, a),
           ContentsMismatch |-> verify_preconf(MOCK_MEASUREMENT, claim, more),
           CommitmentMismatch |-> verify_preconf(MOCK_MEASUREMENT, renamed, more),
           UntrustedMeasurement |-> verify_preconf("another build", claim, a)]
  BY DEF Answers
<1> PICK answer :
      answer = [MalformedQuote |-> "MalformedQuote",
                SlotMismatch |-> "SlotMismatch",
                BadSignature |-> "BadSignature",
                ContentsMismatch |-> "ContentsMismatch",
                CommitmentMismatch |-> "CommitmentMismatch",
                UntrustedMeasurement |-> "UntrustedMeasurement"]
  OBVIOUS
<1>7. Answers(own, claim, other, signature, more) = answer
  BY <1>5, <1>6
<1>8. EachItsOwn(answer)
  BY DEF EachItsOwn, VerifyError
<1>9. QED
  BY <1>7, <1>8

\* Put together from two slots, or looked at by somebody else, evidence is refused
\* for what is wrong with it.
LEMMA MixedRejected == PipelineInv => MixedEvidenceIsRejected
<1> SUFFICES ASSUME PipelineInv, NEW p \in Signed, NEW q \in Signed \ {p}
             PROVE  EachItsOwn(Answers(
                      Committed(log[p].slot),
                      PreconfClaim(Committed(log[p].slot).slot,
                                   Committed(log[p].slot).commitment,
                                   log[p].quote, log[p].signature),
                      log[q].quote, log[q].signature,
                      Append(Committed(log[p].slot).intents,
                             id(CHOOSE i \in Bodies : TRUE))))
  BY DEF MixedEvidenceIsRejected, Answers, EachItsOwn
<1> PICK own, more :
      /\ own = Committed(log[p].slot)
      /\ more = Append(own.intents, id(CHOOSE i \in Bodies : TRUE))
  OBVIOUS
<1> PICK s, a, c, x :
      /\ s = own.slot
      /\ a = own.intents
      /\ c = own.commitment
      /\ x = id(CHOOSE i \in Bodies : TRUE)
  OBVIOUS
<1> PICK t, b, d :
      /\ t = log[q].slot
      /\ b = CommittedIn(log, t).intents
      /\ d = CommittedIn(log, t).commitment
  OBVIOUS
<1> PICK quote, other :
      /\ quote = encode_quote(s, c, MOCK_MEASUREMENT)
      /\ other = encode_quote(t, d, MOCK_MEASUREMENT)
  OBVIOUS
<1>1. /\ s \in Nat /\ s = log[p].slot
      /\ a \in Seq(Names)
      /\ c = commit(s, a)
      /\ log[p].quote = quote
      /\ log[p].signature = mock_over(c)
  BY SignedFields, OfThisLog
<1>2. /\ t \in Nat
      /\ b \in Seq(Names)
      /\ d = commit(t, b)
      /\ log[q].quote = other
      /\ log[q].signature = mock_over(d)
  BY SignedFields
<1>3. s # t
  <2>1. p \in Rulings(log) /\ q \in Rulings(log) /\ p # q
    BY DEF Signed, Rulings, Of
  <2>2. QED
    BY <1>1, <2>1 DEF PipelineInv, RulingsInv, Numbered
<1>4. TellsWhatIsWrong(s, a, c, quote, other, d, more)
  <2>1. TellsWhatIsWrong(s, a, c, quote, other, d, Append(a, x))
    BY <1>1, <1>2, <1>3, TamperedPreconf
  <2>2. QED
    BY <2>1
<1>5. EachItsOwn(Answers(own, PreconfClaim(s, c, quote, mock_over(c)),
                         other, mock_over(d), more))
  BY <1>4, AnswersTell, ZenonT(30)
<1>6. QED
  BY <1>1, <1>2, <1>5

\* Evidence put together from two slots is refused, and for what is wrong with it
\* (attest.rs:127-153): no slot is ruled on twice and each ruling carries the
\* commitment of its own slot, so quotes and signatures of two rulings never
\* pass for one another.
THEOREM MixedRefused == Spec => []MixedEvidenceIsRejected
BY MixedRejected, PipelineInvHolds, PTL


-----------------------------------------------------------------------------
(* What a receipt says: the model is what the log says up to folded, and   *)
(* the rows lead to entries that PipelineInv is about.                     *)

\* The model is read off the entries folded in.
LEMMA ModelIsRead ==
  ASSUME PipelineInv
  PROVE  /\ RM!Reads(model, SubSeq(log, 1, folded), Data)
         /\ RM!Coherent(SubSeq(log, 1, folded))
<1>1. log \in Seq(Range(log)) /\ RM!History(log, Data) /\ folded \in 0..Len(log)
  BY DEF PipelineInv
<1>2. 0 \in 0..Len(log) /\ folded \in 0..Len(log) /\ SubSeq(log, 1, 0) = <<>>
  BY <1>1
<1>3. RM!NoneApart(Data)
  BY NoneAssumption DEF R!NoneIsDistinct, RM!NoneApart, R!Preconfs, RM!Preconfs,
       R!ProvenRanges, RM!ProvenRanges
<1>4. RM!Reads(RM!Empty, SubSeq(log, 1, 0), Data)
  BY <1>2, RM!NothingRead
<1>5. RM!Reads(RM!Folded(RM!Empty, log, folded), SubSeq(log, 1, folded), Data)
  BY <1>1, <1>2, <1>3, <1>4, RM!FoldReads
<1>6. model = RM!Folded(RM!Empty, log, folded)
  BY DEF model, R!Empty, RM!Empty, R!Folded, RM!Folded, R!apply, RM!apply,
         R!NewIntents, RM!NewIntents, R!NewSlots, RM!NewSlots,
         R!IntentRow, RM!IntentRow, R!SlotRow, RM!SlotRow,
         R!ChangedIntent, RM!ChangedIntent, R!Contains, RM!Contains,
         R!ChangedSlot, RM!ChangedSlot, R!Preconf, RM!Preconf, R!Proven, RM!Proven,
         R!ProvenRange, RM!ProvenRange, R!Fails, RM!Fails
<1>7. RM!Coherent(SubSeq(log, 1, folded))
  BY <1>1, RM!AllCoherent
<1>8. QED
  BY <1>5, <1>6, <1>7

\* What was folded in is in the log.
LEMMA FoldedEntries ==
  ASSUME PipelineInv, NEW kinds, NEW p \in Of(SubSeq(log, 1, folded), kinds)
  PROVE  p \in Of(log, kinds) /\ SubSeq(log, 1, folded)[p] = log[p] /\ p \in Nat
<1>1. log \in Seq(Range(log)) /\ Len(log) \in Nat
      /\ folded \in Nat /\ folded =< Len(log)
  BY DEF PipelineInv
<1> PICK r : r = SubSeq(log, 1, folded)
  OBVIOUS
<1>2. /\ DOMAIN r = 1..folded
      /\ \A q \in 1..folded : r[q] = log[q]
      /\ 1..folded \subseteq DOMAIN log
  BY <1>1
<1>3. p \in 1..folded /\ r[p].kind \in kinds
  BY <1>2 DEF Of
<1>4. p \in Nat
  BY <1>1, <1>3
<1>5. QED
  BY <1>2, <1>3, <1>4 DEF Of

\* The row of an intent is that of the one its id names.
LEMMA StatusOfIntent == PipelineInv => StatusIsOfTheIntent
<1> SUFFICES ASSUME PipelineInv, NEW i \in Bodies, id(i) \in DOMAIN model.intents
             PROVE  log[model.intents[id(i)].position + 1].intent.body = i
  BY DEF StatusIsOfTheIntent
<1> PICK r, row : r = SubSeq(log, 1, folded) /\ row = model.intents[id(i)]
  OBVIOUS
<1>1. RM!AdmissionRead(row, id(i), r)
  BY ModelIsRead DEF RM!Reads, RM!IntentRead
<1>2. PICK p \in Of(r, {"IntentReceived"}) :
        r[p].intent.id = id(i) /\ row.position = p - 1
  BY <1>1, SameSets DEF RM!AdmissionRead
<1>3. p \in Received /\ r[p] = log[p] /\ p \in Nat
  BY FoldedEntries DEF Received
<1>4. MadeFrom(log[p].intent) /\ log[p].intent.id = id(i)
  BY <1>2, <1>3 DEF PipelineInv
<1>5. log[p].intent.body \in Body /\ i \in Body
  BY <1>4, WiringAssumption DEF MadeFrom
<1>6. log[p].intent.body = i
  BY <1>4, <1>5, IdNamesOneIntent DEF MadeFrom
<1>7. row.position + 1 = p
  BY <1>2, <1>3
<1>8. QED
  BY <1>6, <1>7

\* What a client reads under its intent's id (projection.rs:202-209) is about that
\* intent, since the id is over every field of it with the lengths of the market's
\* names (intent.rs:60-80).
THEOREM StatusOwn == Spec => []StatusIsOfTheIntent
BY StatusOfIntent, PipelineInvHolds, PTL

\* A slot's row holds the evidence the enclave and the backend made for the slot,
\* and that of a proven one holds both.
SlotEvidence(row, s) ==
  LET own == CommittedIn(log, s)
      range == row.proof
  IN  /\ row.commitment = own.commitment
      /\ row.preconf # None =>
           /\ row.preconf.quote = encode_quote(s, own.commitment, MOCK_MEASUREMENT)
           /\ row.preconf.signature = mock_over(own.commitment)
      /\ row.proof # None =>
           /\ s \in range.from_slot .. range.to_slot
           /\ range.handle.proof = chain(BatchIn(log, range.from_slot, range.to_slot))
      /\ row.stage = "Proven" => row.preconf # None /\ row.proof # None

LEMMA SlotEvidenced ==
  ASSUME PipelineInv, NEW s \in DOMAIN model.slots
  PROVE  /\ s \in CommittedSlots(log)
         /\ model.slots[s] \in R!SlotRows(Data)
         /\ SlotEvidence(model.slots[s], s)
<1> PICK r, row, own :
      /\ r = SubSeq(log, 1, folded)
      /\ row = model.slots[s]
      /\ own = CommittedIn(log, s)
  OBVIOUS
<1>1. s \in RM!CommittedSlots(r) /\ row \in RM!SlotRows(Data) /\ RM!SlotRead(row, s, r)
  BY ModelIsRead DEF RM!Reads
<1>2. PICK p \in Commits(r) : r[p].slot = s /\ row.commitment = r[p].commitment
  BY <1>1, SameSets DEF RM!SlotRead, RM!CommitRead
<1>3. p \in Commits(log) /\ r[p] = log[p]
  BY <1>2, FoldedEntries DEF Commits
<1>4. s \in CommittedSlots(log)
  BY <1>2, <1>3 DEF CommittedSlots
<1>5. own = log[p]
  BY <1>2, <1>3, <1>4, CommitIsThe DEF PipelineInv
<1>6. row.commitment = own.commitment
  BY <1>2, <1>3, <1>5
<1>7. ASSUME row.preconf # None
      PROVE  /\ row.preconf.quote = encode_quote(s, own.commitment, MOCK_MEASUREMENT)
             /\ row.preconf.signature = mock_over(own.commitment)
  <2>1. PICK q \in Of(r, {"SlotAttested"}) :
          r[q].slot = s /\ row.preconf = RM!Preconf(r[q])
    BY <1>1, <1>7, SameSets DEF RM!SlotRead, RM!PreconfRead
  <2>2. q \in Signed /\ r[q] = log[q]
    BY FoldedEntries DEF Signed
  <2>3. /\ log[q].quote = encode_quote(s, own.commitment, MOCK_MEASUREMENT)
        /\ log[q].signature = mock_over(own.commitment)
    BY <2>1, <2>2, SignedFields
  <2>4. PICK e : e = log[q] /\ row.preconf = RM!Preconf(e)
    BY <2>1, <2>2
  <2>5. row.preconf.quote = e.quote /\ row.preconf.signature = e.signature
    BY <2>4 DEF RM!Preconf
  <2>6. QED
    BY <2>3, <2>4, <2>5
<1>8. ASSUME row.proof # None
      PROVE  /\ s \in row.proof.from_slot .. row.proof.to_slot
             /\ row.proof.handle.proof
                  = chain(BatchIn(log, row.proof.from_slot, row.proof.to_slot))
  <2>1. PICK q \in Of(r, {"SlotsProven"}) :
          s \in Covers(r, q) /\ row.proof = RM!ProvenRange(r[q])
    BY <1>1, <1>8, SameSets DEF RM!SlotRead, RM!ProofRead
  <2>2. q \in Of(log, {"SlotsProven"}) /\ r[q] = log[q]
    BY FoldedEntries
  <2>3. q \in Verdicts(log) /\ log[q].kind = "SlotsProven"
    BY <2>2 DEF Verdicts, Of
  <2>4. log[q].proof = ProofHandle(BatchIn(log, log[q].from_slot, log[q].to_slot))
    BY <2>3 DEF PipelineInv, VerdictsInv
  <2>5. /\ row.proof.from_slot = log[q].from_slot
        /\ row.proof.to_slot = log[q].to_slot
        /\ row.proof.handle = log[q].proof
    <3>1. PICK e : e = log[q] /\ row.proof = RM!ProvenRange(e)
      BY <2>1, <2>2
    <3>2. /\ row.proof.from_slot = e.from_slot
          /\ row.proof.to_slot = e.to_slot
          /\ row.proof.handle = e.proof
      BY <3>1 DEF RM!ProvenRange
    <3>3. QED
      BY <3>1, <3>2
  <2>6. s \in log[q].from_slot .. log[q].to_slot
    BY <2>1, <2>2 DEF Covers
  <2>7. log[q].proof.proof = chain(BatchIn(log, log[q].from_slot, log[q].to_slot))
    BY <2>4 DEF ProofHandle
  <2>8. QED
    BY <2>5, <2>6, <2>7
<1>9. ASSUME row.stage = "Proven"
      PROVE  row.preconf # None /\ row.proof # None
  <2>1. s \in RM!ProvenIn(r)
    BY <1>1, <1>9 DEF RM!SlotRead, RM!StageOf
  <2>2. PICK q \in RM!Of(r, {"SlotsProven"}) : s \in RM!Covers(r, q)
    BY <2>1 DEF RM!ProvenIn
  <2>3. q \in RM!Verdicts(r)
    BY <2>2 DEF RM!Verdicts, RM!Of
  <2>4. s \in RM!JudgedSlots(r)
    BY <2>2, <2>3 DEF RM!JudgedSlots
  <2>5. s \in RM!AttestedSlots(r)
    BY <2>4, ModelIsRead DEF RM!Coherent
  <2>6. QED
    BY <1>1, <2>1, <2>5 DEF RM!SlotRead, RM!PreconfRead, RM!ProofRead
<1>10. row \in R!SlotRows(Data)
  BY <1>1 DEF R!SlotRows, RM!SlotRows, R!Preconfs, RM!Preconfs,
              R!ProvenRanges, RM!ProvenRanges
<1>11. QED
  BY <1>4, <1>6, <1>7, <1>8, <1>9, <1>10 DEF SlotEvidence

\* An intent in a slot is where its row says.
LEMMA PlaceOfIntent ==
  ASSUME PipelineInv, NEW i \in DOMAIN model.intents, model.intents[i].slot # None
  PROVE  LET row == model.intents[i]
         IN  /\ row.slot \in DOMAIN model.slots
             /\ CommittedIn(log, row.slot).intents[row.index + 1] = i
<1> PICK r, row : r = SubSeq(log, 1, folded) /\ row = model.intents[i]
  OBVIOUS
<1>1. RM!PlaceRead(row, i, r)
  BY ModelIsRead DEF RM!Reads, RM!IntentRead
<1>2. PICK p \in Commits(r) : \E k \in DOMAIN r[p].intents :
        /\ r[p].slot = row.slot
        /\ r[p].intents[k] = i
        /\ row.index = k - 1
  BY <1>1, SameSets DEF RM!PlaceRead
<1>3. PICK k \in DOMAIN r[p].intents :
        r[p].slot = row.slot /\ r[p].intents[k] = i /\ row.index = k - 1
  BY <1>2
<1>4. p \in Commits(log) /\ r[p] = log[p]
  BY FoldedEntries DEF Commits
<1>5. row.slot \in CommittedSlots(log) /\ log[p].intents \in Seq(Names)
  BY <1>3, <1>4 DEF CommittedSlots, PipelineInv, CommitsInv
<1>6. k \in Nat
  <2>1. PICK ids \in Seq(Names) : ids = r[p].intents
    BY <1>4, <1>5
  <2>2. k \in DOMAIN ids
    BY <1>3, <2>1
  <2>3. QED
    BY <2>2
<1>7. row.index + 1 = k
  BY <1>3, <1>6
<1>8. CommittedIn(log, row.slot) = log[p]
  BY <1>3, <1>4, <1>5, CommitIsThe DEF PipelineInv
<1>9. row.slot \in DOMAIN model.slots
  <2>1. row.slot \in RM!CommittedSlots(r)
    BY <1>3, SameSets DEF CommittedSlots
  <2>2. QED
    BY <2>1, ModelIsRead DEF RM!Reads
<1>10. QED
  BY <1>3, <1>4, <1>7, <1>8, <1>9

\* The enclave's evidence on a slot verifies against its contents.
LEMMA GenuineVerifies ==
  ASSUME NEW s, NEW a, NEW c, c = commit(s, a)
  PROVE  verify_preconf(MOCK_MEASUREMENT,
           PreconfClaim(s, c, encode_quote(s, c, MOCK_MEASUREMENT), mock_over(c)), a)
           = "Ok"
<1> PICK quote : quote = encode_quote(s, c, MOCK_MEASUREMENT)
  OBVIOUS
<1>1. /\ WellFormed(quote)
      /\ decode_quote(quote).slot = s
      /\ decode_quote(quote).commitment = c
      /\ decode_quote(quote).measurement = MOCK_MEASUREMENT
  BY DEF encode_quote, WellFormed, decode_quote
<1> PICK claim : claim = PreconfClaim(s, c, quote, mock_over(c))
  OBVIOUS
<1>2. /\ claim.slot = s /\ claim.commitment = c
      /\ claim.quote = quote /\ claim.signature = mock_over(c)
  BY DEF PreconfClaim
<1>3. verify_preconf(MOCK_MEASUREMENT, claim, a) = "Ok"
  BY <1>1, <1>2 DEF verify_preconf, trusts, signature_is_valid
<1>4. QED
  BY <1>3

\* What a receipt says of the slot, in its own terms.
ReceiptFrom(receipt, row, slotRow) ==
  /\ receipt.preconf # None =>
       /\ slotRow # None /\ slotRow.preconf # None
       /\ receipt.preconf = R!PreconfRef(row, slotRow)
  /\ slotRow # None => receipt.sequence = R!SequencePosition(row, slotRow)
  /\ slotRow # None /\ slotRow.preconf # None =>
       receipt.preconf = R!PreconfRef(row, slotRow)
  /\ slotRow # None /\ slotRow.proof # None => receipt.proof = R!ProofRef(slotRow)
  /\ receipt.lifecycle = "final_proven" =>
       /\ row.slot # None /\ row.slot \in DOMAIN model.slots
       /\ model.slots[row.slot].stage = "Proven"

LEMMA ReceiptRead ==
  ASSUME PipelineInv, NEW i \in DOMAIN model.intents
  PROVE  ReceiptFrom(R!receipt_of(model, i, 0), model.intents[i],
                     R!SlotRowOf(model, model.intents[i]))
<1> PICK m, row, slotRow, receipt :
      /\ m = model
      /\ row = m.intents[i]
      /\ slotRow = R!SlotRowOf(m, row)
      /\ receipt = R!receipt_of(m, i, 0)
  OBVIOUS
<1>1. receipt = R!Receipt(m, i, row, slotRow, 0)
  BY DEF R!receipt_of
<1>2. /\ receipt.lifecycle = R!lifecycle(m, row)
      /\ receipt.sequence = IF slotRow = None THEN None
                            ELSE R!SequencePosition(row, slotRow)
      /\ receipt.preconf = IF slotRow = None THEN None
                           ELSE IF slotRow.preconf = None THEN None
                           ELSE R!PreconfRef(row, slotRow)
      /\ receipt.proof = IF slotRow = None THEN None
                         ELSE IF slotRow.proof = None THEN None
                         ELSE R!ProofRef(slotRow)
  BY <1>1 DEF R!Receipt
<1>3. ASSUME receipt.lifecycle = "final_proven"
      PROVE  /\ row.slot # None /\ row.slot \in DOMAIN m.slots
             /\ m.slots[row.slot].stage = "Proven"
  <2>1. R!lifecycle(m, row) = "final_proven" /\ None # "final_proven"
    BY <1>2, <1>3, NoneAssumption DEF R!NoneIsDistinct, R!Statuses
  <2>2. row.expired = None /\ row.slot # None /\ row.slot \in DOMAIN m.slots
    BY <2>1 DEF R!lifecycle
  <2>3. m.slots[row.slot].stage \in {"Committed", "Preconfirmed", "Proven", "Failed"}
    BY <2>2, SlotEvidenced DEF R!SlotRows
  <2>4. m.slots[row.slot].stage = "Proven"
    BY <2>1, <2>2, <2>3 DEF R!lifecycle
  <2>5. QED
    BY <2>2, <2>4
<1>4. QED
  BY <1>2, <1>3 DEF ReceiptFrom

\* The evidence on a receipt is good.
LEMMA EvidenceGood == PipelineInv => EvidenceVerifies
<1> SUFFICES ASSUME PipelineInv, NEW i \in DOMAIN model.intents
             PROVE  LET receipt == R!receipt_of(model, i, 0)
                        slot == Committed(receipt.sequence.slot)
                        range == receipt.proof
                    IN  /\ receipt.preconf # None =>
                             /\ verify_preconf(MOCK_MEASUREMENT, ClaimOf(receipt),
                                               slot.intents) = "Ok"
                             /\ slot.intents[receipt.sequence.index + 1] = i
                             /\ receipt.sequence.slot_commitment
                                  = receipt.preconf.commitment
                        /\ receipt.lifecycle = "final_proven" =>
                             /\ receipt.preconf # None
                             /\ slot.slot \in range.from_slot .. range.to_slot
                             /\ range.proof = chain(Batch(range.from_slot,
                                                          range.to_slot))
  BY DEF EvidenceVerifies
<1> PICK row, slotRow, receipt :
      /\ row = model.intents[i]
      /\ slotRow = R!SlotRowOf(model, row)
      /\ receipt = R!receipt_of(model, i, 0)
  OBVIOUS
<1>1. ReceiptFrom(receipt, row, slotRow)
  BY ReceiptRead
<1>2. ASSUME slotRow # None
      PROVE  /\ row.slot # None
             /\ row.slot \in CommittedSlots(log)
             /\ row.slot \in Nat
             /\ slotRow = model.slots[row.slot]
             /\ slotRow \in R!SlotRows(Data)
             /\ SlotEvidence(slotRow, row.slot)
             /\ receipt.sequence.slot = row.slot
             /\ receipt.sequence.index = row.index
             /\ receipt.sequence.slot_commitment = slotRow.commitment
  <2>1. row.slot \in DOMAIN model.slots /\ slotRow = model.slots[row.slot]
    BY <1>2 DEF R!SlotRowOf
  <2>2. /\ row.slot \in CommittedSlots(log)
        /\ slotRow \in R!SlotRows(Data)
        /\ SlotEvidence(slotRow, row.slot)
    BY <2>1, SlotEvidenced
  <2>3. row.slot \in Nat
    BY <2>2, CommittedFields DEF PipelineInv
  <2>4. row.slot # None
    BY <2>3, NoneAssumption DEF R!NoneIsDistinct
  <2>5. receipt.sequence = R!SequencePosition(row, slotRow)
    BY <1>1, <1>2 DEF ReceiptFrom
  <2>6. QED
    BY <2>1, <2>2, <2>3, <2>4, <2>5 DEF R!SequencePosition
<1>3. ASSUME receipt.preconf # None
      PROVE  LET slot == Committed(receipt.sequence.slot)
             IN  /\ verify_preconf(MOCK_MEASUREMENT, ClaimOf(receipt),
                                   slot.intents) = "Ok"
                 /\ slot.intents[receipt.sequence.index + 1] = i
                 /\ receipt.sequence.slot_commitment = receipt.preconf.commitment
  <2>1. /\ slotRow # None /\ slotRow.preconf # None
        /\ receipt.preconf = R!PreconfRef(row, slotRow)
    BY <1>1, <1>3 DEF ReceiptFrom
  <2> PICK s, own, c : s = row.slot /\ own = CommittedIn(log, s) /\ c = own.commitment
    OBVIOUS
  <2>2. /\ s \in CommittedSlots(log) /\ s # None
        /\ receipt.sequence.slot = s
        /\ receipt.sequence.index = row.index
        /\ receipt.sequence.slot_commitment = slotRow.commitment
        /\ SlotEvidence(slotRow, s)
    BY <1>2, <2>1
  <2>3. /\ slotRow.commitment = c
        /\ slotRow.preconf.quote = encode_quote(s, c, MOCK_MEASUREMENT)
        /\ slotRow.preconf.signature = mock_over(c)
    BY <2>1, <2>2 DEF SlotEvidence
  <2>4. /\ receipt.preconf.slot = s
        /\ receipt.preconf.commitment = c
        /\ receipt.preconf.quote = encode_quote(s, c, MOCK_MEASUREMENT)
        /\ receipt.preconf.signature = mock_over(c)
    BY <2>1, <2>3 DEF R!PreconfRef
  <2>5. ClaimOf(receipt)
          = PreconfClaim(s, c, encode_quote(s, c, MOCK_MEASUREMENT), mock_over(c))
    BY <2>4 DEF ClaimOf
  <2>6. c = commit(s, own.intents)
    BY <2>2, CommittedFields DEF PipelineInv
  <2>7. verify_preconf(MOCK_MEASUREMENT, ClaimOf(receipt), own.intents) = "Ok"
    BY <2>5, <2>6, GenuineVerifies
  <2>8. own.intents[row.index + 1] = i
    BY <2>2, PlaceOfIntent
  <2>9. Committed(receipt.sequence.slot) = own
    BY <2>2, OfThisLog
  <2>10. QED
    BY <2>2, <2>3, <2>4, <2>7, <2>8, <2>9
<1>4. ASSUME receipt.lifecycle = "final_proven"
      PROVE  LET slot == Committed(receipt.sequence.slot)
                 range == receipt.proof
             IN  /\ receipt.preconf # None
                 /\ slot.slot \in range.from_slot .. range.to_slot
                 /\ range.proof = chain(Batch(range.from_slot, range.to_slot))
  <2>1. /\ row.slot # None /\ row.slot \in DOMAIN model.slots
        /\ model.slots[row.slot].stage = "Proven"
    BY <1>1, <1>4 DEF ReceiptFrom
  <2>2. slotRow = model.slots[row.slot]
    BY <2>1 DEF R!SlotRowOf
  <2>3. slotRow # None
    BY <2>1, <2>2, SlotEvidenced, NoneAssumption DEF R!NoneIsDistinct
  <2>4. /\ row.slot \in CommittedSlots(log) /\ row.slot \in Nat
        /\ slotRow \in R!SlotRows(Data)
        /\ SlotEvidence(slotRow, row.slot)
        /\ receipt.sequence.slot = row.slot
    BY <1>2, <2>3
  <2>5. slotRow.preconf # None /\ slotRow.proof # None
    BY <2>1, <2>2, <2>4 DEF SlotEvidence
  <2>6. receipt.preconf = R!PreconfRef(row, slotRow) /\ receipt.proof = R!ProofRef(slotRow)
    BY <1>1, <2>3, <2>5 DEF ReceiptFrom
  <2>7. receipt.preconf # None
    <3>1. /\ slotRow.commitment \in Data
          /\ slotRow.preconf \in R!Preconfs(Data)
      BY <2>4, <2>5 DEF R!SlotRows
    <3>2. slotRow.preconf.quote \in Data /\ slotRow.preconf.signature \in Data
      BY <3>1 DEF R!Preconfs
    <3>3. receipt.preconf
            \in [slot : Nat, commitment : Data, quote : Data, signature : Data]
      BY <2>4, <2>6, <3>1, <3>2 DEF R!PreconfRef
    <3>4. QED
      BY <3>3, NoneAssumption DEF R!NoneIsDistinct
  <2> PICK range : range = slotRow.proof
    OBVIOUS
  <2>8. /\ row.slot \in range.from_slot .. range.to_slot
        /\ range.handle.proof = chain(BatchIn(log, range.from_slot, range.to_slot))
    BY <2>4, <2>5 DEF SlotEvidence
  <2>9. /\ receipt.proof.from_slot = range.from_slot
        /\ receipt.proof.to_slot = range.to_slot
        /\ receipt.proof.proof = range.handle.proof
    BY <2>6 DEF R!ProofRef
  <2>10. Committed(receipt.sequence.slot).slot = row.slot
    BY <2>4, CommittedFields, OfThisLog DEF PipelineInv
  <2>11. QED
    BY <2>7, <2>8, <2>9, <2>10, OfThisLog
<1>5. QED
  BY <1>3, <1>4

\* The receipt of a preconfirmed intent verifies against the contents of its slot,
\* and that of a proven one has a proof of the slots of its range
\* (projection.rs:211-275, attest.rs:127-153, prove/mod.rs:327-351): the rows it is
\* made from are of one slot, and the stages' entries are of what it was committed
\* as.
THEOREM EvidenceGenuine == Spec => []EvidenceVerifies
BY EvidenceGood, PipelineInvHolds, PTL
=============================================================================
