--------------------------- MODULE IntentIdentity ---------------------------
(***************************************************************************)
(* What names an intent (intent.rs): keccak over the encoding of every     *)
(* economic field.                                                         *)
(*                                                                         *)
(* Bytes are a sequence.  A field of fixed width is one element, a number; *)
(* a string is one element per character, so that two strings written one   *)
(* after the other run together as they do in the code.                    *)
(***************************************************************************)
EXTENDS Integers, Sequences

Char == Nat

\* Side: Buy = 0, Sell = 1.
Side == {0, 1}

\* Intent, its market's two names included.  The widths of the integers only
\* bound them: a field is never split or carried.
Body ==
  [submitter : Nat, nonce : Nat, base : Seq(Char), quote : Seq(Char),
   side : Side, size : Nat, max_slippage_bps : Nat, priority_fee : Nat,
   timestamp_ms : Nat, deadline_ms : Nat]

\* Keccak256, for a hash no two inputs collide under.
Keccak256(bytes) == [keccak |-> bytes]

\* Mutant of encode: the market's two names without their lengths.
encode_unprefixed(i) ==
  <<"INTENT-V1", i.submitter, i.nonce>> \o i.base \o i.quote
    \o <<i.side, i.size, i.max_slippage_bps, i.priority_fee, i.timestamp_ms,
         i.deadline_ms>>

\* What Intent::id feeds the hash.
encode(i) ==
  <<"INTENT-V1", i.submitter, i.nonce, Len(i.base)>> \o i.base
    \o <<Len(i.quote)>> \o i.quote
    \o <<i.side, i.size, i.max_slippage_bps, i.priority_fee, i.timestamp_ms,
         i.deadline_ms>>

id(i) == Keccak256(encode(i))
=============================================================================
