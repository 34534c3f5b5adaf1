----------------------------- MODULE SlotEntries -----------------------------
(***************************************************************************)
(* The log as the attester and the prover see it (log.rs:55-81).  A slot's *)
(* contents, quotes, signatures, proofs and reasons are left out: neither  *)
(* stage branches on them, beyond the verdict an entry's kind records.     *)
(* Entries of other kinds are all "Other".  Positions are as in            *)
(* LogEntries: the k-th element is at Position(k - 1).                     *)
(***************************************************************************)
EXTENDS Integers, Sequences, FiniteSets

SlotCommitted(s) == [kind |-> "SlotCommitted", slot |-> s]
SlotAttested(s)  == [kind |-> "SlotAttested", slot |-> s]
AttestFailed(s)  == [kind |-> "AttestFailed", slot |-> s]

SlotsProven(from, to) ==
  [kind |-> "SlotsProven", from_slot |-> from, to_slot |-> to]
ProveFailed(from, to) ==
  [kind |-> "ProveFailed", from_slot |-> from, to_slot |-> to]

Other == [kind |-> "Other"]

SlotEntry ==
  [kind : {"SlotCommitted", "SlotAttested", "AttestFailed"}, slot : Nat]
    \cup [kind : {"SlotsProven", "ProveFailed"}, from_slot : Nat, to_slot : Nat]
    \cup {Other}

Of(entries, kinds) == {p \in DOMAIN entries : entries[p].kind \in kinds}

Commits(entries) == Of(entries, {"SlotCommitted"})
Rulings(entries) == Of(entries, {"SlotAttested", "AttestFailed"})
Verdicts(entries) == Of(entries, {"SlotsProven", "ProveFailed"})

CommittedSlots(entries) == {entries[p].slot : p \in Commits(entries)}
RuledSlots(entries)     == {entries[p].slot : p \in Rulings(entries)}
AttestedSlots(entries)  == {entries[p].slot : p \in Of(entries, {"SlotAttested"})}

\* The slots the verdict at p covers.
Covers(entries, p) == entries[p].from_slot .. entries[p].to_slot
JudgedSlots(entries) == UNION {Covers(entries, p) : p \in Verdicts(entries)}

\* How far the entries have brought slot s (SlotStage, projection.rs:11-19, with
\* the two ways to fail told apart).
StageIn(entries, s) ==
  LET verdict == {p \in Verdicts(entries) : s \in Covers(entries, p)}
      By(kinds) == \E p \in Of(entries, kinds) : entries[p].slot = s
  IN  IF \E p \in verdict : entries[p].kind = "SlotsProven" THEN "proven"
      ELSE IF verdict # {} THEN "unproven"
      ELSE IF By({"AttestFailed"}) THEN "refused"
      ELSE IF By({"SlotAttested"}) THEN "attested"
      ELSE IF By({"SlotCommitted"}) THEN "committed"
      ELSE "open"

\* Where a recovering stage finds the commitment of slot s (slot_positions).
CommitOf(entries, s) ==
  CHOOSE p \in Commits(entries) :
    /\ entries[p].slot = s
    /\ \A q \in Commits(entries) : entries[q].slot = s => q =< p
=============================================================================
