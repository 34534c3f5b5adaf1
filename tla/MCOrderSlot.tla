---------------------------- MODULE MCOrderSlot ----------------------------
(* Small instances of OrderSlot.                                           *)
EXTENDS OrderSlot

P(id, market, submitter, nonce, fee, at) ==
  [id |-> id, market |-> market, submitter |-> submitter, nonce |-> nonce,
   priority_fee |-> fee, received_at |-> at]

\* Two submitters, two markets; equal and unequal fees and arrival times, so
\* that every rule decides some pair, and ids that disagree with the rest.
MCCandidates ==
  { P(9, 1, 1, 1, 1, 1), P(8, 1, 1, 2, 5, 2), P(7, 2, 1, 3, 5, 2),
    P(6, 1, 2, 1, 3, 1), P(5, 1, 2, 2, 5, 1), P(4, 2, 2, 3, 5, 2),
    P(3, 1, 3, 1, 5, 2), P(2, 2, 3, 2, 3, 1), P(1, 1, 1, 4, 9, 1) }
=============================================================================
