---------------------------- MODULE MCSequencing ----------------------------
(* A small instance of Sequencing.                                         *)
EXTENDS SequencingRefinement

I(id, submitter, nonce, market, fee, deadline) ==
  [id |-> id, submitter |-> submitter, nonce |-> nonce, market |-> market,
   priority_fee |-> fee, deadline_ms |-> deadline, size |-> 1, named |-> TRUE,
   max_slippage_bps |-> 50]

\* Submitter 1 has two nonces in one market, the later one bidding more;
\* submitter 2 competes, with a deadline that only an early arrival can meet.
First  == I(3, 1, 1, 1, 1, 3)
Second == I(2, 1, 2, 1, 5, 3)
Rival  == I(1, 2, 1, 1, 3, 2)

ThreeIntents == {First, Second, Rival}
=============================================================================
