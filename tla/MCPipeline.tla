----------------------------- MODULE MCPipeline -----------------------------
(* A small instance of Pipeline.                                           *)
EXTENDS Pipeline

I(nonce, base, quote) ==
  [submitter |-> 1, nonce |-> nonce, base |-> base, quote |-> quote, side |-> 0,
   size |-> 1, max_slippage_bps |-> 50, priority_fee |-> 0, timestamp_ms |-> 0,
   deadline_ms |-> 1]

\* The pair of intent.rs:65, which differ in where base ends and quote begins,
\* and one that follows either of them.
Twins == {I(1, <<1, 2>>, <<3>>), I(1, <<1>>, <<2, 3>>)}
Three == Twins \cup {I(2, <<1>>, <<3>>)}

\* Nothing fails; or the first slot is refused and what meets the third is not
\* proven.
Scenarios ==
  {[slots |-> {}, ranges |-> {}], [slots |-> {0}, ranges |-> {<<2, 3>>}]}
=============================================================================
