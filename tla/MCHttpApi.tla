----------------------------- MODULE MCHttpApi -----------------------------
(* A small instance of HttpApi.                                            *)
EXTENDS HttpApi

I(id, nonce, deadline, size, named, slippage) ==
  [id |-> id, submitter |-> 1, nonce |-> nonce, market |-> 1,
   priority_fee |-> 1, deadline_ms |-> deadline, size |-> size,
   named |-> named, max_slippage_bps |-> slippage]

\* Two intents for one nonce, one for the next, and one for each of the checks
\* that look at the intent alone.
Racing ==
  {I(3, 1, 5, 1, TRUE, 50), I(4, 1, 4, 1, TRUE, MAX_SLIPPAGE_BPS),
   I(2, 2, 2, 1, TRUE, 50), I(1, 3, 5, 1, TRUE, MAX_SLIPPAGE_BPS + 1),
   I(5, 3, 5, 0, TRUE, 50), I(6, 3, 5, 1, FALSE, 50)}
=============================================================================
