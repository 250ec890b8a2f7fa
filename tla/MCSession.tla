----------------------------- MODULE MCSession -----------------------------
(* Sessions in which the tools change twice, the roots change twice, two    *)
(* prompts are cancelled, answered or timed out between pings, and some of  *)
(* each.                                                                    *)
EXTENDS Session

MCLoad(t, r, p, pings, timeouts) ==
  [tools |-> t, roots |-> r, prompts |-> p, pings |-> pings, timeouts |-> timeouts]

MCLoads == {MCLoad(2, 0, 0, 0, 0), MCLoad(0, 2, 0, 0, 1), MCLoad(0, 0, 2, 1, 1),
            MCLoad(1, 1, 0, 0, 0), MCLoad(1, 0, 1, 1, 0), MCLoad(0, 1, 1, 1, 1)}

\* A server with more tools than go on a page.
MCOneChange == {MCLoad(1, 0, 0, 0, 0)}
=============================================================================
