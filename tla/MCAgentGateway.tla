--------------------------- MODULE MCAgentGateway ---------------------------
(* TLC instances of AgentGateway: a settlement of 23 splits into 16, 5 and *)
(* 2, so the rounding of both shares falls to the treasury.                *)
EXTENDS AgentGateway, TLC

CONSTANTS user, worker, dev, g1, g2, none, t1, t2, s1

Deposit46 == {46}
Amount23 == {23}

Symmetric == Permutations({t1, t2})
=============================================================================
