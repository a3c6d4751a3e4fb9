---------------------------- MODULE MCMockLedger ----------------------------
(* MockLedger with two users and one worker; two strikes slash, ratings are*)
(* audited from the second on and half a reputation goes with an anomaly.  *)
EXTENDS MockLedger, TLC

CONSTANTS u1, u2, w

Symmetric == Permutations(Users)
=============================================================================
