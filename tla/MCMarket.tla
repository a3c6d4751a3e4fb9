------------------------------ MODULE MCMarket ------------------------------
(* One user's requests for a shipped and an uploaded skill.                *)
EXTENDS Market, TLC

CONSTANTS r1, r2, u1, d1, d2, shipped, uploaded

(* The wallet touches nothing else: it moves where nothing else does, and  *)
(* has one call more than the rest.                                        *)
MCApart ==
  \/ wallet = <<0, 0, 0, 0>> /\ ops < MaxOps
  \/ tasks = <<>> /\ request = [r \in Requests |-> Idle] /\ developers = <<
       [s \in Skills |-> NoOne], [d \in Developers |-> {}],
       [d \in Developers |-> [s \in Skills |-> {}]], [d \in Developers |-> 0]>>
MCSymmetry == Permutations({r1, r2}) \cup Permutations({d1, d2})
=============================================================================
