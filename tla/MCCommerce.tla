----------------------------- MODULE MCCommerce -----------------------------
(* One consumer, two tasks, two threads.  The cost of a task is 20, of     *)
(* which 14 go to a developer and 5 to the worker.                         *)
EXTENDS Commerce, TLC

CONSTANTS u1, w1, d1, a, b, t1, t2

(* Only one skill gets a developer.                                        *)
MCOneDeveloped == Cardinality({m \in Modes : developer[m] # NoParty}) <= 1

(* What a charge reads is set after one has begun: no one reads it before. *)
MCBegun(m) == \E i \in Tasks : task[i].st = "charged" /\ task[i].mode = m
MCSetInTime ==
  /\ \A m \in Modes : MCBegun(m) \/ (developer[m] = NoParty /\ price[m] = Cost)
  /\ (\E m \in Modes : MCBegun(m)) \/ phase = "q1"

(* A behaviour is followed until a third kind of money is overwritten.     *)
MCStale == Cardinality(stale) <= 2

MCSymmetry == Permutations({a, b}) \cup Permutations({t1, t2})
=============================================================================
