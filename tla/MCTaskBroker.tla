---------------------------- MODULE MCTaskBroker ----------------------------
(* TaskBroker with two request threads on a store of one or two tasks.     *)
EXTENDS TaskBroker

CONSTANTS t1, t2, w1, w2, noWorker, noThread, absent

(* Threads run the same code and workers are told apart by name only.      *)
Symmetric == Permutations({t1, t2}) \cup Permutations({w1, w2})
=============================================================================
