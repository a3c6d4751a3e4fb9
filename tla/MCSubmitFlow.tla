---------------------------- MODULE MCSubmitFlow ----------------------------
(* SubmitFlow with two workers and two requests at a time.                 *)
EXTENDS SubmitFlow, TLC

CONSTANTS a, b, w1, w2, r1, r2, noTask, noWorker

(* Whether a token is passed through matters to a watermarked task only.   *)
MCTokens == \A w \in Workers : job[w].task \in Tasks \ Watermarked => job[w].keeps

Symmetric == Permutations({w1, w2}) \cup Permutations(Requests)
=============================================================================
