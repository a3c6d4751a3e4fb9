--------------------------- MODULE TaskLifecycle ----------------------------
(***************************************************************************)
(* What the broker promises about a task, whoever calls it and in whatever *)
(* order: a task is published once under its id, is worked on by one       *)
(* claimant at a time, goes through its pipeline steps one after another,  *)
(* and ends once, successfully only after its last step.                   *)
(***************************************************************************)
EXTENDS Naturals

CONSTANTS Ids, Workers, NoWorker, MaxSteps

VARIABLES
  phase,   (* id -> "ABSENT", "PENDING", "CLAIMED", "SUCCESS" or "FAILED"   *)
  holder,  (* id -> the worker a CLAIMED task is given to                   *)
  left     (* id -> pipeline steps still to be done                         *)

Init ==
  /\ phase = [i \in Ids |-> "ABSENT"]
  /\ holder = [i \in Ids |-> NoWorker]
  /\ left = [i \in Ids |-> 0]

Publish(i, steps) ==
  /\ phase[i] = "ABSENT"
  /\ phase' = [phase EXCEPT ![i] = "PENDING"]
  /\ left' = [left EXCEPT ![i] = steps]
  /\ UNCHANGED holder

Claim(i, w) ==
  /\ phase[i] = "PENDING"
  /\ phase' = [phase EXCEPT ![i] = "CLAIMED"]
  /\ holder' = [holder EXCEPT ![i] = w]
  /\ UNCHANGED left

Advance(i) ==
  /\ phase[i] = "CLAIMED"
  /\ left[i] > 1
  /\ phase' = [phase EXCEPT ![i] = "PENDING"]
  /\ holder' = [holder EXCEPT ![i] = NoWorker]
  /\ left' = [left EXCEPT ![i] = @ - 1]

Succeed(i) ==
  /\ phase[i] = "CLAIMED"
  /\ left[i] = 1
  /\ phase' = [phase EXCEPT ![i] = "SUCCESS"]
  /\ UNCHANGED <<holder, left>>

Fail(i) ==
  /\ phase[i] = "CLAIMED"
  /\ phase' = [phase EXCEPT ![i] = "FAILED"]
  /\ UNCHANGED <<holder, left>>

Recycle(S) ==
  /\ \A i \in S : phase[i] = "CLAIMED"
  /\ phase' = [i \in Ids |-> IF i \in S THEN "PENDING" ELSE phase[i]]
  /\ holder' = [i \in Ids |-> IF i \in S THEN NoWorker ELSE holder[i]]
  /\ UNCHANGED left

Next ==
  \/ \E i \in Ids, n \in 1..MaxSteps : Publish(i, n)
  \/ \E i \in Ids, w \in Workers : Claim(i, w)
  \/ \E i \in Ids : Advance(i) \/ Succeed(i) \/ Fail(i)
  \/ \E S \in SUBSET Ids : Recycle(S)

Spec == Init /\ [][Next]_<<phase, holder, left>>
=============================================================================
