-------------------------- MODULE SubmitFlowProofs --------------------------
(***************************************************************************)
(* SubmitFlow for any number of workers, tasks, requests and crashes: that *)
(* a task is charged once, that the budget of a task of one step goes to   *)
(* its claimant, that no successful task goes unpaid, and that the handlers*)
(* implement TaskLifecycle.                                                *)
(*                                                                         *)
(* Two facts carry it.  One request at most settles a task, between        *)
(* "settle" and the charge, while the task is in SUCCESS, and none after   *)
(* the charge (OneSettles).  And a task of one step that was claimed keeps *)
(* its holder, who is the worker of every request past the look-up         *)
(* (SingleOwned).                                                          *)
(***************************************************************************)
EXTENDS SubmitFlow, TLAPS

Statuses == {"ABSENT", "PENDING", "CLAIMED", "SUCCESS", "FAILED"}
Unclaimed == {"ABSENT", "PENDING"}
Working == {"verify", "judge", "complete", "fail"}
Settling == {"release", "record", "charge"}
Labels == {"free", "lookup", "answered"} \cup Working \cup Settling

Job == [task : Tasks \cup {NoTask}, step : Nat, result : Results \cup {"good"},
        keeps : BOOLEAN, attempts : Nat]
Req == [pc : Labels, task : Tasks \cup {NoTask}, worker : Workers \cup {NoWorker}, step : Nat,
        result : Results \cup {"good"}, keeps : BOOLEAN, piracy : BOOLEAN, ok : BOOLEAN]

Shapes ==
  /\ status \in [Tasks -> Statuses] /\ holder \in [Tasks -> Workers \cup {NoWorker}]
  /\ step \in [Tasks -> Nat]
  /\ hold \in [Tasks -> {"none", "frozen", "paid", "returned"}]
  /\ payee \in [Tasks -> Workers \cup {NoWorker}]
  /\ charged \in [Tasks -> Nat]
  /\ job \in [Workers -> Job] /\ req \in [Requests -> Req]
Steps ==
  \A i \in Tasks : step[i] <= LastStep(i) /\ (status[i] = "ABSENT" => step[i] = 0)
Named ==
  /\ \A w \in Workers : job[w] # NoJob => job[w].task \in Tasks
  /\ \A r \in Requests : req[r].pc # "free" => req[r].task \in Tasks

SingleOwned ==
  \A r \in Requests :
    req[r].pc \in Working \cup Settling /\ req[r].task \notin Pipelines =>
      status[req[r].task] \notin Unclaimed /\ holder[req[r].task] = req[r].worker

OneSettles ==
  /\ \A r \in Requests : req[r].pc \in Settling =>
       status[req[r].task] = "SUCCESS" /\ charged[req[r].task] = 0
  /\ \A q, r \in Requests :
       req[q].pc \in Settling /\ req[r].pc \in Settling /\ req[q].task = req[r].task => q = r
  /\ \A i \in Tasks : charged[i] > 0 => status[i] = "SUCCESS"

IInv ==
  /\ Shapes /\ Steps /\ Named
  /\ SingleOwned /\ OneSettles /\ SinglePaidToClaimant /\ ChargedOnce

LEMMA Constants ==
  /\ Pipelines \subseteq Tasks /\ NoTask \notin Tasks /\ MaxSteps \in Nat \ {0, 1}
  /\ Results \subseteq {"good", "invalid", "poor"} /\ Keeps \subseteq BOOLEAN
  /\ MaxAttempts \in Nat
  /\ \A i \in Tasks : LastStep(i) \in Nat /\ LastStep(i) + 1 \in 1..MaxSteps
  /\ \A i \in Tasks : i \notin Pipelines => LastStep(i) = 0
  BY SubmitAssumption DEF SubmitAssumption, LastStep

LEMMA NoneTyped ==
  /\ NoReq \in Req /\ NoReq.pc = "free"
  /\ NoJob \in Job /\ NoJob.task = NoTask
  BY DEF NoReq, NoJob, Req, Job, Labels

-----------------------------------------------------------------------------
(* What may become of the tasks in a step.                                 *)
Published(i) ==
  status[i] = "ABSENT" /\ status' = [status EXCEPT ![i] = "PENDING"] /\ UNCHANGED <<holder, step>>
Granted(i, w) ==
  /\ status[i] = "PENDING"
  /\ status' = [status EXCEPT ![i] = "CLAIMED"] /\ holder' = [holder EXCEPT ![i] = w]
  /\ UNCHANGED step
Ended(i, s) ==
  status[i] = "CLAIMED" /\ status' = [status EXCEPT ![i] = s] /\ UNCHANGED <<holder, step>>
Advanced(i) ==
  /\ status[i] = "CLAIMED" /\ Advances(i)
  /\ step' = [step EXCEPT ![i] = step[i] + 1]
  /\ status' = [status EXCEPT ![i] = "PENDING"] /\ holder' = [holder EXCEPT ![i] = NoWorker]
TaskEffect ==
  \/ UNCHANGED broker
  \/ \E i \in Tasks :
       \/ Published(i) \/ \E w \in Workers : Granted(i, w)
       \/ Ended(i, "FAILED")
       \/ Ended(i, "SUCCESS") /\ ~Advances(i)
       \/ Advanced(i)

TasksGoOn ==
  /\ status' \in [Tasks -> Statuses] /\ holder' \in [Tasks -> Workers \cup {NoWorker}]
  /\ step' \in [Tasks -> Nat]
  /\ \A i \in Tasks : step'[i] <= LastStep(i) /\ (status'[i] = "ABSENT" => step'[i] = 0)
  /\ \A i \in Tasks : status[i] = "SUCCESS" => status'[i] = "SUCCESS"
  /\ \A i \in Tasks : i \notin Pipelines /\ status[i] \notin Unclaimed =>
       status'[i] \notin Unclaimed /\ holder'[i] = holder[i]

LEMMA TasksKept == ASSUME Shapes, Steps, TaskEffect PROVE TasksGoOn
  <1> USE Constants DEF TasksGoOn, Shapes, Steps, Statuses, Unclaimed
  <1>1. CASE UNCHANGED broker
    BY <1>1 DEF broker
  <1>2. ASSUME NEW i \in Tasks, Published(i) PROVE TasksGoOn
    BY <1>2 DEF Published
  <1>3. ASSUME NEW i \in Tasks, NEW w \in Workers, Granted(i, w) PROVE TasksGoOn
    BY <1>3 DEF Granted
  <1>4. ASSUME NEW i \in Tasks, NEW s \in {"FAILED", "SUCCESS"}, Ended(i, s) PROVE TasksGoOn
    BY <1>4 DEF Ended
  <1>5. ASSUME NEW i \in Tasks, Advanced(i) PROVE TasksGoOn
    <2>1. step[i] + 1 <= LastStep(i) /\ step[i] + 1 \in Nat /\ i \in Pipelines
      BY <1>5 DEF Advanced, Advances
    <2>2. QED
      BY <1>5, <2>1 DEF Advanced
  <1>6. QED
    BY <1>1, <1>2, <1>3, <1>4, <1>5 DEF TaskEffect

-----------------------------------------------------------------------------
(* What may become of a request, but that it comes to settle: it goes on   *)
(* with its task and its worker, or has just been found to be the holder.  *)
Follows(q, new) ==
  /\ new.pc # "free" => new.task \in Tasks
  /\ new.pc \in Settling => q.pc \in Settling /\ new.task = q.task /\ new.worker = q.worker
  /\ new.pc \in Working =>
       \/ q.pc \in Working /\ new.task = q.task /\ new.worker = q.worker
       \/ status[new.task] = "CLAIMED" /\ holder[new.task] = new.worker

RequestsFollow ==
  req' \in [Requests -> Req] /\ \A r \in Requests : Follows(req[r], req'[r])
JobsNamed ==
  job' \in [Workers -> Job] /\ \A w \in Workers : job'[w] # NoJob => job'[w].task \in Tasks
(* The ledger and the commerce engine are not called.                      *)
NothingPaid ==
  /\ hold' \in [Tasks -> {"none", "frozen", "paid", "returned"}]
  /\ \A i \in Tasks : hold'[i] = "paid" => hold[i] = "paid"
  /\ UNCHANGED <<payee, charged>>

LEMMA QuietInv ==
  ASSUME IInv, TasksGoOn, RequestsFollow, JobsNamed, NothingPaid
  PROVE  IInv'
  <1> USE DEF IInv, TasksGoOn, RequestsFollow, NothingPaid
  <1>1. Shapes'
    BY DEF Shapes, JobsNamed
  <1>2. Steps'
    BY DEF Steps, LastStep
  <1>3. Named'
    BY DEF Named, JobsNamed, Follows
  <1>4. SingleOwned'
    <2> SUFFICES ASSUME NEW r \in Requests, req'[r].pc \in Working \cup Settling,
                        req'[r].task \notin Pipelines
                 PROVE  /\ status'[req'[r].task] \notin Unclaimed
                        /\ holder'[req'[r].task] = req'[r].worker
      BY DEF SingleOwned
    <2>1. Follows(req[r], req'[r]) /\ req'[r].task \in Tasks
      BY DEF Follows, Working, Settling
    <2>2. /\ status[req'[r].task] \notin Unclaimed
          /\ holder[req'[r].task] = req'[r].worker
      BY <2>1 DEF Follows, SingleOwned, Unclaimed
    <2>3. QED
      BY <2>1, <2>2
  <1>5. OneSettles'
    <2>1. \A r \in Requests : req'[r].pc \in Settling =>
            req[r].pc \in Settling /\ req'[r].task = req[r].task /\ req[r].task \in Tasks
      BY DEF Follows, Named, Settling
    <2>2. QED
      BY <2>1 DEF OneSettles
  <1>6. SinglePaidToClaimant'
    BY DEF SinglePaidToClaimant, Unclaimed
  <1>7. ChargedOnce'
    BY DEF ChargedOnce
  <1>8. QED
    BY <1>1, <1>2, <1>3, <1>4, <1>5, <1>6, <1>7

-----------------------------------------------------------------------------
(* One request moves to a label.                                           *)
Moves(r, label) ==
  /\ req' \in [Requests -> Req]
  /\ req'[r].pc = label /\ req'[r].task = req[r].task /\ req'[r].worker = req[r].worker
  /\ \A q \in Requests : q # r => req'[q] = req[q]

LEMMA GotoMoves ==
  ASSUME req \in [Requests -> Req], NEW r \in Requests, NEW label \in Labels, Goto(r, label)
  PROVE  Moves(r, label)
  <1>1. req[r] \in Req
    OBVIOUS
  <1>2. req' = [req EXCEPT ![r] = [req[r] EXCEPT !.pc = label]]
    BY DEF Goto
  <1>3. [req[r] EXCEPT !.pc = label] \in Req
    BY <1>1 DEF Req
  <1>4. QED
    BY <1>1, <1>2, <1>3 DEF Moves, Req

LEMMA AnswerMoves ==
  ASSUME req \in [Requests -> Req], NEW r \in Requests, NEW ok \in BOOLEAN, Answer(r, ok)
  PROVE  Moves(r, "answered")
  <1> DEFINE new == [req[r] EXCEPT !.pc = "answered", !.ok = ok]
  <1>1. req[r] \in Req
    OBVIOUS
  <1>2. req' = [req EXCEPT ![r] = new]
    BY DEF Answer
  <1>3. /\ new \in Req /\ new.pc = "answered"
        /\ new.task = req[r].task /\ new.worker = req[r].worker
    BY <1>1 DEF Req, Labels
  <1> HIDE DEF new
  <1>4. QED
    BY <1>2, <1>3 DEF Moves

(* A move that is not one to settling, and one that is not the look-up's.  *)
LEMMA MovesFollow ==
  ASSUME Named, NEW r \in Requests, NEW label, Moves(r, label), req[r].pc # "free",
         label \in Settling => req[r].pc \in Settling,
         label \in Working =>
           \/ req[r].pc \in Working
           \/ status[req[r].task] = "CLAIMED" /\ holder[req[r].task] = req[r].worker
  PROVE  RequestsFollow
  <1>1. \A q \in Requests : Follows(req[q], req[q])
    BY DEF Named, Follows
  <1>2. Follows(req[r], req'[r])
    BY DEF Moves, Named, Follows
  <1>3. QED
    BY <1>1, <1>2 DEF Moves, RequestsFollow

LEMMA SameFollow == ASSUME Shapes, Named, req' = req PROVE RequestsFollow
  BY DEF Shapes, Named, Follows, RequestsFollow

LEMMA FreedFollow ==
  ASSUME Shapes, Named, NEW r \in Requests, req' = [req EXCEPT ![r] = NoReq]
  PROVE  RequestsFollow
  <1>1. Follows(req[r], NoReq)
    BY NoneTyped DEF Follows, Working, Settling
  <1>2. \A q \in Requests : Follows(req[q], req[q])
    BY DEF Named, Follows
  <1>3. QED
    BY <1>1, <1>2, NoneTyped DEF Shapes, RequestsFollow

LEMMA SameJobs == ASSUME Shapes, Named, job' = job PROVE JobsNamed
  BY DEF Shapes, Named, JobsNamed

LEMMA EndedJob ==
  ASSUME Shapes, Named, NEW w \in Workers, job' = [job EXCEPT ![w] = NoJob] PROVE JobsNamed
  BY NoneTyped DEF Shapes, Named, JobsNamed

LEMMA SamePaid == ASSUME Shapes, UNCHANGED <<escrow, charged>> PROVE NothingPaid
  BY DEF Shapes, escrow, NothingPaid

LEMMA SameTasks == ASSUME Shapes, Steps, UNCHANGED broker PROVE TasksGoOn
  BY TasksKept DEF TaskEffect

-----------------------------------------------------------------------------
(* The actions outside the handlers.                                       *)
LEMMA PublishInv == ASSUME IInv, NEW i \in Tasks, Publish(i) PROVE IInv'
  <1> USE DEF IInv
  <1>1. TasksGoOn
    BY TasksKept DEF Publish, TaskEffect, Published
  <1>2. NothingPaid
    BY DEF Publish, Shapes, NothingPaid
  <1>3. QED
    BY <1>1, <1>2, SameFollow, SameJobs, QuietInv DEF Publish

LEMMA GrantInv ==
  ASSUME IInv, NEW w \in Workers, NEW i \in Tasks, Claim(w, i) \/ ClaimUnheard(w, i)
  PROVE  IInv'
  <1> USE DEF IInv
  <1>1. Grant(i, w)
    BY DEF Claim, ClaimUnheard
  <1>2. TasksGoOn /\ NothingPaid /\ RequestsFollow
    BY <1>1, TasksKept, SamePaid, SameFollow DEF Grant, TaskEffect, Granted
  <1>3. JobsNamed
    <2>1. CASE ClaimUnheard(w, i)
      BY <2>1, SameJobs DEF ClaimUnheard
    <2>2. CASE Claim(w, i)
      <3>1. PICK result \in Results, keeps \in Keeps :
              job' = [job EXCEPT ![w] = [task |-> i, step |-> step[i], result |-> result,
                                         keeps |-> keeps, attempts |-> MaxAttempts]]
        BY <2>2 DEF Claim
      <3> DEFINE j == [task |-> i, step |-> step[i], result |-> result, keeps |-> keeps,
                       attempts |-> MaxAttempts]
      <3>2. keeps \in BOOLEAN /\ MaxAttempts \in Nat /\ step[i] \in Nat
        BY Constants DEF Shapes
      <3>3. j \in Job /\ j.task \in Tasks
        BY <3>2 DEF Job
      <3> HIDE DEF j
      <3>4. job' = [job EXCEPT ![w] = j]
        BY <3>1 DEF j
      <3>5. QED
        BY <3>3, <3>4 DEF Shapes, Named, JobsNamed
    <2>3. QED
      BY <2>1, <2>2
  <1>4. QED
    BY <1>2, <1>3, QuietInv

LEMMA SendInv == ASSUME IInv, NEW w \in Workers, NEW r \in Requests, Send(w, r) PROVE IInv'
  <1> USE DEF IInv
  <1> DEFINE j == job[w]
             new == [NoReq EXCEPT !.pc = "lookup", !.task = j.task, !.worker = w,
                                  !.step = j.step, !.result = j.result, !.keeps = j.keeps]
             left == [j EXCEPT !.attempts = j.attempts - 1]
  <1>1. j \in Job /\ j.task \in Tasks /\ j.attempts > 0
    BY DEF Send, Shapes, Named
  <1>2. new \in Req /\ new.pc = "lookup" /\ new.task = j.task
    BY <1>1, NoneTyped DEF Job, Req, Labels
  <1>3. left \in Job /\ left.task = j.task
    BY <1>1 DEF Job
  <1>4. req' = [req EXCEPT ![r] = new] /\ job' = [job EXCEPT ![w] = left]
    BY DEF Send
  <1> HIDE DEF new, left
  <1>5. RequestsFollow
    <2>1. Follows(req[r], new)
      BY <1>1, <1>2 DEF Follows, Working, Settling
    <2>2. \A q \in Requests : Follows(req[q], req[q])
      BY DEF Named, Follows
    <2>3. QED
      BY <1>2, <1>4, <2>1, <2>2 DEF Shapes, RequestsFollow
  <1>6. JobsNamed
    BY <1>1, <1>3, <1>4 DEF Shapes, Named, JobsNamed
  <1>7. QED
    BY <1>5, <1>6, SamePaid, SameTasks, QuietInv DEF Send

LEMMA OutsideInv ==
  ASSUME IInv,
         \/ \E i \in Tasks : RecordToken(i)
         \/ \E w \in Workers : GiveUp(w)
         \/ \E r \in Requests : Hear(r) \/ Unheard(r)
         \/ Crash \/ UNCHANGED vars
  PROVE  IInv'
  <1> USE DEF IInv
  <1>1. UNCHANGED <<broker, escrow, charged>>
    BY DEF RecordToken, GiveUp, Hear, Unheard, Crash, vars
  <1>2. CASE (\E i \in Tasks : RecordToken(i)) \/ UNCHANGED vars
    BY <1>1, <1>2, SameTasks, SamePaid, SameFollow, SameJobs, QuietInv DEF RecordToken, vars
  <1>3. ASSUME NEW w \in Workers, GiveUp(w) PROVE IInv'
    BY <1>1, <1>3, SameTasks, SamePaid, SameFollow, EndedJob, QuietInv DEF GiveUp
  <1>4. ASSUME NEW r \in Requests, Unheard(r) PROVE IInv'
    BY <1>1, <1>4, SameTasks, SamePaid, FreedFollow, SameJobs, QuietInv DEF Unheard
  <1>5. ASSUME NEW r \in Requests, Hear(r) PROVE IInv'
    <2>1. JobsNamed
      BY <1>5, SameJobs, NoneTyped DEF Hear, Shapes, Named, JobsNamed
    <2>2. QED
      BY <1>1, <1>5, <2>1, SameTasks, SamePaid, FreedFollow, QuietInv DEF Hear
  <1>6. CASE Crash
    <2>1. req' = [r \in Requests |-> NoReq] /\ job' = job
      BY <1>6 DEF Crash
    <2>2. RequestsFollow
      BY <2>1, NoneTyped DEF RequestsFollow, Follows, Working, Settling
    <2>3. QED
      BY <1>1, <2>1, <2>2, SameTasks, SamePaid, SameJobs, QuietInv
  <1>7. QED
    BY <1>2, <1>3, <1>4, <1>5, <1>6

-----------------------------------------------------------------------------
(* The handler up to the settlement.                                       *)
LEMMA FailEffect == ASSUME NEW i \in Tasks, FailTask(i) PROVE TaskEffect
  <1>1. CASE Completes(i)
    <2>1. Ended(i, "FAILED")
      BY <1>1 DEF FailTask, Completes, Ended
    <2>2. QED
      BY <2>1 DEF TaskEffect
  <1>2. CASE ~Completes(i)
    BY <1>2 DEF FailTask, TaskEffect
  <1>3. QED
    BY <1>1, <1>2

LEMMA SucceedEffect == ASSUME NEW i \in Tasks, SucceedTask(i) PROVE TaskEffect
  BY DEF SucceedTask, Completes, TaskEffect, Ended, Advanced

LEMMA EarlyInv ==
  ASSUME IInv, NEW r \in Requests, Lookup(r) \/ Verify(r) \/ Gate(r) \/ Fail(r)
  PROVE  IInv'
  <1> USE DEF IInv, Shapes
  <1>1. UNCHANGED <<escrow, charged>> /\ JobsNamed /\ NothingPaid
    BY SameJobs, SamePaid DEF Lookup, Verify, Gate, Fail
  <1>2. CASE Lookup(r)
    <2>1. req[r].pc = "lookup" /\ TasksGoOn
      BY <1>2, SameTasks DEF Lookup, At
    <2>2. CASE Goto(r, "verify") /\ Owns(r) /\ status[req[r].task] = "CLAIMED"
      BY <1>1, <2>1, <2>2, GotoMoves, MovesFollow, QuietInv
      DEF Owns, Labels, Working, Settling
    <2>3. CASE Answer(r, FALSE)
      BY <1>1, <2>1, <2>3, AnswerMoves, MovesFollow, QuietInv DEF Working, Settling
    <2>4. QED
      BY <1>2, <2>2, <2>3 DEF Lookup
  <1>3. CASE Verify(r)
    <2> DEFINE new == [req[r] EXCEPT !.pc = "judge", !.piracy = ~Genuine(r)]
    <2>1. req[r].pc = "verify" /\ TasksGoOn /\ req[r] \in Req
      BY <1>3, SameTasks DEF Verify, At
    <2>2. Genuine(r) \in BOOLEAN
      BY DEF Genuine
    <2>3. /\ new \in Req /\ new.pc = "judge"
          /\ new.task = req[r].task /\ new.worker = req[r].worker
      BY <2>1, <2>2 DEF Req, Labels, Working
    <2>4. req' = [req EXCEPT ![r] = new]
      BY <1>3 DEF Verify
    <2> HIDE DEF new
    <2>5. Moves(r, "judge")
      BY <2>3, <2>4 DEF Moves
    <2>6. QED
      BY <1>1, <2>1, <2>5, MovesFollow, QuietInv DEF Working, Settling
  <1>4. CASE Gate(r)
    <2>1. req[r].pc = "judge" /\ TasksGoOn
      BY <1>4, SameTasks DEF Gate, At
    <2>2. CASE Goto(r, "complete") \/ Goto(r, "fail")
      BY <1>1, <2>1, <2>2, GotoMoves, MovesFollow, QuietInv DEF Labels, Working, Settling
    <2>3. CASE Answer(r, FALSE)
      BY <1>1, <2>1, <2>3, AnswerMoves, MovesFollow, QuietInv DEF Working, Settling
    <2>4. QED
      BY <1>4, <2>2, <2>3 DEF Gate
  <1>5. CASE Fail(r)
    <2>1. req[r].pc = "fail" /\ req[r].task \in Tasks
      BY <1>5 DEF Fail, At, Named
    <2>2. TasksGoOn
      BY <1>5, <2>1, FailEffect, TasksKept DEF Fail
    <2>3. QED
      BY <1>1, <1>5, <2>1, <2>2, AnswerMoves, MovesFollow, QuietInv DEF Fail, Working, Settling
  <1>6. QED
    BY <1>2, <1>3, <1>4, <1>5

-----------------------------------------------------------------------------
(* The settlement.                                                         *)
LEMMA CompleteInv == ASSUME IInv, NEW r \in Requests, Complete(r) PROVE IInv'
  <1> USE DEF IInv
  <1> DEFINE i == req[r].task
  <1>1. req[r].pc = "complete" /\ i \in Tasks /\ req \in [Requests -> Req]
    BY DEF Complete, At, Named, Shapes
  <1>2. TasksGoOn /\ JobsNamed /\ NothingPaid
    BY <1>1, SucceedEffect, TasksKept, SameJobs, SamePaid DEF Complete
  <1>3. CASE \E ok \in BOOLEAN : Answer(r, ok)
    BY <1>1, <1>2, <1>3, AnswerMoves, MovesFollow, QuietInv DEF Working, Settling
  <1>4. CASE Settles(i) /\ Goto(r, "release")
    <2>1. /\ status[i] = "CLAIMED" /\ status' = [status EXCEPT ![i] = "SUCCESS"]
          /\ holder' = holder /\ step' = step
          /\ UNCHANGED <<hold, payee, charged, job>>
      BY <1>4 DEF Settles, Completes, Complete, SucceedTask, escrow
    <2>2. Moves(r, "release")
      BY <1>1, <1>4, GotoMoves DEF Labels, Settling
    <2>3. status'[i] = "SUCCESS" /\ \A k \in Tasks : k # i => status'[k] = status[k]
      BY <1>1, <2>1 DEF Shapes
    <2>4. charged[i] = 0
      BY <1>1, <2>1 DEF OneSettles, Shapes
    <2>5. \A q \in Requests : req[q].pc \in Settling => req[q].task # i
      BY <2>1 DEF OneSettles
    <2>6. Shapes' /\ Steps'
      BY <1>2, <2>1, <2>2 DEF Shapes, Steps, TasksGoOn, Moves, LastStep
    <2>7. Named'
      BY <1>1, <2>1, <2>2 DEF Named, Moves
    <2>8. SingleOwned'
      <3>1. \A q \in Requests :
              req'[q].pc \in Working \cup Settling =>
                /\ req[q].pc \in Working \cup Settling
                /\ req'[q].task = req[q].task /\ req'[q].worker = req[q].worker
        BY <1>1, <2>2 DEF Moves, Working
      <3>2. \A q \in Requests : req[q].pc \in Working \cup Settling => req[q].task \in Tasks
        BY DEF Named, Working, Settling
      <3>3. QED
        BY <1>2, <2>1, <3>1, <3>2 DEF SingleOwned, TasksGoOn
    <2>9. OneSettles'
      <3>1. \A q \in Requests : q # r /\ req'[q].pc \in Settling =>
              /\ req'[q] = req[q] /\ req[q].pc \in Settling
              /\ req[q].task # i /\ req[q].task \in Tasks
        BY <2>2, <2>5 DEF Moves, Named, Settling
      <3>2. \A q \in Requests : req'[q].pc \in Settling =>
              status'[req'[q].task] = "SUCCESS" /\ charged'[req'[q].task] = 0
        BY <2>1, <2>2, <2>3, <2>4, <3>1 DEF Moves, OneSettles
      <3>3. \A p, q \in Requests :
              req'[p].pc \in Settling /\ req'[q].pc \in Settling /\ req'[p].task = req'[q].task
                => p = q
        BY <2>2, <3>1 DEF Moves, OneSettles
      <3>4. \A k \in Tasks : charged'[k] > 0 => status'[k] = "SUCCESS"
        BY <2>1, <2>3 DEF OneSettles
      <3>5. QED
        BY <3>2, <3>3, <3>4 DEF OneSettles
    <2>10. SinglePaidToClaimant' /\ ChargedOnce'
      BY <2>1, <2>3 DEF SinglePaidToClaimant, ChargedOnce
    <2>11. QED
      BY <2>6, <2>7, <2>8, <2>9, <2>10
  <1>5. QED
    BY <1>3, <1>4 DEF Complete

LEMMA ReleaseInv == ASSUME IInv, NEW r \in Requests, Release(r) PROVE IInv'
  <1> USE DEF IInv
  <1> DEFINE i == req[r].task
             w == req[r].worker
  <1>1. /\ req[r].pc = "release" /\ i \in Tasks /\ req[r] \in Req /\ req \in [Requests -> Req]
        /\ UNCHANGED <<broker, charged, job>>
    BY DEF Release, At, Named, Shapes
  <1>2. w \in Workers \cup {NoWorker}
    BY <1>1 DEF Req
  <1>3. Moves(r, "record")
    BY <1>1, GotoMoves DEF Release, Labels, Settling
  <1>4. TasksGoOn /\ JobsNamed /\ RequestsFollow
    BY <1>1, <1>3, SameTasks, SameJobs, MovesFollow DEF Working, Settling
  <1>5. CASE UNCHANGED escrow
    BY <1>1, <1>4, <1>5, SamePaid, QuietInv
  <1>6. CASE hold' = [hold EXCEPT ![i] = "paid"] /\ payee' = [payee EXCEPT ![i] = w]
    <2>1. status[i] = "SUCCESS" /\ (i \notin Pipelines => holder[i] = w)
      BY <1>1 DEF OneSettles, SingleOwned, Settling
    <2>2. SinglePaidToClaimant'
      BY <1>1, <1>6, <2>1 DEF SinglePaidToClaimant, Shapes, broker
    <2>3. /\ hold' \in [Tasks -> {"none", "frozen", "paid", "returned"}]
          /\ payee' \in [Tasks -> Workers \cup {NoWorker}]
      BY <1>1, <1>2, <1>6 DEF Shapes
    <2>4. Shapes' /\ Steps' /\ Named'
      BY <1>1, <1>4, <2>3
      DEF Shapes, Steps, Named, broker, TasksGoOn, RequestsFollow, Follows, JobsNamed, LastStep
    <2>5. SingleOwned' /\ OneSettles' /\ ChargedOnce'
      <3>1. \A q \in Requests :
              /\ req'[q].task = req[q].task /\ req'[q].worker = req[q].worker
              /\ req'[q].pc \in Settling <=> req[q].pc \in Settling
              /\ req'[q].pc \in Working <=> req[q].pc \in Working
        BY <1>1, <1>3 DEF Moves, Working, Settling
      <3>2. QED
        BY <1>1, <3>1 DEF SingleOwned, OneSettles, ChargedOnce, broker
    <2>6. QED
      BY <2>2, <2>4, <2>5
  <1>7. QED
    BY <1>5, <1>6 DEF Release, ReleaseEscrow

LEMMA RecordInv == ASSUME IInv, NEW r \in Requests, Record(r) PROVE IInv'
  <1> USE DEF IInv
  <1>1. /\ req[r].pc = "record" /\ req[r].task \in Tasks /\ req \in [Requests -> Req]
        /\ UNCHANGED <<escrow, charged, job>>
    BY DEF Record, At, Named, Shapes
  <1>2. UNCHANGED broker
    BY <1>1 DEF Record, SucceedTask, Completes, OneSettles, Settling
  <1>3. RequestsFollow
    BY <1>1, GotoMoves, MovesFollow DEF Record, Labels, Working, Settling
  <1>4. QED
    BY <1>1, <1>2, <1>3, SameTasks, SamePaid, SameJobs, QuietInv

LEMMA ChargeInv == ASSUME IInv, NEW r \in Requests, Charge(r) PROVE IInv'
  <1> USE DEF IInv
  <1> DEFINE i == req[r].task
  <1>1. /\ req[r].pc = "charge" /\ i \in Tasks /\ req \in [Requests -> Req]
        /\ UNCHANGED <<broker, escrow, job>>
    BY DEF Charge, At, Named, Shapes
  <1>2. Moves(r, "answered")
    BY <1>1, AnswerMoves DEF Charge
  <1>3. TasksGoOn /\ JobsNamed /\ RequestsFollow
    BY <1>1, <1>2, SameTasks, SameJobs, MovesFollow DEF Working, Settling
  <1>4. CASE charged' = charged
    BY <1>1, <1>3, <1>4, SamePaid, QuietInv
  <1>5. CASE charged' = [charged EXCEPT ![i] = charged[i] + 1]
    <2>1. status[i] = "SUCCESS" /\ charged[i] = 0
      BY <1>1 DEF OneSettles, Settling
    <2>2. charged' \in [Tasks -> Nat] /\ charged'[i] = 1
          /\ \A k \in Tasks : k # i => charged'[k] = charged[k]
      BY <1>1, <1>5, <2>1 DEF Shapes
    <2>3. \A q \in Requests : req'[q].pc \in Settling =>
            q # r /\ req'[q] = req[q] /\ req[q].task # i /\ req[q].task \in Tasks
      BY <1>1, <1>2 DEF Moves, OneSettles, Named, Settling
    <2>4. OneSettles'
      BY <1>1, <2>1, <2>2, <2>3 DEF OneSettles, broker
    <2>5. SingleOwned'
      BY <1>1, <1>2 DEF SingleOwned, Moves, broker, Working, Settling
    <2>6. Shapes' /\ Steps' /\ Named'
      BY <1>1, <1>3, <2>2
      DEF Shapes, Steps, Named, broker, escrow, TasksGoOn, RequestsFollow, Follows, JobsNamed,
          LastStep
    <2>7. SinglePaidToClaimant' /\ ChargedOnce'
      BY <1>1, <2>2 DEF SinglePaidToClaimant, ChargedOnce, broker, escrow
    <2>8. QED
      BY <2>4, <2>5, <2>6, <2>7
  <1>6. QED
    BY <1>4, <1>5 DEF Charge

-----------------------------------------------------------------------------
LEMMA InitIInv == Init => IInv
  <1> SUFFICES ASSUME Init PROVE IInv
    OBVIOUS
  <1>1. \A r \in Requests : req[r] = NoReq
    BY DEF Init
  <1>2. Shapes
    BY NoneTyped DEF Init, Shapes, Statuses
  <1>3. Steps /\ Named
    BY <1>1, NoneTyped, Constants DEF Init, Steps, Named
  <1>4. SingleOwned
    BY <1>1, NoneTyped DEF SingleOwned, Working, Settling
  <1>5. OneSettles /\ ChargedOnce
    BY <1>1, NoneTyped DEF Init, OneSettles, ChargedOnce, Settling
  <1>6. SinglePaidToClaimant
    BY DEF Init, SinglePaidToClaimant
  <1>7. QED
    BY <1>2, <1>3, <1>4, <1>5, <1>6 DEF IInv

LEMMA NextIInv == IInv /\ [Next]_vars => IInv'
  <1> SUFFICES ASSUME IInv, [Next]_vars PROVE IInv'
    OBVIOUS
  <1>1. ASSUME NEW i \in Tasks, Publish(i) PROVE IInv'
    BY <1>1, PublishInv
  <1>2. ASSUME NEW w \in Workers, NEW i \in Tasks, Claim(w, i) \/ ClaimUnheard(w, i) PROVE IInv'
    BY <1>2, GrantInv
  <1>3. ASSUME NEW w \in Workers, NEW r \in Requests, Send(w, r) PROVE IInv'
    BY <1>3, SendInv
  <1>4. ASSUME NEW r \in Requests, Handle(r) PROVE IInv'
    BY <1>4, EarlyInv, CompleteInv, ReleaseInv, RecordInv, ChargeInv DEF Handle
  <1>5. CASE \/ \E i \in Tasks : RecordToken(i)
             \/ \E w \in Workers : GiveUp(w)
             \/ \E r \in Requests : Hear(r) \/ Unheard(r)
             \/ Crash \/ UNCHANGED vars
    BY <1>5, OutsideInv
  <1>6. QED
    BY <1>1, <1>2, <1>3, <1>4, <1>5 DEF Next

LEMMA IInvHolds == Spec => []IInv
  BY InitIInv, NextIInv, PTL DEF Spec

(* A budget is paid out for a successful task only, that of a task of one  *)
(* step to its claimant, whatever duplicates are handled at once:          *)
(* submit_task, complete_task, release_escrow_dynamic.                     *)
THEOREM PaidSafe == Spec => []SinglePaidToClaimant
  <1>1. IInv => SinglePaidToClaimant
    BY DEF IInv
  <1>2. QED
    BY IInvHolds, <1>1, PTL

(* However many requests carry its result, a task is charged at most once: *)
(* complete_task answers "settle" to one of them.                          *)
THEOREM ChargedSafe == Spec => []ChargedOnce
  <1>1. IInv => ChargedOnce
    BY DEF IInv
  <1>2. QED
    BY IInvHolds, <1>1, PTL

-----------------------------------------------------------------------------
(* That every success is paid: a published task keeps its hold until it is *)
(* paid, and one request at the release keeps its task.                    *)
HoldsKept ==
  \A i \in Tasks : hold[i] \in IF status[i] = "ABSENT" THEN {"none"} ELSE {"frozen", "paid"}
PayInv == IInv /\ HoldsKept /\ SuccessIsPaid

LEMMA PayKept ==
  ASSUME SuccessIsPaid, cut' = cut,
         \A i \in Tasks : status'[i] = "SUCCESS" => status[i] = "SUCCESS",
         \A i \in Tasks : hold[i] = "paid" => hold'[i] = "paid",
         \A q \in Requests : req[q].pc = "release" =>
           req'[q].pc = "release" /\ req'[q].task = req[q].task
  PROVE  SuccessIsPaid'
  BY DEF SuccessIsPaid, At

(* A step that leaves the ledger alone, and completes nothing.             *)
LEMMA QuietPay ==
  ASSUME PayInv, cut' = cut, hold' = hold, NEW r \in Requests, req[r].pc # "release",
         \A q \in Requests : q # r => req'[q] = req[q],
         \A i \in Tasks : status'[i] = "SUCCESS" => status[i] = "SUCCESS",
         \A i \in Tasks : status[i] = "ABSENT" <=> status'[i] = "ABSENT"
  PROVE  HoldsKept' /\ SuccessIsPaid'
  <1>1. SuccessIsPaid'
    BY PayKept DEF PayInv
  <1>2. HoldsKept'
    BY DEF PayInv, HoldsKept
  <1>3. QED
    BY <1>1, <1>2

LEMMA OutsidePay ==
  ASSUME PayInv,
         \/ \E i \in Tasks : Publish(i) \/ RecordToken(i)
         \/ \E w \in Workers, i \in Tasks : Claim(w, i) \/ ClaimUnheard(w, i)
         \/ \E w \in Workers, r \in Requests : Send(w, r)
         \/ \E w \in Workers : GiveUp(w)
         \/ UNCHANGED vars
  PROVE  HoldsKept' /\ SuccessIsPaid'
  <1> USE DEF PayInv, IInv, Shapes, HoldsKept
  <1>1. ASSUME NEW i \in Tasks, Publish(i) PROVE HoldsKept' /\ SuccessIsPaid'
    BY <1>1, PayKept DEF Publish, past
  <1>2. ASSUME NEW i \in Tasks, NEW w \in Workers, Grant(i, w)
        PROVE  HoldsKept' /\ SuccessIsPaid'
    BY <1>2, PayKept DEF Grant, past, escrow
  <1>3. CASE \/ \E i \in Tasks : RecordToken(i)
             \/ \E w \in Workers : GiveUp(w)
             \/ UNCHANGED vars
    BY <1>3, PayKept DEF RecordToken, GiveUp, vars, past, broker, escrow
  <1>4. ASSUME NEW w \in Workers, NEW r \in Requests, Send(w, r)
        PROVE  HoldsKept' /\ SuccessIsPaid'
    <2>1. req[r].pc # "release" /\ \A q \in Requests : q # r => req'[q] = req[q]
      BY <1>4, NoneTyped DEF Send
    <2>2. QED
      BY <1>4, <2>1, QuietPay DEF Send, past, broker, escrow
  <1>5. QED
    BY <1>1, <1>2, <1>3, <1>4 DEF Claim, ClaimUnheard

LEMMA HandlerPay ==
  ASSUME PayInv, NEW r \in Requests, Hear(r) \/ Unheard(r) \/ Handle(r)
  PROVE  HoldsKept' /\ SuccessIsPaid'
  <1> USE DEF PayInv, IInv, Shapes
  <1>1. \A q \in Requests : q # r => req'[q] = req[q]
    BY DEF Hear, Unheard, Handle, Lookup, Verify, Gate, Fail, Complete, Release, Record, Charge,
           Goto, Answer
  <1>2. CASE \/ Hear(r) \/ Unheard(r) \/ Lookup(r) \/ Verify(r) \/ Gate(r) \/ Charge(r)
    BY <1>1, <1>2, QuietPay
    DEF Hear, Unheard, Lookup, Verify, Gate, Charge, At, past, broker, escrow
  <1>3. CASE Fail(r)
    <2>1. req[r].pc = "fail" /\ req[r].task \in Tasks /\ hold' = hold /\ cut' = cut
      BY <1>3 DEF Fail, At, Named, past, escrow
    <2>2. \A i \in Tasks : /\ status'[i] = "SUCCESS" => status[i] = "SUCCESS"
                           /\ status[i] = "ABSENT" <=> status'[i] = "ABSENT"
      BY <1>3, <2>1 DEF Fail, FailTask, Completes, broker
    <2>3. QED
      BY <1>1, <2>1, <2>2, QuietPay
  <1>4. CASE Record(r)
    <2>1. req[r].pc = "record" /\ hold' = hold /\ cut' = cut
      BY <1>4 DEF Record, At, past, escrow
    <2>2. UNCHANGED broker
      BY <1>4, <2>1 DEF Record, SucceedTask, Completes, OneSettles, Settling
    <2>3. QED
      BY <1>1, <2>1, <2>2, QuietPay DEF broker
  <1>5. CASE Complete(r)
    <2> DEFINE i == req[r].task
    <2>1. req[r].pc = "complete" /\ i \in Tasks /\ hold' = hold /\ cut' = cut
      BY <1>5 DEF Complete, At, Named, past, escrow
    <2>2. /\ \A k \in Tasks : status[k] = "ABSENT" <=> status'[k] = "ABSENT"
          /\ \A k \in Tasks \ {i} : status'[k] = status[k]
          /\ ~Settles(i) => (status'[i] = "SUCCESS" => status[i] = "SUCCESS")
      BY <1>5, <2>1 DEF Complete, SucceedTask, Completes, Settles, Advances, broker
    <2>3. CASE ~Settles(i)
      BY <1>1, <2>1, <2>2, <2>3, QuietPay
    <2>4. CASE Settles(i)
      <3>1. HoldsKept'
        BY <2>1, <2>2 DEF HoldsKept
      <3>2. i \notin VaultFunded => req'[r].pc = "release" /\ req'[r].task = i
        BY <1>5, <2>1, <2>4 DEF Complete, Goto, Req
      <3>3. SuccessIsPaid'
        <4> SUFFICES ASSUME NEW k \in Tasks \ (VaultFunded \cup cut), status'[k] = "SUCCESS",
                            hold'[k] # "paid"
                     PROVE  \E q \in Requests : req'[q].pc = "release" /\ req'[q].task = k
          BY <2>1 DEF SuccessIsPaid, At
        <4>1. CASE k = i
          BY <3>2, <4>1
        <4>2. CASE k # i
          <5>1. PICK q \in Requests : req[q].pc = "release" /\ req[q].task = k
            BY <2>1, <2>2, <4>2 DEF SuccessIsPaid, At
          <5>2. QED
            BY <1>1, <2>1, <5>1
        <4>3. QED
          BY <4>1, <4>2
      <3>4. QED
        BY <3>1, <3>3
    <2>5. QED
      BY <2>3, <2>4
  <1>6. CASE Release(r)
    <2> DEFINE i == req[r].task
    <2>1. /\ req[r].pc = "release" /\ i \in Tasks /\ cut' = cut /\ status' = status
          /\ status[i] = "SUCCESS"
      BY <1>6 DEF Release, At, Named, past, broker, OneSettles, Settling
    <2>2. hold'[i] = "paid" /\ \A k \in Tasks \ {i} : hold'[k] = hold[k]
      BY <1>6, <2>1 DEF Release, ReleaseEscrow, HoldsKept, escrow
    <2>3. HoldsKept'
      BY <2>1, <2>2 DEF HoldsKept
    <2>4. SuccessIsPaid'
      BY <1>1, <2>1, <2>2 DEF SuccessIsPaid, At
    <2>5. QED
      BY <2>3, <2>4
  <1>7. QED
    BY <1>2, <1>3, <1>4, <1>5, <1>6 DEF Handle

LEMMA CrashPay == ASSUME PayInv, Crash PROVE HoldsKept' /\ SuccessIsPaid'
  BY DEF PayInv, HoldsKept, SuccessIsPaid, Crash, At, broker, escrow

(* Whatever is answered and however often, a task that ends in success is  *)
(* paid out of its hold or has a handler about to pay it, unless a crash   *)
(* ended that handler: submit_task, complete_task.                         *)
THEOREM PayoutSafe == Spec => []SuccessIsPaid
  <1>1. Init => PayInv
    BY InitIInv DEF Init, PayInv, HoldsKept, SuccessIsPaid
  <1>2. PayInv /\ [Next]_vars => PayInv'
    <2> SUFFICES ASSUME PayInv, [Next]_vars PROVE HoldsKept' /\ SuccessIsPaid'
      BY NextIInv DEF PayInv
    <2>1. QED
      BY OutsidePay, HandlerPay, CrashPay DEF Next
  <1>3. PayInv => SuccessIsPaid
    BY DEF PayInv
  <1>4. QED
    BY <1>1, <1>2, <1>3, PTL DEF Spec

-----------------------------------------------------------------------------
(* The refinement of TaskLifecycle.                                        *)
leftBar == [i \in Tasks |-> IF status[i] = "ABSENT" THEN 0 ELSE LastStep(i) + 1 - step[i]]

LEMMA BrokerEffect ==
  ASSUME IInv, [Next]_vars PROVE TaskEffect
  <1> USE DEF IInv
  <1>1. ASSUME NEW i \in Tasks, Publish(i) PROVE TaskEffect
    BY <1>1 DEF Publish, TaskEffect, Published
  <1>2. ASSUME NEW w \in Workers, NEW i \in Tasks, Claim(w, i) \/ ClaimUnheard(w, i)
        PROVE  TaskEffect
    BY <1>2 DEF Claim, ClaimUnheard, Grant, TaskEffect, Granted
  <1>3. ASSUME NEW r \in Requests, Handle(r) PROVE TaskEffect
    <2>1. req[r].pc # "free" => req[r].task \in Tasks
      BY DEF Named
    <2>2. CASE Fail(r)
      BY <2>1, <2>2, FailEffect DEF Fail, At
    <2>3. CASE Complete(r) \/ Record(r)
      BY <2>1, <2>3, SucceedEffect DEF Complete, Record, At
    <2>4. QED
      BY <1>3, <2>2, <2>3 DEF Handle, Lookup, Verify, Gate, Release, Charge, TaskEffect
  <1>4. CASE \/ \E i \in Tasks : RecordToken(i)
             \/ \E w \in Workers, r \in Requests : Send(w, r)
             \/ \E w \in Workers : GiveUp(w)
             \/ \E r \in Requests : Hear(r) \/ Unheard(r)
             \/ Crash \/ UNCHANGED vars
    BY <1>4 DEF RecordToken, Send, GiveUp, Hear, Unheard, Crash, vars, TaskEffect
  <1>5. QED
    BY <1>1, <1>2, <1>3, <1>4 DEF Next

LEMMA LifecycleStep ==
  ASSUME IInv, TaskEffect
  PROVE  Lifecycle!Next \/ UNCHANGED <<status, holder, leftBar>>
  <1> USE Constants DEF IInv, Shapes, Steps
  <1>0. leftBar' = [i \in Tasks |-> IF status'[i] = "ABSENT" THEN 0 ELSE LastStep(i) + 1 - step'[i]]
    BY DEF leftBar, LastStep
  <1>1. CASE UNCHANGED broker
    BY <1>0, <1>1 DEF broker, leftBar
  <1>2. ASSUME NEW i \in Tasks, Published(i) PROVE Lifecycle!Next
    <2>1. leftBar' = [leftBar EXCEPT ![i] = LastStep(i) + 1]
      <3>1. status[i] = "ABSENT" /\ step[i] = 0 /\ step' = step /\ LastStep(i) + 1 - 0 = LastStep(i) + 1
        BY <1>2 DEF Published
      <3>2. \A k \in Tasks : status'[k] = IF k = i THEN "PENDING" ELSE status[k]
        BY <1>2 DEF Published
      <3>3. QED
        BY <1>0, <3>1, <3>2 DEF leftBar
    <2>2. Lifecycle!Publish(i, LastStep(i) + 1)
      BY <1>2, <2>1 DEF Published, Lifecycle!Publish, leftBar
    <2>3. QED
      BY <2>2 DEF Lifecycle!Next
  <1>3. ASSUME NEW i \in Tasks, NEW w \in Workers, Granted(i, w) PROVE Lifecycle!Next
    <2>1. leftBar' = leftBar
      BY <1>0, <1>3 DEF Granted, leftBar
    <2>2. Lifecycle!Claim(i, w)
      BY <1>3, <2>1 DEF Granted, Lifecycle!Claim, leftBar
    <2>3. QED
      BY <2>2 DEF Lifecycle!Next
  <1>4. ASSUME NEW i \in Tasks, Ended(i, "FAILED") PROVE Lifecycle!Next
    <2>1. leftBar' = leftBar
      BY <1>0, <1>4 DEF Ended, leftBar
    <2>2. Lifecycle!Fail(i)
      BY <1>4, <2>1 DEF Ended, Lifecycle!Fail, leftBar
    <2>3. QED
      BY <2>2 DEF Lifecycle!Next
  <1>5. ASSUME NEW i \in Tasks, Ended(i, "SUCCESS"), ~Advances(i) PROVE Lifecycle!Next
    <2>1. leftBar' = leftBar /\ leftBar[i] = 1
      BY <1>0, <1>5 DEF Ended, Advances, leftBar
    <2>2. Lifecycle!Succeed(i)
      BY <1>5, <2>1 DEF Ended, Lifecycle!Succeed, leftBar
    <2>3. QED
      BY <2>2 DEF Lifecycle!Next
  <1>6. ASSUME NEW i \in Tasks, Advanced(i) PROVE Lifecycle!Next
    <2>1. leftBar[i] > 1 /\ leftBar' = [leftBar EXCEPT ![i] = leftBar[i] - 1]
      <3>1. /\ status[i] = "CLAIMED" /\ step[i] < LastStep(i) /\ step'[i] = step[i] + 1
            /\ LastStep(i) \in Nat /\ step[i] \in Nat
        BY <1>6 DEF Advanced, Advances
      <3>2. \A k \in Tasks \ {i} : status'[k] = status[k] /\ step'[k] = step[k]
        BY <1>6 DEF Advanced
      <3>3. leftBar[i] = LastStep(i) + 1 - step[i] /\ leftBar'[i] = LastStep(i) + 1 - (step[i] + 1)
        BY <1>0, <1>6, <3>1 DEF Advanced, leftBar
      <3>4. leftBar[i] > 1 /\ leftBar'[i] = leftBar[i] - 1
        BY <3>1, <3>3
      <3>5. \A k \in Tasks \ {i} : leftBar'[k] = leftBar[k]
        BY <1>0, <3>2 DEF leftBar
      <3>6. leftBar' = [k \in Tasks |-> leftBar'[k]] /\ leftBar = [k \in Tasks |-> leftBar[k]]
        BY <1>0 DEF leftBar
      <3>7. QED
        BY <3>4, <3>5, <3>6
    <2>2. Lifecycle!Advance(i)
      BY <1>6, <2>1 DEF Advanced, Lifecycle!Advance, leftBar
    <2>3. QED
      BY <2>2 DEF Lifecycle!Next
  <1>7. QED
    BY <1>1, <1>2, <1>3, <1>4, <1>5, <1>6 DEF TaskEffect

(* What any number of handlers, retries and crashes do to a task is what   *)
(* the broker promises: one publication, one claimant at a time, the steps *)
(* in order, one end.                                                      *)
THEOREM FlowImplementsLifecycle == Spec => ImplementsLifecycle
  <1>1. Init => Lifecycle!Init
    BY DEF Init, Lifecycle!Init
  <1>2. IInv /\ [Next]_vars => [Lifecycle!Next]_<<status, holder, leftBar>>
    BY BrokerEffect, LifecycleStep
  <1>3. QED
    BY IInvHolds, <1>1, <1>2, PTL DEF Spec, ImplementsLifecycle, Lifecycle!Spec, leftBar
=============================================================================
