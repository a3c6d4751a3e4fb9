----------------------------- MODULE SubmitFlow -----------------------------
(***************************************************************************)
(* From a claim to the settlement: the worker's loop (src/worker/worker.py)*)
(* that claims, executes and submits with retries, and the gateway's       *)
(* submit handler (src/gateway/server.py) that many requests run at once.  *)
(*                                                                         *)
(* The gateway is one asyncio loop: a handler runs undisturbed between two *)
(* awaits, and each await hands one broker or ledger operation to a thread.*)
(* An action is therefore the code up to and including one such operation. *)
(* The broker's and the ledger's operations are atomic here (TaskBroker    *)
(* looks inside the first); their strikes, the circuit breaker and the     *)
(* credit scores are written by the handler and read by none of it, and    *)
(* are left out.                                                           *)
(***************************************************************************)
EXTENDS Integers, FiniteSets

CONSTANTS
  Tasks,
  Pipelines,     (* those with MaxSteps steps; the others have one          *)
  Watermarked,   (* those published by /api/run with a canary token         *)
  VaultFunded,   (* those paid into a vault by the simulated fiat payment   *)
  Workers,
  Requests,      (* submit requests the gateway has at one time             *)
  Results,       (* "good", "invalid" (schema) or "poor" (judge)            *)
  Keeps,         (* whether the worker's skill passes the token through     *)
  MaxSteps, MaxAttempts, MaxCrashes,
  NoTask, NoWorker

ASSUME SubmitAssumption ==
  /\ Pipelines \subseteq Tasks /\ Watermarked \subseteq Tasks /\ VaultFunded \subseteq Tasks
  /\ NoTask \notin Tasks /\ NoWorker \notin Workers
  /\ MaxSteps \in Nat \ {0, 1} /\ MaxAttempts \in Nat \ {0} /\ MaxCrashes \in Nat
  /\ Results \subseteq {"good", "invalid", "poor"} /\ Keeps \subseteq BOOLEAN

VARIABLES
  status, holder, step,   (* _status ("ABSENT" before publish), pipeline_step *)
  hold, payee,            (* the escrow hold, and who was paid out of it    *)
  token,                  (* "none", "late" (not recorded yet), "issued", "used" *)
  charged,                (* charge_and_settle calls that completed         *)
  blacklist,
  job,                    (* worker -> what it is working on                *)
  req,                    (* request -> locals of its handler               *)
  crashes,
  cut                     (* tasks a crash kept a handler from paying: history *)

broker == <<status, holder, step>>
escrow == <<hold, payee>>
past == <<crashes, cut>>
vars == <<broker, escrow, token, charged, blacklist, job, req, past>>

LastStep(i) == IF i \in Pipelines THEN MaxSteps - 1 ELSE 0

NoJob == [task |-> NoTask, step |-> 0, result |-> "good", keeps |-> TRUE, attempts |-> 0]
NoReq == [pc |-> "free", task |-> NoTask, worker |-> NoWorker, step |-> 0,
          result |-> "good", keeps |-> TRUE, piracy |-> FALSE, ok |-> FALSE]

Init ==
  /\ status = [i \in Tasks |-> "ABSENT"]
  /\ holder = [i \in Tasks |-> NoWorker]
  /\ step = [i \in Tasks |-> 0]
  /\ hold = [i \in Tasks |-> "none"]
  /\ payee = [i \in Tasks |-> NoWorker]
  /\ token = [i \in Tasks |-> "none"]
  /\ charged = [i \in Tasks |-> 0]
  /\ blacklist = {}
  /\ job = [w \in Workers |-> NoJob]
  /\ req = [r \in Requests |-> NoReq]
  /\ crashes = 0 /\ cut = {}

-----------------------------------------------------------------------------
(* The gateway's operations on the broker and the ledger.                  *)

(* publish_task; in a watermarked task's payload there is a token.         *)
Publish(i) ==
  /\ status[i] = "ABSENT"
  /\ status' = [status EXCEPT ![i] = "PENDING"]
  /\ hold' = [hold EXCEPT ![i] = "frozen"]
  /\ token' = [token EXCEPT ![i] = IF i \in Watermarked THEN "late" ELSE "none"]
  /\ UNCHANGED <<holder, step, payee, charged, blacklist, job, req, past>>

(* run_skill records the token it put in the payload once the task is      *)
(* published, when a worker may have claimed it already.                   *)
RecordToken(i) ==
  /\ token[i] = "late"
  /\ token' = [token EXCEPT ![i] = "issued"]
  /\ UNCHANGED <<broker, escrow, charged, blacklist, job, req, past>>

(* Mutant: complete_task does not ask for a CLAIMED task.                  *)
CompletesAnything(i) == TRUE
Completes(i) == status[i] = "CLAIMED"

FailTask(i) ==
  IF Completes(i)
    THEN status' = [status EXCEPT ![i] = "FAILED"] /\ UNCHANGED <<holder, step>>
    ELSE UNCHANGED broker

Advances(i) == step[i] < LastStep(i)

SucceedTask(i) ==
  IF ~Completes(i) THEN UNCHANGED broker
  ELSE IF Advances(i)
    THEN /\ step' = [step EXCEPT ![i] = @ + 1]
         /\ status' = [status EXCEPT ![i] = "PENDING"]
         /\ holder' = [holder EXCEPT ![i] = NoWorker]
    ELSE /\ status' = [status EXCEPT ![i] = "SUCCESS"]
         /\ UNCHANGED <<holder, step>>

(* release_escrow_dynamic: pops the hold, pays w or returns it to the user *)
(* and answers nothing when the hold is gone.                              *)
ReleaseEscrow(i, w, success) ==
  IF hold[i] # "frozen" THEN UNCHANGED escrow
  ELSE /\ hold' = [hold EXCEPT ![i] = IF success THEN "paid" ELSE "returned"]
       /\ payee' = [payee EXCEPT ![i] = IF success THEN w ELSE NoWorker]

-----------------------------------------------------------------------------
(* The worker.                                                             *)

Grant(i, w) ==
  /\ status[i] = "PENDING"
  /\ status' = [status EXCEPT ![i] = "CLAIMED"]
  /\ holder' = [holder EXCEPT ![i] = w]
  /\ UNCHANGED <<step, escrow, token, charged, blacklist, req, past>>

Claim(w, i) ==
  /\ job[w] = NoJob
  /\ Grant(i, w)
  /\ \E result \in Results, keeps \in Keeps :
       job' = [job EXCEPT ![w] = [task |-> i, step |-> step[i], result |-> result,
                                  keeps |-> keeps, attempts |-> MaxAttempts]]

(* The answer to the claim is lost: the worker asks again, for any task.   *)
ClaimUnheard(w, i) ==
  /\ job[w] = NoJob
  /\ Grant(i, w)
  /\ UNCHANGED job

(* A first attempt, or another after an error or 30 s without an answer.   *)
Send(w, r) ==
  LET j == job[w]
  IN  /\ j # NoJob
      /\ j.attempts > 0
      /\ req[r] = NoReq
      /\ req' = [req EXCEPT ![r] = [NoReq EXCEPT !.pc = "lookup", !.task = j.task,
                   !.worker = w, !.step = j.step, !.result = j.result, !.keeps = j.keeps]]
      /\ job' = [job EXCEPT ![w].attempts = @ - 1]
      /\ UNCHANGED <<broker, escrow, token, charged, blacklist, past>>

(* An answer arrives.  200 ends the job.                                   *)
Hear(r) ==
  LET w == req[r].worker
  IN  /\ req[r].pc = "answered"
      /\ req' = [req EXCEPT ![r] = NoReq]
      /\ job' = IF req[r].ok /\ job[w].task = req[r].task /\ job[w].step = req[r].step
                  THEN [job EXCEPT ![w] = NoJob] ELSE job
      /\ UNCHANGED <<broker, escrow, token, charged, blacklist, past>>

(* Or is lost, or comes after the worker has stopped waiting for it.       *)
Unheard(r) ==
  /\ req[r].pc = "answered"
  /\ req' = [req EXCEPT ![r] = NoReq]
  /\ UNCHANGED <<broker, escrow, token, charged, blacklist, job, past>>

GiveUp(w) ==
  /\ job[w] # NoJob
  /\ job[w].attempts = 0
  /\ job' = [job EXCEPT ![w] = NoJob]
  /\ UNCHANGED <<broker, escrow, token, charged, blacklist, req, past>>

-----------------------------------------------------------------------------
(* submit_task, one action per await.                                      *)

At(r, label) == req[r].pc = label
Goto(r, label) == req' = [req EXCEPT ![r].pc = label]
Answer(r, ok) == req' = [req EXCEPT ![r].pc = "answered", ![r].ok = ok]

Owns(r) == holder[req[r].task] = req[r].worker

Lookup(r) ==
  /\ At(r, "lookup")
  /\ IF Owns(r) /\ status[req[r].task] = "CLAIMED" THEN Goto(r, "verify") ELSE Answer(r, FALSE)
  /\ UNCHANGED <<broker, escrow, token, charged, blacklist, job, past>>

(* get_task_meta, then verify_token without an await: one use per task.    *)
Genuine(r) ==
  LET i == req[r].task
  IN  token[i] \in {"none", "late"} \/ (req[r].keeps /\ token[i] = "issued")

Verify(r) ==
  LET i == req[r].task
  IN  /\ At(r, "verify")
      /\ req' = [req EXCEPT ![r].pc = "judge", ![r].piracy = ~Genuine(r)]
      /\ token' = IF token[i] = "issued" /\ req[r].keeps
                    THEN [token EXCEPT ![i] = "used"] ELSE token
      /\ UNCHANGED <<broker, escrow, charged, blacklist, job, past>>

(* validate_result_generic of the skill's schema, and the judge's score.   *)
Valid(q) == q.result # "invalid"
Passed(q) == q.result # "poor"

(* The three gates: schema, canary, judge.  Where the judge's verdict is   *)
(* no, record_failure may raise (CircuitBreaker's RedisRefuses): the answer*)
(* is a 500 and the task stays claimed.  The on-chain refund after it      *)
(* fails, as the task is not settled yet.                                  *)
Gate(r) ==
  LET q == req[r]
      piracy == Valid(q) /\ q.piracy
  IN  /\ At(r, "judge")
      /\ IF Valid(q) /\ ~piracy
           THEN IF Passed(q) THEN Goto(r, "complete") ELSE Goto(r, "fail") \/ Answer(r, FALSE)
           ELSE Goto(r, "fail")
      /\ blacklist' = IF piracy THEN blacklist \cup {q.worker} ELSE blacklist
      /\ UNCHANGED <<broker, escrow, token, charged, job, past>>

Fail(r) ==
  /\ At(r, "fail")
  /\ FailTask(req[r].task)
  /\ Answer(r, TRUE)
  /\ UNCHANGED <<escrow, token, charged, blacklist, job, past>>

(* Mutants: "settle" does not say that this call completed the task; or it *)
(* is never said of a pipeline.                                            *)
SettlesAnyway(i) == ~Advances(i)
SettlesUnchained(i) == Completes(i) /\ i \notin Pipelines
Settles(i) == Completes(i) /\ ~Advances(i)

(* settle is False: the answer is PIPELINE_CONTINUED.  The settlement of a *)
(* vault raises in tx_ledger.record.                                       *)
Complete(r) ==
  LET i == req[r].task
  IN  /\ At(r, "complete")
      /\ SucceedTask(i)
      /\ IF ~Settles(i) THEN Answer(r, TRUE)
         ELSE IF i \in VaultFunded THEN Answer(r, FALSE)
         ELSE Goto(r, "release")
      /\ UNCHANGED <<escrow, token, charged, blacklist, job, past>>

Release(r) ==
  /\ At(r, "release")
  /\ ReleaseEscrow(req[r].task, req[r].worker, TRUE)
  /\ Goto(r, "record")
  /\ UNCHANGED <<broker, token, charged, blacklist, job, past>>

(* The second complete_task, which carries the settlement detail.          *)
Record(r) ==
  /\ At(r, "record")
  /\ SucceedTask(req[r].task)
  /\ Goto(r, "charge")
  /\ UNCHANGED <<escrow, token, charged, blacklist, job, past>>

(* charge_and_settle, which may be refused; set_pot_signature changes      *)
(* nothing modelled here.                                                  *)
Charge(r) ==
  /\ At(r, "charge")
  /\ \/ charged' = [charged EXCEPT ![req[r].task] = @ + 1]
     \/ UNCHANGED charged
  /\ Answer(r, TRUE)
  /\ UNCHANGED <<broker, escrow, token, blacklist, job, past>>

Handle(r) ==
  \/ Lookup(r) \/ Verify(r) \/ Gate(r) \/ Fail(r)
  \/ Complete(r) \/ Release(r) \/ Record(r) \/ Charge(r)

(* The gateway dies; its stores survive, the handlers do not.              *)
Crash ==
  /\ crashes < MaxCrashes
  /\ crashes' = crashes + 1
  /\ req' = [r \in Requests |-> NoReq]
  /\ cut' = cut \cup {req[r].task : r \in {q \in Requests : At(q, "release")}}
  /\ UNCHANGED <<broker, escrow, token, charged, blacklist, job>>

Next ==
  \/ \E i \in Tasks : Publish(i) \/ RecordToken(i)
  \/ \E w \in Workers, i \in Tasks : Claim(w, i) \/ ClaimUnheard(w, i)
  \/ \E w \in Workers, r \in Requests : Send(w, r)
  \/ \E w \in Workers : GiveUp(w)
  \/ \E r \in Requests : Hear(r) \/ Unheard(r) \/ Handle(r)
  \/ Crash

Spec == Init /\ [][Next]_vars

-----------------------------------------------------------------------------
(* PROPERTIES                                                              *)

(* A budget is paid out for a successful task only, and that of a task of  *)
(* one step to the worker who holds its claim, whichever duplicates of     *)
(* whose submissions are handled at the same time, and whenever the gateway*)
(* restarts: submit_task, complete_task, release_escrow_dynamic.           *)
SinglePaidToClaimant ==
  \A i \in Tasks : hold[i] = "paid" =>
    status[i] = "SUCCESS" /\ (i \in Pipelines \/ payee[i] = holder[i])

(* The consumer is charged at most once for a task, however many requests  *)
(* carry its result: complete_task answers "settle" to one of them.        *)
ChargedOnce == \A i \in Tasks : charged[i] <= 1

(* What the handlers do to the tasks is TaskLifecycle, as it is for the    *)
(* broker itself: two awaits of one handler are never one step of it.      *)
Lifecycle == INSTANCE TaskLifecycle WITH
  Ids <- Tasks,
  phase <- status,
  left <- [i \in Tasks |-> IF status[i] = "ABSENT" THEN 0 ELSE LastStep(i) + 1 - step[i]]
ImplementsLifecycle == Lifecycle!Spec

(* No successful task goes unpaid: from the answer "settle" on there is a  *)
(* handler that is about to pay it out of the hold, for a pipeline as for  *)
(* a task of one step, whatever duplicates are answered meanwhile; unless  *)
(* a crash ended just that handler: submit_task, complete_task.            *)
SuccessIsPaid ==
  \A i \in Tasks \ (VaultFunded \cup cut) : status[i] = "SUCCESS" =>
    hold[i] = "paid" \/ \E r \in Requests : At(r, "release") /\ req[r].task = i
=============================================================================
