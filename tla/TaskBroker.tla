----------------------------- MODULE TaskBroker -----------------------------
(***************************************************************************)
(* The task broker, src/gateway/broker.py, in Redis mode: the in-memory    *)
(* store behind one lock, what it writes to Redis and when, and the        *)
(* restart that rebuilds the store from Redis (_load_state).               *)
(*                                                                         *)
(* Threads are the request threads of the gateway.  publish_task takes the *)
(* lock twice and writes to Redis after releasing it, so each of its steps *)
(* is an action and each write has two: the value is serialised, then it   *)
(* arrives.  The other operations write inside the lock; they update the   *)
(* memory and leave their writes in todo, and the lock is free again when  *)
(* the last one is done.  Timeouts are an environment's choice: old holds  *)
(* the tasks whose claimed_at is CLAIM_TIMEOUT seconds in the past.        *)
(***************************************************************************)
EXTENDS Integers, Sequences, FiniteSets, SequencesExt

CONSTANTS
  Threads, Workers,
  NoWorker,    (* worker_id None                                           *)
  NoThread,    (* nobody holds the lock                                    *)
  Absent,      (* a missing key                                            *)
  MaxTasks,    (* bound on publish_task calls                              *)
  MaxSteps,    (* bound on the length of a pipeline                        *)
  MaxCrashes   (* bound on crashes                                         *)

ASSUME BrokerAssumption ==
  /\ MaxTasks \in Nat /\ MaxSteps \in Nat \ {0} /\ MaxCrashes \in Nat
  /\ NoWorker \notin Workers
  /\ NoThread \notin Threads
  /\ Absent \notin [hold : Nat, steps : Nat, step : Nat]
  /\ Absent \notin [st : {"PENDING", "CLAIMED", "SUCCESS", "FAILED"},
                    worker : Workers \cup {NoWorker}, pot : BOOLEAN]

Ids == 1..MaxTasks

VARIABLES
  tasks,      (* _tasks: id -> Absent or [hold, steps, step]                *)
  status,     (* _status: id -> Absent or [st, worker]                      *)
  order,      (* the insertion order of _status                             *)
  results,    (* the tasks with an entry in _results                        *)
  counter,    (* _task_counter                                              *)
  dbTasks, dbStatus, dbResults, dbContext, dbCounter,   (* in Redis         *)
  holds,      (* escrow holds made so far by the ledger, numbered           *)
  lock, pc, todo,
  call,       (* thread -> locals of its publish_task                       *)
  old,        (* tasks claimed CLAIM_TIMEOUT or longer ago                  *)
  crashes

memory == <<tasks, status, order, results, counter>>
redis == <<dbTasks, dbStatus, dbResults, dbContext, dbCounter>>
control == <<lock, pc, todo, call>>
vars == <<memory, redis, holds, control, old, crashes>>

NoCall == [hold |-> 0, steps |-> 0, id |-> 0,
           task |-> Absent, entry |-> Absent, count |-> 0]

Init ==
  /\ tasks = [i \in Ids |-> Absent]
  /\ status = [i \in Ids |-> Absent]
  /\ order = <<>>
  /\ results = {}
  /\ counter = 0
  /\ dbTasks = tasks /\ dbStatus = status
  /\ dbResults = {} /\ dbContext = {} /\ dbCounter = 0
  /\ holds = 0
  /\ lock = NoThread
  /\ pc = [th \in Threads |-> "idle"]
  /\ todo = [th \in Threads |-> <<>>]
  /\ call = [th \in Threads |-> NoCall]
  /\ old = {}
  /\ crashes = 0

Pending == [st |-> "PENDING", worker |-> NoWorker, pot |-> FALSE]

Goto(th, label) == pc' = [pc EXCEPT ![th] = label]

-----------------------------------------------------------------------------
(* publish_task                                                            *)

(* The ledger has frozen max_budget: the call goes on with a new hold.     *)
PublishHold(th, steps) ==
  /\ pc[th] = "idle"
  /\ holds < MaxTasks
  /\ holds' = holds + 1
  /\ call' = [call EXCEPT ![th] = [NoCall EXCEPT !.hold = holds + 1, !.steps = steps]]
  /\ Goto(th, "number")
  /\ UNCHANGED <<memory, redis, lock, todo, old, crashes>>

(* Mutant: the id is taken from the size of the store.                     *)
NextIdFromStore == Len(order) + 1
NextId == counter + 1

PublishNumber(th) ==
  /\ pc[th] = "number"
  /\ lock = NoThread
  /\ counter < MaxTasks
  /\ counter' = NextId
  /\ call' = [call EXCEPT ![th] = [NoCall EXCEPT
                 !.hold = call[th].hold, !.steps = call[th].steps, !.id = NextId]]
  /\ Goto(th, "insert")
  /\ UNCHANGED <<tasks, status, order, results, redis, holds, lock, todo, old, crashes>>

PublishInsert(th) ==
  LET i == call[th].id
  IN  /\ pc[th] = "insert"
      /\ lock = NoThread
      /\ tasks' = [tasks EXCEPT ![i] = [hold |-> call[th].hold,
                                        steps |-> call[th].steps, step |-> 0]]
      /\ status' = [status EXCEPT ![i] = Pending]
      /\ order' = IF i \in ToSet(order) THEN order ELSE Append(order, i)
      /\ Goto(th, "dumpTask")
      /\ UNCHANGED <<results, counter, redis, holds, lock, todo, call, old, crashes>>

(* A write outside the lock serialises the value first, and stores it in a *)
(* step of its own.                                                        *)
Dump(th, at, dumped, next) ==
  /\ pc[th] = at
  /\ call' = [call EXCEPT ![th] = dumped]
  /\ Goto(th, next)
  /\ UNCHANGED <<memory, redis, holds, lock, todo, old, crashes>>

DumpTask(th) ==
  Dump(th, "dumpTask", [NoCall EXCEPT !.id = call[th].id, !.task = tasks[call[th].id]], "setTask")

DumpStatus(th) ==
  Dump(th, "dumpStatus", [NoCall EXCEPT !.id = call[th].id, !.entry = status[call[th].id]], "setStatus")

DumpCounter(th) ==
  Dump(th, "dumpCounter", [NoCall EXCEPT !.count = counter], "setCounter")

SetTask(th) ==
  /\ pc[th] = "setTask"
  /\ dbTasks' = [dbTasks EXCEPT ![call[th].id] = call[th].task]
  /\ Goto(th, "dumpStatus")
  /\ UNCHANGED <<memory, dbStatus, dbResults, dbContext, dbCounter,
                 holds, lock, todo, call, old, crashes>>

SetStatus(th) ==
  /\ pc[th] = "setStatus"
  /\ dbStatus' = [dbStatus EXCEPT ![call[th].id] = call[th].entry]
  /\ Goto(th, "dumpCounter")
  /\ UNCHANGED <<memory, dbTasks, dbResults, dbContext, dbCounter,
                 holds, lock, todo, call, old, crashes>>

SetCounter(th) ==
  /\ pc[th] = "setCounter"
  /\ dbCounter' = call[th].count
  /\ call' = [call EXCEPT ![th] = NoCall]
  /\ Goto(th, "idle")
  /\ UNCHANGED <<memory, dbTasks, dbStatus, dbResults, dbContext,
                 holds, lock, todo, old, crashes>>

-----------------------------------------------------------------------------
(* Operations under the lock.                                              *)

(* Take the lock, with these writes to do before it is free again.         *)
Locked(th, writes) ==
  /\ pc[th] = "idle"
  /\ lock = NoThread
  /\ lock' = th
  /\ todo' = [todo EXCEPT ![th] = writes]
  /\ Goto(th, "flush")
  /\ UNCHANGED call

TaskWrite(i, v) == [to |-> "task", id |-> i, value |-> v]
StatusWrite(i, v) == [to |-> "status", id |-> i, value |-> v]
ResultWrite(i) == [to |-> "result", id |-> i, value |-> Absent]

Flush(th) ==
  LET w == Head(todo[th])
      last == Len(todo[th]) = 1
  IN  /\ pc[th] = "flush"
      /\ dbTasks' = IF w.to = "task" THEN [dbTasks EXCEPT ![w.id] = w.value] ELSE dbTasks
      /\ dbStatus' = IF w.to = "status" THEN [dbStatus EXCEPT ![w.id] = w.value] ELSE dbStatus
      /\ dbResults' = IF w.to = "result" THEN dbResults \cup {w.id} ELSE dbResults
      /\ todo' = [todo EXCEPT ![th] = Tail(@)]
      /\ lock' = IF last THEN NoThread ELSE th
      /\ Goto(th, IF last THEN "idle" ELSE "flush")
      /\ UNCHANGED <<memory, dbContext, dbCounter, holds, call, old, crashes>>

Is(i, st) == status[i] # Absent /\ status[i].st = st

Claimable(i) == Is(i, "PENDING") /\ tasks[i] # Absent

(* What claim_task and claim_specific_task do once a task is picked.       *)
Grant(th, i, w) ==
  LET s == [status[i] EXCEPT !.st = "CLAIMED", !.worker = w]
  IN  /\ Claimable(i)
      /\ status' = [status EXCEPT ![i] = s]
      /\ old' = old \ {i}
      /\ Locked(th, <<StatusWrite(i, s)>>)
      /\ UNCHANGED <<tasks, order, results, counter, redis, holds, crashes>>

(* The first PENDING task in insertion order.                              *)
ClaimTask(th, w) ==
  \E k \in 1..Len(order) :
    /\ \A j \in 1..(k - 1) : ~Claimable(order[j])
    /\ Grant(th, order[k], w)

(* The credit score that gates a custom task comes with the request.       *)
ClaimSpecificTask(th, i, w) == Grant(th, i, w)

(* context_key of the step just done.                                      *)
(* Mutant: the key is built after the step has been advanced.              *)
ContextKeyAfterAdvance(i) == <<i, tasks[i].step + 1>>
ContextKey(i) == <<i, tasks[i].step>>

(* SUCCESS of an intermediate pipeline step: with the lock held, the       *)
(* context goes to Redis first ...                                         *)
HasStepsLeft(i) == tasks[i] # Absent /\ tasks[i].step < tasks[i].steps - 1

StoreContext(th, i) ==
  /\ pc[th] = "idle"
  /\ lock = NoThread
  /\ Is(i, "CLAIMED")
  /\ HasStepsLeft(i)
  /\ lock' = th
  /\ dbContext' = dbContext \cup {ContextKey(i)}
  /\ call' = [call EXCEPT ![th] = [NoCall EXCEPT !.id = i]]
  /\ Goto(th, "advance")
  /\ UNCHANGED <<memory, dbTasks, dbStatus, dbResults, dbCounter, holds, todo, old, crashes>>

(* ... then the task moves on and is re-queued.                            *)
AdvanceStep(th) ==
  LET i == call[th].id
      next == [tasks[i] EXCEPT !.step = @ + 1]
  IN  /\ pc[th] = "advance"
      /\ tasks' = [tasks EXCEPT ![i] = next]
      /\ status' = [status EXCEPT ![i] = Pending]
      /\ old' = old \ {i}
      /\ todo' = [todo EXCEPT ![th] = <<TaskWrite(i, next), StatusWrite(i, Pending)>>]
      /\ call' = [call EXCEPT ![th] = NoCall]
      /\ Goto(th, "flush")
      /\ UNCHANGED <<order, results, counter, redis, holds, lock, crashes>>

(* SUCCESS of the last step, or FAILED; with a settlement detail or not.   *)
CompleteTask(th, i, outcome, detail) ==
  LET s == [status[i] EXCEPT !.st = outcome]
  IN  /\ Is(i, "CLAIMED")
      /\ outcome = "SUCCESS" => ~HasStepsLeft(i)
      /\ status' = [status EXCEPT ![i] = s]
      /\ results' = IF detail THEN results \cup {i} ELSE results
      /\ Locked(th, (IF detail THEN <<ResultWrite(i)>> ELSE <<>>) \o <<StatusWrite(i, s)>>)
      /\ UNCHANGED <<tasks, order, counter, redis, holds, old, crashes>>

(* The gateway adds the Proof-of-Task to the status of a settled task.     *)
SetPotSignature(th, i) ==
  LET s == [status[i] EXCEPT !.pot = TRUE]
  IN  /\ Is(i, "SUCCESS")
      /\ ~status[i].pot
      /\ status' = [status EXCEPT ![i] = s]
      /\ Locked(th, <<StatusWrite(i, s)>>)
      /\ UNCHANGED <<tasks, order, results, counter, redis, holds, old, crashes>>

(* Mutant: the status is not looked at.                                    *)
TimedOutWhatever == old
TimedOut == {i \in old : Is(i, "CLAIMED")}

(* The writes of the loop over _status, up to its k-th task.               *)
Recycled[k \in 0..Len(order)] ==
  IF k = 0 THEN <<>>
  ELSE IF order[k] \in TimedOut THEN Append(Recycled[k - 1], StatusWrite(order[k], Pending))
  ELSE Recycled[k - 1]

(* The strikes that follow, outside the lock, are the ledger's.            *)
CheckTimeouts(th) ==
  /\ Recycled[Len(order)] # <<>>
  /\ status' = [i \in Ids |-> IF i \in TimedOut THEN Pending ELSE status[i]]
  /\ old' = old \ TimedOut
  /\ Locked(th, Recycled[Len(order)])
  /\ UNCHANGED <<tasks, order, results, counter, redis, holds, crashes>>

-----------------------------------------------------------------------------
(* The claim of task i is now CLAIM_TIMEOUT seconds old.                   *)
GrowOld(i) ==
  /\ Is(i, "CLAIMED")
  /\ i \notin old
  /\ old' = old \cup {i}
  /\ UNCHANGED <<memory, redis, holds, control, crashes>>

(* The process dies between any two steps and _load_state rebuilds the     *)
(* store; Redis returns the keys in no particular order.                   *)
CrashAndRestart ==
  /\ crashes < MaxCrashes
  /\ crashes' = crashes + 1
  /\ tasks' = dbTasks
  /\ status' = dbStatus
  /\ order' \in SetToSeqs({i \in Ids : dbStatus[i] # Absent})
  /\ results' = dbResults
  /\ counter' = dbCounter
  /\ lock' = NoThread
  /\ pc' = [th \in Threads |-> "idle"]
  /\ todo' = [th \in Threads |-> <<>>]
  /\ call' = [th \in Threads |-> NoCall]
  /\ UNCHANGED <<redis, holds, old>>

(* What a thread does once it is inside publish_task.                      *)
PublishOn(th) ==
  \/ PublishNumber(th)
  \/ PublishInsert(th)
  \/ DumpTask(th) \/ SetTask(th)
  \/ DumpStatus(th) \/ SetStatus(th)
  \/ DumpCounter(th) \/ SetCounter(th)

Publishing ==
  \E th \in Threads :
    \/ \E n \in 1..MaxSteps : PublishHold(th, n)
    \/ PublishOn(th)

Serving ==
  \E th \in Threads :
    \/ \E w \in Workers : ClaimTask(th, w)
    \/ \E i \in Ids, w \in Workers : ClaimSpecificTask(th, i, w)
    \/ \E i \in Ids : StoreContext(th, i) \/ SetPotSignature(th, i)
    \/ \E i \in Ids, o \in {"SUCCESS", "FAILED"}, d \in BOOLEAN : CompleteTask(th, i, o, d)
    \/ AdvanceStep(th)
    \/ Flush(th)

Ageing == \E i \in Ids : GrowOld(i)

Recycling == \E th \in Threads : CheckTimeouts(th)

Running == Publishing \/ Serving \/ Ageing \/ Recycling

Next == Running \/ CrashAndRestart

(* One process lifetime, and a history of crashes and restarts.            *)
Spec == Init /\ [][Running]_vars
CrashSpec == Init /\ [][Next]_vars

-----------------------------------------------------------------------------
(* PROPERTIES                                                              *)

(* The frozen budgets the broker answers for: one per task, and one per    *)
(* publish_task that has not stored its task yet.                          *)
Stored == {i \in Ids : tasks[i] # Absent}
InFlight == {th \in Threads : pc[th] \in {"number", "insert"}}

(* publish_task gives up the lock between drawing an id and storing the    *)
(* task.  Whatever happens in between, no escrow hold is left without its  *)
(* task and no two tasks stand on one hold.                                *)
HoldsAccounted ==
  /\ \A h \in 1..holds :
        \/ \E i \in Stored : tasks[i].hold = h
        \/ \E th \in InFlight : call[th].hold = h
  /\ \A i, j \in Stored : tasks[i].hold = tasks[j].hold => i = j

(* The context of every finished pipeline step is in Redis before the task *)
(* is: a restart never resumes at a step whose predecessors it cannot read *)
(* (get_context), wherever in complete_task the process died.              *)
ContextBeforeAdvance ==
  \A i \in Ids : dbTasks[i] # Absent =>
    \A k \in 0..(dbTasks[i].step - 1) : <<i, k>> \in dbContext

(* The hand-over of tasks to workers is that of TaskLifecycle.             *)
phaseBar == [i \in Ids |-> IF status[i] = Absent THEN "ABSENT" ELSE status[i].st]
holderBar == [i \in Ids |-> IF status[i] = Absent THEN NoWorker ELSE status[i].worker]
leftBar == [i \in Ids |-> IF tasks[i] = Absent THEN 0 ELSE tasks[i].steps - tasks[i].step]

Lifecycle == INSTANCE TaskLifecycle WITH
  phase <- phaseBar, holder <- holderBar, left <- leftBar

(* Under one lock, a task is given to one worker at a time, goes through   *)
(* its steps one by one and ends once, whichever of publish_task, the two  *)
(* claims, complete_task and check_timeouts interleave.                    *)
ImplementsLifecycle == Lifecycle!Spec
=============================================================================
