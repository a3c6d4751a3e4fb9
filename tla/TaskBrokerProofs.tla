-------------------------- MODULE TaskBrokerProofs --------------------------
(***************************************************************************)
(* HoldsAccounted for any number of threads, tasks and pipeline steps, as  *)
(* long as the process lives. It is not inductive: a task is stored under  *)
(* an id drawn earlier, so the argument needs that a drawn id is still     *)
(* free and drawn by one thread only (FreshIds), which rests on the        *)
(* counter being ahead of everything drawn or stored.                      *)
(*                                                                         *)
(* The second part shows that the broker implements TaskLifecycle. The one *)
(* operation that needs an argument is complete_task on a pipeline: it     *)
(* reads the step, writes the context to Redis and only then advances, and *)
(* the step it advances is still the one it read.                          *)
(*                                                                         *)
(* The third part adds the crashes: whatever a thread still has to write,  *)
(* a dump it holds or a write that the timeout thread queued, is about a   *)
(* step whose predecessors are in Redis by then, so that the database      *)
(* never runs ahead of its own context.                                    *)
(***************************************************************************)
EXTENDS TaskBroker, FiniteSetTheorems, WellFoundedInduction, TLAPS

Shape == [hold : Nat, steps : Nat, step : Nat]

(* Where a thread can be.                                                  *)
Labels == {"idle", "number", "insert", "dumpTask", "setTask", "dumpStatus", "setStatus",
           "dumpCounter", "setCounter", "advance", "flush"}

(* tasks, pc and call are functions; what each thread calls with is a      *)
(* natural number.                                                         *)
Shapes ==
  /\ tasks \in [Ids -> Shape \cup {Absent}]
  /\ pc \in [Threads -> Labels]
  /\ DOMAIN call = Threads
  /\ counter \in Nat /\ holds \in Nat /\ counter <= MaxTasks

Numbered == {th \in Threads : pc[th] = "insert"}

(* An id drawn and not yet used is free, and one thread's only.            *)
FreshIds ==
  /\ \A i \in Stored : i <= counter
  /\ \A th \in Numbered : call[th].id \in 1..counter /\ call[th].id \notin Stored
  /\ \A t, u \in Numbered : call[t].id = call[u].id => t = u
  /\ \A th \in Threads : pc[th] = "advance" => call[th].id \in Stored

(* A hold in flight is one that was made, one thread's only, and no task's.*)
FreshHolds ==
  /\ \A i \in Stored : tasks[i].hold \in 1..holds
  /\ \A th \in InFlight :
       /\ call[th].hold \in 1..holds
       /\ call[th].steps \in Nat
       /\ \A i \in Stored : tasks[i].hold # call[th].hold
  /\ \A t, u \in InFlight : call[t].hold = call[u].hold => t = u

IInv == Shapes /\ FreshIds /\ FreshHolds /\ HoldsAccounted

LEMMA InitIInv == Init => IInv
BY BrokerAssumption DEF Init, IInv, Shapes, FreshIds, FreshHolds, HoldsAccounted,
   Stored, InFlight, Numbered, NoCall, Ids, Labels

(* Steps that leave the memory of tasks alone and move a thread between    *)
(* labels outside the two critical sections of publish_task.               *)
LEMMA Elsewhere ==
  ASSUME IInv, NEW th \in Threads, NEW label \in Labels,
         pc[th] \notin {"number", "insert"}, label \notin {"number", "insert", "advance"},
         Goto(th, label), UNCHANGED <<tasks, counter, holds>>,
         DOMAIN call' = Threads,
         \A t \in Threads \ {th} : call'[t] = call[t]
  PROVE  IInv'
<1>1. Stored' = Stored
  BY DEF Stored
<1>2. InFlight' = InFlight /\ Numbered' = Numbered
  BY DEF InFlight, Numbered, Goto, IInv, Shapes
<1>3. \A t \in InFlight : call'[t] = call[t]
  BY DEF InFlight
<1>4. \A t \in Threads : pc'[t] = "advance" => pc[t] = "advance" /\ call'[t] = call[t]
  BY DEF Goto, IInv, Shapes
<1>5. Numbered \subseteq InFlight
  BY DEF Numbered, InFlight
<1>6. Shapes'
  BY DEF IInv, Shapes, Goto
<1>7. FreshIds'
  BY <1>1, <1>2, <1>3, <1>4, <1>5 DEF IInv, FreshIds
<1>8. FreshHolds'
  BY <1>1, <1>2, <1>3 DEF IInv, FreshHolds
<1>9. HoldsAccounted'
  BY <1>1, <1>2, <1>3 DEF IInv, HoldsAccounted
<1> QED
  BY <1>6, <1>7, <1>8, <1>9 DEF IInv

LEMMA HoldStep ==
  ASSUME IInv, NEW th \in Threads, NEW n \in 1..MaxSteps, PublishHold(th, n)
  PROVE  IInv'
<1> DEFINE c == [NoCall EXCEPT !.hold = holds + 1, !.steps = n]
<1>1. pc[th] = "idle" /\ holds' = holds + 1 /\ UNCHANGED <<tasks, counter>>
  BY DEF PublishHold, memory
<1>2. c.hold = holds + 1 /\ c.steps \in Nat
  BY BrokerAssumption DEF NoCall
<1>3. /\ call' = [call EXCEPT ![th] = c]
      /\ pc' = [pc EXCEPT ![th] = "number"]
  BY DEF PublishHold, Goto
<1> HIDE DEF c
<1>4. /\ call'[th] = c
      /\ \A t \in Threads \ {th} : call'[t] = call[t]
      /\ InFlight' = InFlight \cup {th}
      /\ Numbered' = Numbered
      /\ th \notin InFlight
  BY <1>1, <1>3 DEF InFlight, Numbered, IInv, Shapes
<1>5. Stored' = Stored
  BY <1>1 DEF Stored
<1>6. Shapes'
  BY <1>1, <1>3 DEF IInv, Shapes, Labels
<1>7. FreshIds'
  <2>1. \A t \in Numbered : call'[t] = call[t]
    BY <1>1, <1>4 DEF Numbered
  <2>2. \A t \in Threads : pc'[t] = "advance" => pc[t] = "advance" /\ call'[t] = call[t]
    BY <1>3, <1>4 DEF IInv, Shapes
  <2> QED
    BY <1>1, <1>4, <1>5, <2>1, <2>2 DEF IInv, FreshIds
<1>8. FreshHolds'
  <2>1. \A i \in Stored : tasks[i].hold \in 1..holds' /\ tasks[i].hold # c.hold
    BY <1>1, <1>2 DEF IInv, FreshHolds, Shapes
  <2>2. \A t \in InFlight : /\ call'[t] = call[t]
                            /\ call[t].hold \in 1..holds' /\ call[t].hold # c.hold
    BY <1>1, <1>2, <1>4 DEF IInv, FreshHolds, Shapes, InFlight
  <2>3. c.hold \in 1..holds'
    BY <1>1, <1>2 DEF IInv, Shapes
  <2> QED
    BY <1>1, <1>2, <1>4, <1>5, <2>1, <2>2, <2>3 DEF IInv, FreshHolds
<1>9. HoldsAccounted'
  <2>1. \A h \in 1..holds' : h \in 1..holds \/ h = c.hold
    BY <1>1, <1>2 DEF IInv, Shapes
  <2>2. \A t \in InFlight : call'[t] = call[t]
    BY <1>4 DEF InFlight
  <2> QED
    BY <1>1, <1>4, <1>5, <2>1, <2>2 DEF IInv, HoldsAccounted
<1> QED
  BY <1>6, <1>7, <1>8, <1>9 DEF IInv

LEMMA NumberStep ==
  ASSUME IInv, NEW th \in Threads, PublishNumber(th)
  PROVE  IInv'
<1> DEFINE c == [NoCall EXCEPT !.hold = call[th].hold, !.steps = call[th].steps, !.id = NextId]
<1>1. /\ pc[th] = "number" /\ counter < MaxTasks /\ counter' = counter + 1
      /\ UNCHANGED <<tasks, holds>>
  BY DEF PublishNumber, NextId
<1>2. c.hold = call[th].hold /\ c.steps = call[th].steps /\ c.id = counter + 1
  BY DEF NoCall, NextId
<1>3. /\ call' = [call EXCEPT ![th] = c]
      /\ pc' = [pc EXCEPT ![th] = "insert"]
  BY DEF PublishNumber, Goto
<1> HIDE DEF c
<1>4. /\ call'[th] = c
      /\ \A t \in Threads \ {th} : call'[t] = call[t]
      /\ InFlight' = InFlight
      /\ th \in InFlight
      /\ Numbered' = Numbered \cup {th}
      /\ th \notin Numbered
  BY <1>1, <1>3 DEF InFlight, Numbered, IInv, Shapes
<1>5. Stored' = Stored
  BY <1>1 DEF Stored
<1>6. \A t \in Threads : call'[t].hold = call[t].hold /\ call'[t].steps = call[t].steps
  BY <1>2, <1>4
<1>7. Shapes'
  BY <1>1, <1>3, BrokerAssumption DEF IInv, Shapes, Labels
<1>8. FreshIds'
  <2>1. \A t \in Numbered : call'[t] = call[t] /\ call[t].id \in 1..counter
    BY <1>4 DEF IInv, FreshIds, Numbered
  <2>2. counter + 1 \notin Stored
    BY DEF IInv, FreshIds, Shapes
  <2>3. \A t \in Threads : pc'[t] = "advance" => pc[t] = "advance" /\ call'[t] = call[t]
    BY <1>3, <1>4 DEF IInv, Shapes
  <2>4. \A i \in Stored : i <= counter + 1
    BY DEF IInv, FreshIds, Shapes, Stored, Ids
  <2> QED
    BY <1>1, <1>2, <1>4, <1>5, <2>1, <2>2, <2>3, <2>4 DEF IInv, FreshIds, Shapes
<1>9. FreshHolds'
  BY <1>1, <1>4, <1>5, <1>6 DEF IInv, FreshHolds, InFlight
<1>10. HoldsAccounted'
  BY <1>1, <1>4, <1>5, <1>6 DEF IInv, HoldsAccounted, InFlight
<1> QED
  BY <1>7, <1>8, <1>9, <1>10 DEF IInv

LEMMA InsertStep ==
  ASSUME IInv, NEW th \in Threads, PublishInsert(th)
  PROVE  IInv'
<1> DEFINE i == call[th].id
           r == [hold |-> call[th].hold, steps |-> call[th].steps, step |-> 0]
<1>1. /\ pc[th] = "insert"
      /\ tasks' = [tasks EXCEPT ![i] = r]
      /\ pc' = [pc EXCEPT ![th] = "dumpTask"]
      /\ UNCHANGED <<counter, holds, call>>
  BY DEF PublishInsert, Goto
<1>2. th \in Numbered /\ th \in InFlight
  BY <1>1 DEF Numbered, InFlight
<1>3. i \in Ids /\ i \notin Stored /\ i <= counter
  BY <1>2, BrokerAssumption DEF IInv, FreshIds, Shapes, Ids, Numbered
<1>4. r \in Shape /\ r # Absent /\ r.hold = call[th].hold
  BY <1>2, BrokerAssumption DEF IInv, FreshHolds, Shape
<1> HIDE DEF r, i
<1>5. /\ Stored' = Stored \cup {i}
      /\ tasks'[i] = r
      /\ \A j \in Stored : tasks'[j] = tasks[j]
  BY <1>1, <1>3, <1>4 DEF Stored, IInv, Shapes
<1>6. InFlight' = InFlight \ {th} /\ Numbered' = Numbered \ {th}
  BY <1>1 DEF InFlight, Numbered, IInv, Shapes
<1>7. Shapes'
  BY <1>1, <1>4 DEF IInv, Shapes, Labels
<1>8. FreshIds'
  <2>1. \A t \in Numbered \ {th} : call[t].id # i
    BY <1>2 DEF IInv, FreshIds, i
  <2>2. \A t \in Threads : pc'[t] = "advance" => pc[t] = "advance"
    BY <1>1 DEF IInv, Shapes
  <2> QED
    BY <1>1, <1>3, <1>5, <1>6, <2>1, <2>2 DEF IInv, FreshIds
<1>9. FreshHolds'
  <2>1. \A t \in InFlight \ {th} : call[t].hold # r.hold
    BY <1>2, <1>4 DEF IInv, FreshHolds
  <2> QED
    BY <1>1, <1>2, <1>4, <1>5, <1>6, <2>1 DEF IInv, FreshHolds
<1>10. HoldsAccounted'
  <2>1. \A j \in Stored : tasks[j].hold # r.hold
    BY <1>2, <1>4 DEF IInv, FreshHolds
  <2>2. \A h \in 1..holds : \/ \E j \in Stored' : tasks'[j].hold = h
                            \/ \E t \in InFlight' : call[t].hold = h
    BY <1>4, <1>5, <1>6 DEF IInv, HoldsAccounted
  <2>3. \A j, k \in Stored' : tasks'[j].hold = tasks'[k].hold => j = k
    BY <1>5, <2>1 DEF IInv, HoldsAccounted
  <2> QED
    BY <1>1, <2>2, <2>3 DEF HoldsAccounted
<1> QED
  BY <1>7, <1>8, <1>9, <1>10 DEF IInv

LEMMA StoreContextStep ==
  ASSUME IInv, NEW th \in Threads, NEW i \in Ids, StoreContext(th, i)
  PROVE  IInv'
<1>1. /\ pc[th] = "idle" /\ i \in Stored
      /\ pc' = [pc EXCEPT ![th] = "advance"]
      /\ UNCHANGED <<tasks, counter, holds>>
  BY DEF StoreContext, HasStepsLeft, Stored, Goto, memory
<1>2. call' = [call EXCEPT ![th] = [NoCall EXCEPT !.id = i]]
  BY DEF StoreContext
<1>3. /\ call'[th].id = i
      /\ \A t \in Threads \ {th} : call'[t] = call[t]
      /\ InFlight' = InFlight /\ Numbered' = Numbered
  BY <1>1, <1>2 DEF InFlight, Numbered, IInv, Shapes, NoCall
<1>4. Stored' = Stored
  BY <1>1 DEF Stored
<1>5. \A t \in InFlight : call'[t] = call[t] /\ t # th
  BY <1>1, <1>3 DEF InFlight
<1>6. Numbered \subseteq InFlight
  BY DEF Numbered, InFlight
<1>7. Shapes'
  BY <1>1, <1>2 DEF IInv, Shapes, Labels
<1>8. FreshIds'
  <2>1. \A t \in Threads : pc'[t] = "advance" => t = th \/ (pc[t] = "advance" /\ call'[t] = call[t])
    BY <1>1, <1>3 DEF IInv, Shapes
  <2> QED
    BY <1>1, <1>3, <1>4, <1>5, <1>6, <2>1 DEF IInv, FreshIds
<1>9. FreshHolds'
  BY <1>1, <1>3, <1>4, <1>5 DEF IInv, FreshHolds
<1>10. HoldsAccounted'
  BY <1>1, <1>3, <1>4, <1>5 DEF IInv, HoldsAccounted
<1> QED
  BY <1>7, <1>8, <1>9, <1>10 DEF IInv

LEMMA AdvanceTaskStep ==
  ASSUME IInv, NEW th \in Threads, AdvanceStep(th)
  PROVE  IInv'
<1> DEFINE i == call[th].id
           r == [tasks[i] EXCEPT !.step = @ + 1]
<1>1. /\ pc[th] = "advance"
      /\ tasks' = [tasks EXCEPT ![i] = r]
      /\ pc' = [pc EXCEPT ![th] = "flush"]
      /\ call' = [call EXCEPT ![th] = NoCall]
      /\ UNCHANGED <<counter, holds>>
  BY DEF AdvanceStep, Goto
<1>2. i \in Stored /\ tasks[i] \in Shape
  BY <1>1 DEF IInv, FreshIds, Shapes, Stored
<1>3. r \in Shape /\ r # Absent /\ r.hold = tasks[i].hold
  BY <1>2, BrokerAssumption DEF Shape
<1> HIDE DEF r
<1>4. /\ Stored' = Stored
      /\ \A j \in Stored : tasks'[j].hold = tasks[j].hold
  BY <1>1, <1>2, <1>3 DEF Stored, IInv, Shapes
<1>5. InFlight' = InFlight /\ Numbered' = Numbered
  BY <1>1 DEF InFlight, Numbered, IInv, Shapes
<1>6. \A t \in InFlight : call'[t] = call[t]
  BY <1>1 DEF InFlight, IInv, Shapes
<1>7. Numbered \subseteq InFlight
  BY DEF Numbered, InFlight
<1>8. Shapes'
  BY <1>1, <1>2, <1>3 DEF IInv, Shapes, Stored, Labels
<1>9. FreshIds'
  <2>1. \A t \in Threads : pc'[t] = "advance" => pc[t] = "advance" /\ call'[t] = call[t]
    BY <1>1 DEF IInv, Shapes
  <2> QED
    BY <1>1, <1>4, <1>5, <1>6, <1>7, <2>1 DEF IInv, FreshIds
<1>10. FreshHolds'
  BY <1>1, <1>4, <1>5, <1>6 DEF IInv, FreshHolds
<1>11. HoldsAccounted'
  BY <1>1, <1>4, <1>5, <1>6 DEF IInv, HoldsAccounted
<1> QED
  BY <1>8, <1>9, <1>10, <1>11 DEF IInv

(* The writes of publish_task to Redis.                                    *)
LEMMA PersistStep ==
  ASSUME IInv, NEW th \in Threads,
         \/ DumpTask(th) \/ SetTask(th)
         \/ DumpStatus(th) \/ SetStatus(th)
         \/ DumpCounter(th) \/ SetCounter(th)
  PROVE  IInv'
<1>1. /\ pc[th] \notin {"number", "insert"}
      /\ \E label \in {"setTask", "dumpStatus", "setStatus", "dumpCounter", "setCounter", "idle"} :
           Goto(th, label)
      /\ UNCHANGED <<tasks, counter, holds>>
  BY DEF DumpTask, SetTask, DumpStatus, SetStatus, DumpCounter, SetCounter, Dump, memory
<1>2. UNCHANGED call \/ \E c : call' = [call EXCEPT ![th] = c]
  BY DEF DumpTask, SetTask, DumpStatus, SetStatus, DumpCounter, SetCounter, Dump
<1>3. /\ DOMAIN call' = Threads
      /\ \A t \in Threads \ {th} : call'[t] = call[t]
  BY <1>2 DEF IInv, Shapes
<1> QED
  BY <1>1, <1>3, Elsewhere DEF Labels

(* The operations that take the lock and only change the status.           *)
LEMMA LockedStep ==
  ASSUME IInv, NEW th \in Threads, NEW writes, Locked(th, writes),
         UNCHANGED <<tasks, counter, holds>>
  PROVE  IInv'
<1>1. pc[th] = "idle" /\ Goto(th, "flush") /\ UNCHANGED call
  BY DEF Locked
<1> QED
  BY <1>1, Elsewhere DEF IInv, Shapes, Labels

LEMMA FlushStep ==
  ASSUME IInv, NEW th \in Threads, Flush(th)
  PROVE  IInv'
<1>1. /\ pc[th] = "flush"
      /\ \E label \in {"idle", "flush"} : Goto(th, label)
      /\ UNCHANGED <<tasks, counter, holds, call>>
  BY DEF Flush, memory
<1> QED
  BY <1>1, Elsewhere DEF IInv, Shapes, Labels

LEMMA StutterStep ==
  ASSUME IInv, UNCHANGED <<tasks, counter, holds, pc, call>>
  PROVE  IInv'
BY DEF IInv, Shapes, FreshIds, FreshHolds, HoldsAccounted, Stored, InFlight, Numbered

LEMMA NextIInv == IInv /\ [Running]_vars => IInv'
<1> SUFFICES ASSUME IInv, [Running]_vars PROVE IInv'
  OBVIOUS
<1>1. CASE Publishing
  BY <1>1, HoldStep, NumberStep, InsertStep, PersistStep DEF Publishing, PublishOn
<1>2. CASE Serving
  <2>1. CASE \E th \in Threads, w \in Workers, i \in Ids : ClaimSpecificTask(th, i, w)
    BY <2>1, LockedStep DEF ClaimSpecificTask, Grant
  <2>2. CASE \E th \in Threads, w \in Workers : ClaimTask(th, w)
    BY <2>2, LockedStep DEF ClaimTask, Grant
  <2>3. CASE \E th \in Threads, i \in Ids : StoreContext(th, i)
    BY <2>3, StoreContextStep
  <2>4. CASE \E th \in Threads, i \in Ids : SetPotSignature(th, i)
    BY <2>4, LockedStep DEF SetPotSignature
  <2>5. CASE \E th \in Threads, i \in Ids, o \in {"SUCCESS", "FAILED"}, d \in BOOLEAN :
               CompleteTask(th, i, o, d)
    BY <2>5, LockedStep DEF CompleteTask
  <2>6. CASE \E th \in Threads : AdvanceStep(th)
    BY <2>6, AdvanceTaskStep
  <2>7. CASE \E th \in Threads : Flush(th)
    BY <2>7, FlushStep
  <2> QED
    BY <1>2, <2>1, <2>2, <2>3, <2>4, <2>5, <2>6, <2>7 DEF Serving
<1>3. CASE Ageing
  BY <1>3, StutterStep DEF Ageing, GrowOld, memory, control
<1>4. CASE Recycling
  BY <1>4, LockedStep DEF Recycling, CheckTimeouts
<1>5. CASE UNCHANGED vars
  BY <1>5, StutterStep DEF vars, memory, control
<1> QED
  BY <1>1, <1>2, <1>3, <1>4, <1>5 DEF Running

(* publish_task never loses an escrow hold and never puts two tasks on one,*)
(* for any number of concurrent callers: within one process lifetime the   *)
(* two critical sections of the broker are enough.                         *)
THEOREM HoldsSafe == Spec => []HoldsAccounted
<1>1. IInv => HoldsAccounted
  BY DEF IInv
<1> QED
  BY InitIInv, NextIInv, <1>1, PTL DEF Spec

-----------------------------------------------------------------------------
(* The refinement of TaskLifecycle.  Between StoreContext and AdvanceStep  *)
(* the task must not change, which the lock sees to (Exclusion): nobody    *)
(* else stores or claims a task while a thread is to advance one.          *)
Entry == [st : {"PENDING", "CLAIMED", "SUCCESS", "FAILED"},
          worker : Workers \cup {NoWorker}, pot : BOOLEAN]

Entries ==
  /\ order \in Seq(Ids)
  /\ status \in [Ids -> Entry \cup {Absent}]
  /\ \A i \in Ids : status[i] # Absent <=> i \in Stored
StepsLeft == \A i \in Stored : tasks[i].step < tasks[i].steps
Lengths == \A th \in InFlight : call[th].steps \in 1..MaxSteps
Exclusion == \A th \in Threads : pc[th] \in {"advance", "flush"} => lock = th
Advancing ==
  \A th \in Threads : pc[th] = "advance" =>
    Is(call[th].id, "CLAIMED") /\ HasStepsLeft(call[th].id)

LInv == IInv /\ Entries /\ StepsLeft /\ Lengths /\ Exclusion /\ Advancing

LEMMA InitLInv == Init => LInv
<1> SUFFICES ASSUME Init PROVE LInv
  OBVIOUS
<1>1. IInv
  BY InitIInv
<1>2. Stored = {} /\ InFlight = {} /\ \A th \in Threads : pc[th] = "idle"
  BY DEF Init, Stored, InFlight
<1>3. Entries
  BY <1>2 DEF Init, Entries
<1> QED
  BY <1>1, <1>2, <1>3 DEF LInv, StepsLeft, Lengths, Exclusion, Advancing

(* A thread that is not to advance a task goes on without touching any.    *)
LEMMA AsideStep ==
  ASSUME LInv, IInv', NEW th \in Threads, NEW label, pc[th] \notin {"advance", "flush"},
         label \notin {"advance", "flush"}, Goto(th, label),
         UNCHANGED <<tasks, status, order, lock>>,
         \A t \in Threads \ {th} : call'[t] = call[t], Lengths'
  PROVE  LInv'
<1> USE DEF LInv
<1>1. /\ Stored' = Stored /\ pc'[th] = label
      /\ \A t \in Threads \ {th} : pc'[t] = pc[t]
  BY DEF Stored, Goto, IInv, Shapes
<1>2. Entries' /\ StepsLeft' /\ Exclusion'
  BY <1>1 DEF Entries, StepsLeft, Exclusion
<1>3. Advancing'
  BY <1>1 DEF Advancing, Is, HasStepsLeft
<1> QED
  BY <1>2, <1>3

(* While the lock is free nobody is to advance or to flush.                *)
LEMMA LockFree ==
  ASSUME LInv, lock = NoThread
  PROVE  \A t \in Threads : pc[t] \notin {"advance", "flush"}
BY BrokerAssumption DEF LInv, Exclusion

LEMMA LockedEntries ==
  ASSUME LInv, IInv', NEW th \in Threads, NEW writes, Locked(th, writes), UNCHANGED <<tasks, order>>,
         status' \in [Ids -> Entry \cup {Absent}],
         \A i \in Ids : status'[i] = Absent <=> status[i] = Absent
  PROVE  LInv'
<1> USE DEF LInv
<1>1. /\ lock = NoThread /\ lock' = th /\ pc[th] = "idle" /\ call' = call
      /\ pc' = [pc EXCEPT ![th] = "flush"]
  BY DEF Locked, Goto
<1>2. /\ Stored' = Stored /\ pc'[th] = "flush"
      /\ \A t \in Threads \ {th} : pc'[t] = pc[t]
  BY <1>1 DEF Stored, IInv, Shapes
<1>3. \A t \in Threads \ {th} : pc'[t] \notin {"advance", "flush"}
  BY <1>1, <1>2, LockFree
<1>4. Entries' /\ StepsLeft' /\ Exclusion' /\ Advancing'
  BY <1>1, <1>2, <1>3 DEF Entries, StepsLeft, Exclusion, Advancing
<1>5. Lengths'
  BY <1>1, <1>2 DEF Lengths, InFlight
<1> QED
  BY <1>4, <1>5
(* publish_task up to its writes: the thread holds no lock.                *)
LEMMA PublishingStep ==
  ASSUME LInv, IInv', NEW th \in Threads,
         \/ \E n \in 1..MaxSteps : PublishHold(th, n)
         \/ PublishNumber(th)
         \/ DumpTask(th) \/ SetTask(th)
         \/ DumpStatus(th) \/ SetStatus(th)
         \/ DumpCounter(th) \/ SetCounter(th)
  PROVE  LInv' /\ UNCHANGED <<tasks, status>>
<1>1. /\ UNCHANGED <<tasks, status, order, lock>>
      /\ pc[th] \notin {"advance", "flush"}
  BY DEF PublishHold, PublishNumber, DumpTask, SetTask, DumpStatus, SetStatus,
         DumpCounter, SetCounter, Dump, memory
<1>2. \E label \in Labels \ {"advance", "flush"} :
        Goto(th, label)
  BY DEF PublishHold, PublishNumber, DumpTask, SetTask, DumpStatus, SetStatus,
         DumpCounter, SetCounter, Dump, Labels
<1>3. UNCHANGED call \/ \E c : call' = [call EXCEPT ![th] = c]
  BY DEF PublishHold, PublishNumber, DumpTask, SetTask, DumpStatus, SetStatus,
         DumpCounter, SetCounter, Dump
<1>4. \A t \in Threads \ {th} : call'[t] = call[t]
  BY <1>3 DEF LInv, IInv, Shapes
<1>5. CASE \E n \in 1..MaxSteps : PublishHold(th, n)
  <2>1. PICK n \in 1..MaxSteps : PublishHold(th, n)
    BY <1>5
  <2> DEFINE c == [NoCall EXCEPT !.hold = holds + 1, !.steps = n]
  <2>2. c.steps = n
    BY DEF NoCall
  <2>3. /\ call' = [call EXCEPT ![th] = c]
        /\ pc' = [pc EXCEPT ![th] = "number"]
    BY <2>1 DEF PublishHold, Goto
  <2> HIDE DEF c
  <2>4. Lengths'
    BY <2>2, <2>3, <1>4 DEF Lengths, InFlight, LInv, IInv, Shapes
  <2> QED
    BY <1>1, <1>2, <1>4, <2>4, AsideStep
<1>6. CASE PublishNumber(th)
  <2> DEFINE c == [NoCall EXCEPT !.hold = call[th].hold, !.steps = call[th].steps, !.id = NextId]
  <2>1. c.steps = call[th].steps
    BY DEF NoCall
  <2>2. /\ call' = [call EXCEPT ![th] = c]
        /\ pc' = [pc EXCEPT ![th] = "insert"]
        /\ pc[th] = "number"
    BY <1>6 DEF PublishNumber, Goto
  <2> HIDE DEF c
  <2>3. Lengths'
    BY <2>1, <2>2, <1>4 DEF Lengths, InFlight, LInv, IInv, Shapes
  <2> QED
    BY <1>1, <1>2, <1>4, <2>3, AsideStep
<1>7. CASE \/ DumpTask(th) \/ SetTask(th)
           \/ DumpStatus(th) \/ SetStatus(th)
           \/ DumpCounter(th) \/ SetCounter(th)
  <2>1. \E label \in Labels \ {"number", "insert"} : Goto(th, label)
    BY <1>7 DEF DumpTask, SetTask, DumpStatus, SetStatus, DumpCounter, SetCounter, Dump, Labels
  <2>2. th \notin InFlight'
    BY <2>1 DEF InFlight, Goto, LInv, IInv, Shapes
  <2>3. InFlight' \subseteq InFlight
    BY <2>1, <2>2 DEF InFlight, Goto, LInv, IInv, Shapes
  <2>4. Lengths'
    BY <1>4, <2>2, <2>3 DEF Lengths, LInv, InFlight
  <2> QED
    BY <1>1, <1>2, <1>4, <2>4, AsideStep
<1> QED
  BY <1>5, <1>6, <1>7

LEMMA PendingEntry ==
  /\ Pending \in Entry /\ Pending # Absent
  /\ Pending.st = "PENDING" /\ Pending.worker = NoWorker
<1>1. Pending \in Entry
  BY DEF Pending, Entry
<1> QED
  BY <1>1, BrokerAssumption DEF Pending, Entry

LEMMA PublishInsertStep ==
  ASSUME LInv, IInv', NEW th \in Threads, PublishInsert(th)
  PROVE  /\ LInv'
         /\ Lifecycle!Publish(call[th].id, call[th].steps)
         /\ call[th].id \in Ids /\ call[th].steps \in 1..MaxSteps
<1> DEFINE i == call[th].id
           r == [hold |-> call[th].hold, steps |-> call[th].steps, step |-> 0]
<1>1. /\ pc[th] = "insert" /\ lock = NoThread
      /\ tasks' = [tasks EXCEPT ![i] = r]
      /\ status' = [status EXCEPT ![i] = Pending]
      /\ order' = IF i \in ToSet(order) THEN order ELSE Append(order, i)
      /\ pc' = [pc EXCEPT ![th] = "dumpTask"]
      /\ UNCHANGED <<call, lock>>
  BY DEF PublishInsert, Goto
<1>2. th \in Numbered /\ th \in InFlight
  BY <1>1 DEF Numbered, InFlight
<1>3. i \in Ids /\ i \notin Stored
  BY <1>2, BrokerAssumption DEF LInv, IInv, FreshIds, Shapes, Ids, Numbered
<1>4. r \in Shape /\ r # Absent /\ r.step = 0 /\ r.steps = call[th].steps
  BY <1>2, BrokerAssumption DEF LInv, IInv, FreshHolds, Shape
<1>5. call[th].steps \in 1..MaxSteps
  BY <1>2 DEF LInv, Lengths
<1>6. /\ Pending \in Entry /\ Pending # Absent
      /\ Pending.st = "PENDING" /\ Pending.worker = NoWorker
  BY PendingEntry
<1>7. /\ tasks[i] = Absent /\ status[i] = Absent
      /\ tasks \in [Ids -> Shape \cup {Absent}]
      /\ status \in [Ids -> Entry \cup {Absent}]
      /\ order \in Seq(Ids)
  BY <1>3 DEF LInv, IInv, Shapes, Entries, Stored
<1> HIDE DEF r, i
<1> HIDE DEF Pending
<1>8. Stored' = Stored \cup {i}
  BY <1>1, <1>3, <1>4, <1>7 DEF Stored
<1>9. Entries'
  <2>1. order' \in Seq(Ids)
    BY <1>1, <1>3, <1>7
  <2>2. status' \in [Ids -> Entry \cup {Absent}]
    BY <1>1, <1>6, <1>7
  <2>3. \A j \in Ids : status'[j] # Absent <=> j \in Stored'
    BY <1>1, <1>3, <1>6, <1>7, <1>8 DEF LInv, Entries
  <2> QED
    BY <2>1, <2>2, <2>3 DEF Entries
<1>10. StepsLeft'
  BY <1>1, <1>3, <1>4, <1>5, <1>7, <1>8 DEF LInv, StepsLeft, Stored
<1>11. Lengths'
  BY <1>1 DEF LInv, Lengths, InFlight, IInv, Shapes
<1>12. Exclusion' /\ Advancing'
  <2>1. \A t \in Threads : pc'[t] \notin {"advance", "flush"}
    BY <1>1, LockFree DEF LInv, IInv, Shapes
  <2> QED
    BY <2>1 DEF Exclusion, Advancing
<1>13. Lifecycle!Publish(i, call[th].steps)
  <2>1. phaseBar[i] = "ABSENT"
    BY <1>3, <1>7 DEF phaseBar
  <2>2. phaseBar' = [phaseBar EXCEPT ![i] = "PENDING"]
    BY <1>1, <1>3, <1>6, <1>7 DEF phaseBar
  <2>3. holderBar' = holderBar
    BY <1>1, <1>3, <1>6, <1>7 DEF holderBar
  <2>4. leftBar' = [leftBar EXCEPT ![i] = call[th].steps]
    <3>1. tasks'[i] # Absent /\ tasks'[i].steps - tasks'[i].step = call[th].steps
      BY <1>1, <1>3, <1>4, <1>5, <1>7
    <3>2. \A j \in Ids : leftBar'[j] = [leftBar EXCEPT ![i] = call[th].steps][j]
      BY <1>1, <1>3, <1>7, <3>1 DEF leftBar
    <3> QED
      BY <3>2 DEF leftBar
  <2> QED
    BY <2>1, <2>2, <2>3, <2>4 DEF Lifecycle!Publish
<1> QED
  BY <1>3, <1>5, <1>9, <1>10, <1>11, <1>12, <1>13 DEF LInv, i
(* What the two claims do to the task they pick.                           *)
LEMMA GrantStep ==
  ASSUME LInv, IInv', NEW th \in Threads, NEW i \in Ids, NEW w \in Workers, Grant(th, i, w)
  PROVE  LInv' /\ Lifecycle!Claim(i, w)
<1> DEFINE s == [status[i] EXCEPT !.st = "CLAIMED", !.worker = w]
<1>1. /\ Is(i, "PENDING")
      /\ status' = [status EXCEPT ![i] = s]
      /\ Locked(th, <<StatusWrite(i, s)>>)
      /\ UNCHANGED <<tasks, order>>
  BY DEF Grant, Claimable
<1>2. status[i] \in Entry /\ status[i] # Absent /\ status[i].st = "PENDING"
  BY <1>1 DEF Is, LInv, Entries
<1>3. s \in Entry /\ s.st = "CLAIMED" /\ s.worker = w
  BY <1>2 DEF Entry
<1>4. s # Absent
  BY <1>3, BrokerAssumption DEF Entry
<1>5. status \in [Ids -> Entry \cup {Absent}]
  BY DEF LInv, Entries
<1> HIDE DEF s
<1>6. LInv'
  BY <1>1, <1>2, <1>3, <1>4, <1>5, LockedEntries
<1>7. phaseBar[i] = "PENDING" /\ phaseBar' = [phaseBar EXCEPT ![i] = "CLAIMED"]
  BY <1>1, <1>2, <1>3, <1>4, <1>5 DEF phaseBar
<1>8. holderBar' = [holderBar EXCEPT ![i] = w]
  BY <1>1, <1>2, <1>3, <1>4, <1>5 DEF holderBar
<1>9. leftBar' = leftBar
  BY <1>1 DEF leftBar
<1> QED
  BY <1>6, <1>7, <1>8, <1>9 DEF Lifecycle!Claim

LEMMA StoreContextEntries ==
  ASSUME LInv, IInv', NEW th \in Threads, NEW i \in Ids, StoreContext(th, i)
  PROVE  LInv' /\ UNCHANGED <<tasks, status>>
<1>1. /\ pc[th] = "idle" /\ lock = NoThread /\ lock' = th
      /\ Is(i, "CLAIMED") /\ HasStepsLeft(i)
      /\ pc' = [pc EXCEPT ![th] = "advance"]
      /\ UNCHANGED <<tasks, status, order>>
  BY DEF StoreContext, Goto, memory
<1>2. call' = [call EXCEPT ![th] = [NoCall EXCEPT !.id = i]]
  BY DEF StoreContext
<1>3. /\ pc'[th] = "advance" /\ call'[th].id = i
      /\ \A t \in Threads \ {th} : pc'[t] = pc[t] /\ call'[t] = call[t]
  BY <1>1, <1>2 DEF LInv, IInv, Shapes, NoCall
<1>4. \A t \in Threads \ {th} : pc'[t] \notin {"advance", "flush"}
  BY <1>1, <1>3, LockFree
<1>5. Exclusion' /\ Advancing'
  BY <1>1, <1>3, <1>4 DEF Exclusion, Advancing, Is, HasStepsLeft
<1>6. Entries' /\ StepsLeft'
  BY <1>1 DEF LInv, Entries, StepsLeft, Stored
<1>7. Lengths'
  BY <1>3 DEF LInv, Lengths, InFlight
<1> QED
  BY <1>1, <1>5, <1>6, <1>7 DEF LInv

LEMMA AdvanceStepEntries ==
  ASSUME LInv, IInv', NEW th \in Threads, AdvanceStep(th)
  PROVE  /\ LInv'
         /\ call[th].id \in Ids /\ Lifecycle!Advance(call[th].id)
<1> DEFINE i == call[th].id
           r == [tasks[i] EXCEPT !.step = @ + 1]
<1>1. /\ pc[th] = "advance"
      /\ tasks' = [tasks EXCEPT ![i] = r]
      /\ status' = [status EXCEPT ![i] = Pending]
      /\ pc' = [pc EXCEPT ![th] = "flush"]
      /\ call' = [call EXCEPT ![th] = NoCall]
      /\ UNCHANGED <<order, lock>>
  BY DEF AdvanceStep, Goto
<1>2. i \in Ids /\ i \in Stored /\ tasks[i] \in Shape /\ tasks[i] # Absent
  <2>1. FreshIds /\ Shapes
    BY DEF LInv, IInv
  <2>2. i \in Stored
    BY <1>1, <2>1 DEF FreshIds
  <2>3. QED
    BY <2>1, <2>2 DEF Shapes, Stored
<1>3. r \in Shape /\ r.step = tasks[i].step + 1 /\ r.steps = tasks[i].steps
  BY <1>2 DEF Shape
<1>4. r # Absent
  BY <1>3, BrokerAssumption DEF Shape
<1>5. /\ status[i] # Absent /\ status[i].st = "CLAIMED"
      /\ tasks[i].step < tasks[i].steps - 1
  BY <1>1 DEF LInv, Advancing, Is, HasStepsLeft
<1>6. tasks[i].step \in Nat /\ tasks[i].steps \in Nat
  BY <1>2 DEF Shape
<1>7. /\ tasks \in [Ids -> Shape \cup {Absent}]
      /\ status \in [Ids -> Entry \cup {Absent}]
  BY DEF LInv, IInv, Shapes, Entries
<1> HIDE DEF r, i
<1>8. /\ Stored' = Stored
      /\ tasks'[i] = r
      /\ \A j \in Stored \ {i} : tasks'[j] = tasks[j]
  BY <1>1, <1>2, <1>4, <1>7 DEF Stored
<1>9. Entries'
  BY <1>1, <1>2, <1>7, <1>8, PendingEntry DEF LInv, Entries
<1>10. StepsLeft'
  BY <1>3, <1>5, <1>6, <1>8 DEF LInv, StepsLeft
<1>11. Exclusion'
  BY <1>1 DEF LInv, Exclusion, IInv, Shapes
<1>12. \A t \in Threads : pc'[t] # "advance"
  BY <1>1, BrokerAssumption DEF LInv, Exclusion, IInv, Shapes
<1>13. Lengths'
  BY <1>1 DEF LInv, Lengths, InFlight, IInv, Shapes
<1>14. Lifecycle!Advance(i)
  <2>1. phaseBar[i] = "CLAIMED" /\ leftBar[i] = tasks[i].steps - tasks[i].step
    BY <1>2, <1>5 DEF phaseBar, leftBar
  <2>2. phaseBar' = [phaseBar EXCEPT ![i] = "PENDING"]
    BY <1>1, <1>2, <1>7, PendingEntry DEF phaseBar
  <2>3. holderBar' = [holderBar EXCEPT ![i] = NoWorker]
    BY <1>1, <1>2, <1>7, PendingEntry DEF holderBar
  <2>4. leftBar' = [leftBar EXCEPT ![i] = leftBar[i] - 1]
    <3>1. r.steps - r.step = leftBar[i] - 1
      BY <1>3, <1>6, <2>1
    <3>2. \A j \in Ids : leftBar'[j] = [leftBar EXCEPT ![i] = leftBar[i] - 1][j]
      BY <1>1, <1>2, <1>4, <1>7, <3>1 DEF leftBar
    <3> QED
      BY <3>2 DEF leftBar
  <2>5. leftBar[i] > 1
    BY <1>5, <1>6, <2>1
  <2> QED
    BY <2>1, <2>2, <2>3, <2>4, <2>5 DEF Lifecycle!Advance
<1> QED
  BY <1>2, <1>9, <1>10, <1>11, <1>12, <1>13, <1>14 DEF LInv, Advancing, i

LEMMA FlushEntries ==
  ASSUME LInv, IInv', NEW th \in Threads, Flush(th)
  PROVE  LInv' /\ UNCHANGED <<tasks, status>>
<1>1. /\ pc[th] = "flush" /\ lock' \in {NoThread, th}
      /\ lock' = th \/ pc' = [pc EXCEPT ![th] = "idle"]
      /\ \E label \in {"idle", "flush"} : pc' = [pc EXCEPT ![th] = label]
      /\ UNCHANGED <<tasks, status, order, call>>
  BY DEF Flush, Goto, memory
<1>2. \A t \in Threads \ {th} : pc[t] \notin {"advance", "flush"}
  BY <1>1 DEF LInv, Exclusion
<1>3. \A t \in Threads \ {th} : pc'[t] = pc[t]
  BY <1>1 DEF LInv, IInv, Shapes
<1>4. pc'[th] \in {"idle", "flush"} /\ (pc'[th] = "flush" => lock' = th)
  BY <1>1 DEF LInv, IInv, Shapes
<1>5. Exclusion' /\ Advancing'
  BY <1>2, <1>3, <1>4 DEF Exclusion, Advancing
<1>6. Entries' /\ StepsLeft'
  BY <1>1 DEF LInv, Entries, StepsLeft, Stored
<1>7. Lengths'
  BY <1>1, <1>3, <1>4 DEF LInv, Lengths, InFlight
<1> QED
  BY <1>1, <1>5, <1>6, <1>7 DEF LInv

LEMMA CompleteStep ==
  ASSUME LInv, IInv', NEW th \in Threads, NEW i \in Ids,
         NEW o \in {"SUCCESS", "FAILED"}, NEW d \in BOOLEAN, CompleteTask(th, i, o, d)
  PROVE  LInv' /\ (Lifecycle!Succeed(i) \/ Lifecycle!Fail(i))
<1> DEFINE s == [status[i] EXCEPT !.st = o]
<1>1. /\ Is(i, "CLAIMED")
      /\ o = "SUCCESS" => ~HasStepsLeft(i)
      /\ status' = [status EXCEPT ![i] = s]
      /\ \E writes : Locked(th, writes)
      /\ UNCHANGED <<tasks, order>>
  BY DEF CompleteTask
<1>2. status[i] \in Entry /\ status[i] # Absent /\ status[i].st = "CLAIMED"
  BY <1>1 DEF Is, LInv, Entries
<1>3. s \in Entry /\ s.st = o /\ s.worker = status[i].worker
  BY <1>2 DEF Entry
<1>4. s # Absent
  BY <1>3, BrokerAssumption DEF Entry
<1>5. status \in [Ids -> Entry \cup {Absent}]
  BY DEF LInv, Entries
<1> HIDE DEF s
<1>6. LInv'
  BY <1>1, <1>2, <1>3, <1>4, <1>5, LockedEntries
<1>7. phaseBar[i] = "CLAIMED" /\ phaseBar' = [phaseBar EXCEPT ![i] = o]
  BY <1>1, <1>2, <1>3, <1>4, <1>5 DEF phaseBar
<1>8. holderBar' = holderBar
  BY <1>1, <1>2, <1>3, <1>4, <1>5 DEF holderBar
<1>9. leftBar' = leftBar
  BY <1>1 DEF leftBar
<1>10. o = "SUCCESS" => leftBar[i] = 1
  <2>1. i \in Stored
    BY <1>2 DEF LInv, Entries
  <2>2. tasks[i] \in Shape /\ tasks[i] # Absent /\ tasks[i].step < tasks[i].steps
    BY <2>1 DEF LInv, IInv, Shapes, Stored, StepsLeft
  <2>3. tasks[i].step \in Nat /\ tasks[i].steps \in Nat
    BY <2>2 DEF Shape
  <2> QED
    BY <1>1, <2>2, <2>3 DEF HasStepsLeft, leftBar
<1> QED
  BY <1>6, <1>7, <1>8, <1>9, <1>10 DEF Lifecycle!Succeed, Lifecycle!Fail

LEMMA SignatureStep ==
  ASSUME LInv, IInv', NEW th \in Threads, NEW i \in Ids, SetPotSignature(th, i)
  PROVE  LInv' /\ UNCHANGED <<phaseBar, holderBar, leftBar>>
<1> DEFINE s == [status[i] EXCEPT !.pot = TRUE]
<1>1. /\ Is(i, "SUCCESS")
      /\ status' = [status EXCEPT ![i] = s]
      /\ Locked(th, <<StatusWrite(i, s)>>)
      /\ UNCHANGED <<tasks, order>>
  BY DEF SetPotSignature
<1>2. status[i] \in Entry /\ status[i] # Absent
  BY <1>1 DEF Is, LInv, Entries
<1>3. s \in Entry /\ s.st = status[i].st /\ s.worker = status[i].worker
  BY <1>2 DEF Entry
<1>4. s # Absent
  BY <1>3, BrokerAssumption DEF Entry
<1>5. status \in [Ids -> Entry \cup {Absent}]
  BY DEF LInv, Entries
<1> HIDE DEF s
<1>6. LInv'
  BY <1>1, <1>2, <1>3, <1>4, <1>5, LockedEntries
<1> QED
  BY <1>1, <1>2, <1>3, <1>4, <1>5, <1>6 DEF phaseBar, holderBar, leftBar

LEMMA TimeoutsStep ==
  ASSUME LInv, IInv', NEW th \in Threads, CheckTimeouts(th)
  PROVE  LInv' /\ \E S \in SUBSET Ids : Lifecycle!Recycle(S)
<1> DEFINE S == {i \in Ids : i \in TimedOut}
<1>1. /\ status' = [i \in Ids |-> IF i \in TimedOut THEN Pending ELSE status[i]]
      /\ \E writes : Locked(th, writes)
      /\ UNCHANGED <<tasks, order>>
  BY DEF CheckTimeouts
<1>2. \A i \in S : status[i] # Absent /\ status[i].st = "CLAIMED"
  BY DEF TimedOut, Is
<1>3. status \in [Ids -> Entry \cup {Absent}]
  BY DEF LInv, Entries
<1>4. status' = [i \in Ids |-> IF i \in S THEN Pending ELSE status[i]]
  BY <1>1
<1> HIDE DEF S
<1>5. LInv'
  BY <1>1, <1>2, <1>3, <1>4, PendingEntry, LockedEntries
<1>6. Lifecycle!Recycle(S)
  <2>1. \A i \in S : i \in Ids
    BY DEF S
  <2>2. \A i \in S : phaseBar[i] = "CLAIMED"
    BY <1>2, <2>1 DEF phaseBar
  <2>3. phaseBar' = [i \in Ids |-> IF i \in S THEN "PENDING" ELSE phaseBar[i]]
    BY <1>4, PendingEntry DEF phaseBar
  <2>4. holderBar' = [i \in Ids |-> IF i \in S THEN NoWorker ELSE holderBar[i]]
    BY <1>4, PendingEntry DEF holderBar
  <2>5. leftBar' = leftBar
    BY <1>1 DEF leftBar
  <2> QED
    BY <2>2, <2>3, <2>4, <2>5 DEF Lifecycle!Recycle
<1>7. S \in SUBSET Ids
  BY DEF S
<1> QED
  BY <1>5, <1>6, <1>7
mapped == <<phaseBar, holderBar, leftBar>>

LEMMA MappedUnchanged ==
  ASSUME UNCHANGED <<tasks, status>>
  PROVE  UNCHANGED mapped
BY DEF mapped, phaseBar, holderBar, leftBar

LEMMA NextLInv ==
  ASSUME LInv, [Running]_vars
  PROVE  LInv' /\ [Lifecycle!Next]_mapped
<1>1. IInv'
  BY NextIInv DEF LInv
<1>2. CASE Publishing
  <2>1. CASE \E th \in Threads : PublishInsert(th)
    BY <1>1, <2>1, PublishInsertStep DEF Lifecycle!Next
  <2>2. CASE \E th \in Threads :
               \/ \E n \in 1..MaxSteps : PublishHold(th, n)
               \/ PublishNumber(th)
               \/ DumpTask(th) \/ SetTask(th)
               \/ DumpStatus(th) \/ SetStatus(th)
               \/ DumpCounter(th) \/ SetCounter(th)
    BY <1>1, <2>2, PublishingStep, MappedUnchanged
  <2> QED
    BY <1>2, <2>1, <2>2 DEF Publishing, PublishOn
<1>3. CASE Serving
  <2>1. CASE \E th \in Threads, w \in Workers, i \in Ids : ClaimSpecificTask(th, i, w)
    BY <1>1, <2>1, GrantStep DEF ClaimSpecificTask, Lifecycle!Next
  <2>2. CASE \E th \in Threads, w \in Workers : ClaimTask(th, w)
    <3>1. PICK th \in Threads, w \in Workers, k \in 1..Len(order) : Grant(th, order[k], w)
      BY <2>2 DEF ClaimTask
    <3>2. order \in Seq(Ids)
      BY DEF LInv, Entries
    <3>3. order[k] \in Ids
      BY <3>2
    <3> QED
      BY <1>1, <3>1, <3>3, GrantStep DEF Lifecycle!Next
  <2>3. CASE \E th \in Threads, i \in Ids : StoreContext(th, i)
    BY <1>1, <2>3, StoreContextEntries, MappedUnchanged
  <2>4. CASE \E th \in Threads, i \in Ids : SetPotSignature(th, i)
    BY <1>1, <2>4, SignatureStep DEF mapped
  <2>5. CASE \E th \in Threads, i \in Ids, o \in {"SUCCESS", "FAILED"}, d \in BOOLEAN :
               CompleteTask(th, i, o, d)
    BY <1>1, <2>5, CompleteStep DEF Lifecycle!Next
  <2>6. CASE \E th \in Threads : AdvanceStep(th)
    BY <1>1, <2>6, AdvanceStepEntries DEF Lifecycle!Next
  <2>7. CASE \E th \in Threads : Flush(th)
    BY <1>1, <2>7, FlushEntries, MappedUnchanged
  <2> QED
    BY <1>3, <2>1, <2>2, <2>3, <2>4, <2>5, <2>6, <2>7 DEF Serving
<1>4. CASE Ageing \/ UNCHANGED vars
  <2>1. UNCHANGED <<tasks, status, order, lock, pc, call>>
    BY <1>4 DEF Ageing, GrowOld, vars, memory, control
  <2>2. LInv'
    BY <1>1, <2>1 DEF LInv, Entries, StepsLeft, Lengths, Exclusion, Advancing,
       Stored, InFlight, Is, HasStepsLeft
  <2> QED
    BY <2>1, <2>2, MappedUnchanged
<1>5. CASE Recycling
  BY <1>1, <1>5, TimeoutsStep DEF Recycling, Lifecycle!Next
<1> QED
  BY <1>2, <1>3, <1>4, <1>5 DEF Running

(* Whichever of publish_task, the two claims, complete_task and            *)
(* check_timeouts interleave, and however many threads and tasks there     *)
(* are: a task is given to one worker at a time, goes through its pipeline *)
(* steps one by one and ends once.                                         *)
THEOREM BrokerImplementsLifecycle == Spec => ImplementsLifecycle
<1>1. Init => Lifecycle!Init
  BY DEF Init, Lifecycle!Init, phaseBar, holderBar, leftBar
<1>2. LInv /\ [Running]_vars => LInv' /\ [Lifecycle!Next]_mapped
  BY NextLInv
<1> QED
  BY InitLInv, <1>1, <1>2, PTL DEF Spec, ImplementsLifecycle, Lifecycle!Spec, mapped
-----------------------------------------------------------------------------
(***************************************************************************)
(* The context of a pipeline, with crashes.  The value of a task can be    *)
(* resumed when the context of every step before it is in Redis (Covered), *)
(* where it stays.  That holds of the memory and of Redis (Kept), and of   *)
(* what is on its way from one to the other, whoever carries it (Carried)  *)
(* or has it to write (Queued), and however old it is.  The step that      *)
(* complete_task is about to take is covered too, because nobody stores    *)
(* the task while the lock is held.                                        *)
(***************************************************************************)
Covered(context, i, t) ==
  t = Absent \/ (t \in Shape /\ \A k \in 0..(t.step - 1) : <<i, k>> \in context)

Writes == [to : {"task"}, id : Ids, value : Shape]
          \cup [to : {"status", "result"}, id : Ids, value : Entry \cup {Absent}]

CTypes ==
  /\ pc \in [Threads -> Labels] /\ DOMAIN call = Threads
  /\ todo \in [Threads -> Seq(Writes)]
  /\ order \in Seq(Ids)
  /\ status \in [Ids -> Entry \cup {Absent}] /\ dbStatus \in [Ids -> Entry \cup {Absent}]
  /\ DOMAIN tasks = Ids /\ DOMAIN dbTasks = Ids
  /\ counter \in 0..MaxTasks /\ dbCounter \in 0..MaxTasks /\ holds \in Nat

Kept == \A i \in Ids : Covered(dbContext, i, tasks[i]) /\ Covered(dbContext, i, dbTasks[i])

(* What a thread at a label may have with it.                              *)
MayCarry(context, store, label, c) ==
  /\ label \in {"number", "insert"} => c.hold \in Nat /\ c.steps \in Nat
  /\ label \in {"insert", "dumpTask", "setTask", "dumpStatus", "setStatus", "advance"} => c.id \in Ids
  /\ label = "setTask" => Covered(context, c.id, c.task)
  /\ label = "setStatus" => c.entry \in Entry \cup {Absent}
  /\ label = "setCounter" => c.count \in 0..MaxTasks
  /\ label = "advance" => store[c.id] # Absent /\ <<c.id, store[c.id].step>> \in context

MayQueue(context, label, q) ==
  /\ label = "flush" => q # <<>>
  /\ \A n \in 1..Len(q) : q[n].to = "task" => Covered(context, q[n].id, q[n].value)

Carried == \A th \in Threads : MayCarry(dbContext, tasks, pc[th], call[th])
Queued == \A th \in Threads : MayQueue(dbContext, pc[th], todo[th])

CInv == CTypes /\ Exclusion /\ Kept /\ Carried /\ Queued

LEMMA CoveredMore ==
  ASSUME NEW context, NEW more, context \subseteq more, NEW i, NEW t, Covered(context, i, t)
  PROVE  Covered(more, i, t)
BY DEF Covered

LEMMA CarryMore ==
  ASSUME NEW context, NEW more, context \subseteq more, NEW store, NEW after, NEW label, NEW c,
         label = "advance" => after = store, MayCarry(context, store, label, c)
  PROVE  MayCarry(more, after, label, c)
BY CoveredMore DEF MayCarry

LEMMA QueueMore ==
  ASSUME NEW context, NEW more, context \subseteq more, NEW label, NEW q, MayQueue(context, label, q)
  PROVE  MayQueue(more, label, q)
BY CoveredMore DEF MayQueue

LEMMA KeptMore ==
  ASSUME Kept, dbContext \subseteq dbContext', UNCHANGED <<tasks, dbTasks>>
  PROVE  Kept'
<1> SUFFICES ASSUME NEW i \in Ids
             PROVE  Covered(dbContext', i, tasks[i]) /\ Covered(dbContext', i, dbTasks[i])
  BY DEF Kept
<1>1. Covered(dbContext, i, tasks[i]) /\ Covered(dbContext, i, dbTasks[i])
  BY DEF Kept
<1> QED
  BY <1>1, CoveredMore

(* A step of one thread: the others have what they had.                    *)
LEMMA OneThread ==
  ASSUME CInv, NEW th \in Threads, dbContext \subseteq dbContext',
         CTypes', Exclusion', Kept',
         \A t \in Threads \ {th} : pc'[t] = pc[t] /\ call'[t] = call[t] /\ todo'[t] = todo[t],
         \A t \in Threads \ {th} : pc[t] = "advance" => tasks' = tasks,
         MayCarry(dbContext', tasks', pc'[th], call'[th]),
         MayQueue(dbContext', pc'[th], todo'[th])
  PROVE  CInv'
<1>1. Carried'
  <2> SUFFICES ASSUME NEW t \in Threads \ {th}
               PROVE  MayCarry(dbContext', tasks', pc'[t], call'[t])
    BY DEF Carried
  <2>1. MayCarry(dbContext, tasks, pc[t], call[t]) /\ (pc[t] = "advance" => tasks' = tasks)
    BY DEF CInv, Carried
  <2>2. MayCarry(dbContext', tasks', pc[t], call[t])
    BY <2>1, CarryMore
  <2> QED
    BY <2>2
<1>2. Queued'
  <2> SUFFICES ASSUME NEW t \in Threads \ {th}
               PROVE  MayQueue(dbContext', pc'[t], todo'[t])
    BY DEF Queued
  <2>1. MayQueue(dbContext, pc[t], todo[t])
    BY DEF CInv, Queued
  <2>2. MayQueue(dbContext', pc[t], todo[t])
    BY <2>1, QueueMore
  <2> QED
    BY <2>2
<1> QED
  BY <1>1, <1>2 DEF CInv

LEMMA InitCInv == Init => CInv
<1> SUFFICES ASSUME Init PROVE CInv
  OBVIOUS
<1>1. CTypes
  BY BrokerAssumption DEF Init, CTypes, Labels, Ids
<1>2. Exclusion
  BY DEF Init, Exclusion
<1>3. Kept
  BY DEF Init, Kept, Covered
<1>4. Carried
  BY DEF Init, Carried, MayCarry
<1>5. Queued
  BY DEF Init, Queued, MayQueue
<1> QED
  BY <1>1, <1>2, <1>3, <1>4, <1>5 DEF CInv

(* publish_task up to the insertion.                                       *)
LEMMA DrawStepC ==
  ASSUME CInv, NEW th \in Threads, (\E n \in 1..MaxSteps : PublishHold(th, n)) \/ PublishNumber(th)
  PROVE  CInv'
<1>1. CTypes /\ Exclusion /\ Kept /\ Carried /\ Queued
  BY DEF CInv
<1>2. /\ UNCHANGED <<tasks, status, order, redis, lock, todo>>
      /\ counter' \in 0..MaxTasks /\ holds' \in Nat
      /\ pc[th] \in {"idle", "number"}
      /\ \E c : call' = [call EXCEPT ![th] = c]
      /\ \E label \in {"number", "insert"} : pc' = [pc EXCEPT ![th] = label]
  <2>1. /\ UNCHANGED <<tasks, status, order, redis, lock, todo>> /\ pc[th] \in {"idle", "number"}
        /\ \E c : call' = [call EXCEPT ![th] = c]
        /\ \E label \in {"number", "insert"} : pc' = [pc EXCEPT ![th] = label]
    BY DEF PublishHold, PublishNumber, Goto, memory
  <2>2. holds' \in {holds, holds + 1} /\ counter' \in {counter, counter + 1} /\ holds \in Nat
    BY <1>1 DEF PublishHold, PublishNumber, NextId, memory, CTypes
  <2>3. counter' # counter => counter < MaxTasks
    BY DEF PublishHold, PublishNumber, memory
  <2>4. counter' \in 0..MaxTasks /\ holds' \in Nat
    BY <1>1, <2>2, <2>3, BrokerAssumption DEF CTypes
  <2> QED
    BY <2>1, <2>4
<1>3. UNCHANGED <<dbTasks, dbStatus, dbContext, dbCounter>>
  BY <1>2 DEF redis
<1>4. CTypes'
  BY <1>1, <1>2, <1>3 DEF CTypes, Labels
<1>5. /\ \A t \in Threads \ {th} : pc'[t] = pc[t] /\ call'[t] = call[t] /\ todo'[t] = todo[t]
      /\ pc'[th] \in {"number", "insert"} /\ todo'[th] = todo[th]
  BY <1>1, <1>2 DEF CTypes
<1>6. Exclusion'
  BY <1>1, <1>2, <1>5 DEF Exclusion
<1>7. Kept'
  BY <1>1, <1>2, <1>3, KeptMore
<1>8. MayCarry(dbContext', tasks', pc'[th], call'[th])
  <2>1. CASE \E n \in 1..MaxSteps : PublishHold(th, n)
    <3>1. PICK n \in 1..MaxSteps : PublishHold(th, n)
      BY <2>1
    <3> DEFINE c == [NoCall EXCEPT !.hold = holds + 1, !.steps = n]
    <3>2. call' = [call EXCEPT ![th] = c] /\ pc' = [pc EXCEPT ![th] = "number"]
      BY <3>1 DEF PublishHold, Goto
    <3>3. c.hold \in Nat /\ c.steps \in Nat
      BY <1>1, BrokerAssumption DEF NoCall, CTypes
    <3> HIDE DEF c
    <3>4. call'[th] = c /\ pc'[th] = "number"
      BY <1>1, <3>2 DEF CTypes
    <3> QED
      BY <3>3, <3>4 DEF MayCarry
  <2>2. CASE PublishNumber(th)
    <3> DEFINE c == [NoCall EXCEPT !.hold = call[th].hold, !.steps = call[th].steps, !.id = NextId]
    <3>1. /\ pc[th] = "number" /\ counter < MaxTasks
          /\ call' = [call EXCEPT ![th] = c] /\ pc' = [pc EXCEPT ![th] = "insert"]
      BY <2>2 DEF PublishNumber, Goto
    <3>2. c.hold = call[th].hold /\ c.steps = call[th].steps /\ c.id = counter + 1
      BY DEF NoCall, NextId
    <3> HIDE DEF c
    <3>3. call[th].hold \in Nat /\ call[th].steps \in Nat
      BY <1>1, <3>1 DEF Carried, MayCarry
    <3>4. counter + 1 \in Ids
      BY <1>1, <3>1, BrokerAssumption DEF CTypes, Ids
    <3>5. call'[th] = c /\ pc'[th] = "insert"
      BY <1>1, <3>1 DEF CTypes
    <3> QED
      BY <3>2, <3>3, <3>4, <3>5 DEF MayCarry
  <2> QED
    BY <2>1, <2>2
<1>9. MayQueue(dbContext', pc'[th], todo'[th])
  BY <1>1, <1>3, <1>5 DEF Queued, MayQueue
<1> QED
  BY <1>2, <1>3, <1>4, <1>5, <1>6, <1>7, <1>8, <1>9, OneThread

LEMMA InsertStepC ==
  ASSUME CInv, NEW th \in Threads, PublishInsert(th)
  PROVE  CInv'
<1> DEFINE i == call[th].id
           r == [hold |-> call[th].hold, steps |-> call[th].steps, step |-> 0]
<1>1. CTypes /\ Exclusion /\ Kept /\ Carried /\ Queued
  BY DEF CInv
<1>2. /\ pc[th] = "insert" /\ lock = NoThread
      /\ tasks' = [tasks EXCEPT ![i] = r]
      /\ status' = [status EXCEPT ![i] = Pending]
      /\ order' = IF i \in ToSet(order) THEN order ELSE Append(order, i)
      /\ pc' = [pc EXCEPT ![th] = "dumpTask"]
      /\ UNCHANGED <<counter, redis, holds, lock, todo, call>>
  BY DEF PublishInsert, Goto
<1>3. i \in Ids /\ call[th].hold \in Nat /\ call[th].steps \in Nat
  BY <1>1, <1>2 DEF Carried, MayCarry
<1>4. r \in Shape /\ r.step = 0
  BY <1>3 DEF Shape
<1> HIDE DEF r, i
<1>5. UNCHANGED <<dbTasks, dbStatus, dbContext, dbCounter>>
  BY <1>2 DEF redis
<1>6. CTypes'
  <2>1. order' \in Seq(Ids)
    BY <1>1, <1>2, <1>3 DEF CTypes
  <2>2. status' \in [Ids -> Entry \cup {Absent}]
    BY <1>1, <1>2, PendingEntry DEF CTypes
  <2> QED
    BY <1>1, <1>2, <1>5, <2>1, <2>2 DEF CTypes, Labels
<1>7. /\ \A t \in Threads \ {th} : pc'[t] = pc[t] /\ call'[t] = call[t] /\ todo'[t] = todo[t]
      /\ pc'[th] = "dumpTask" /\ todo'[th] = todo[th] /\ call'[th].id \in Ids
  BY <1>1, <1>2, <1>3 DEF CTypes, i
<1>8. \A t \in Threads : pc[t] \notin {"advance", "flush"}
  BY <1>1, <1>2, BrokerAssumption DEF Exclusion
<1>9. Exclusion'
  BY <1>7, <1>8 DEF Exclusion
<1>10. Kept'
  <2>1. Covered(dbContext, i, r)
    BY <1>4 DEF Covered
  <2>2. \A j \in Ids : tasks'[j] = IF j = i THEN r ELSE tasks[j]
    BY <1>1, <1>2 DEF CTypes
  <2> QED
    BY <1>1, <1>5, <2>1, <2>2 DEF Kept
<1>11. MayCarry(dbContext', tasks', pc'[th], call'[th])
  BY <1>7 DEF MayCarry
<1>12. MayQueue(dbContext', pc'[th], todo'[th])
  BY <1>1, <1>5, <1>7 DEF Queued, MayQueue
<1> QED
  BY <1>5, <1>6, <1>7, <1>8, <1>9, <1>10, <1>11, <1>12, OneThread

(* The writes of publish_task to Redis: what was serialised was covered    *)
(* then, and what is covered stays so.                                     *)
LEMMA DumpStepC ==
  ASSUME CInv, NEW th \in Threads, DumpTask(th) \/ DumpStatus(th) \/ DumpCounter(th)
  PROVE  CInv'
<1>1. CTypes /\ Exclusion /\ Kept /\ Carried /\ Queued
  BY DEF CInv
<1>2. PICK next \in {"setTask", "setStatus", "setCounter"} : \E dumped :
        /\ pc[th] \notin {"advance", "flush"}
        /\ call' = [call EXCEPT ![th] = dumped] /\ pc' = [pc EXCEPT ![th] = next]
        /\ UNCHANGED <<memory, redis, holds, lock, todo>>
        /\ MayCarry(dbContext, tasks, next, dumped)
  <2>1. CASE DumpTask(th)
    <3> DEFINE c == [NoCall EXCEPT !.id = call[th].id, !.task = tasks[call[th].id]]
    <3>1. Dump(th, "dumpTask", c, "setTask")
      BY <2>1 DEF DumpTask
    <3>2. c.id = call[th].id /\ c.task = tasks[call[th].id]
      BY DEF NoCall
    <3> HIDE DEF c
    <3>3. pc[th] = "dumpTask"
      BY <3>1 DEF Dump
    <3>4. c.id \in Ids
      BY <1>1, <3>2, <3>3 DEF Carried, MayCarry
    <3>5. Covered(dbContext, c.id, c.task)
      BY <1>1, <3>2, <3>4 DEF Kept
    <3>6. MayCarry(dbContext, tasks, "setTask", c)
      BY <3>4, <3>5 DEF MayCarry
    <3>7. /\ pc[th] \notin {"advance", "flush"}
          /\ call' = [call EXCEPT ![th] = c] /\ pc' = [pc EXCEPT ![th] = "setTask"]
          /\ UNCHANGED <<memory, redis, holds, lock, todo>>
      BY <3>1 DEF Dump, Goto
    <3> QED
      BY <3>6, <3>7
  <2>2. CASE DumpStatus(th)
    <3> DEFINE c == [NoCall EXCEPT !.id = call[th].id, !.entry = status[call[th].id]]
    <3>1. Dump(th, "dumpStatus", c, "setStatus")
      BY <2>2 DEF DumpStatus
    <3>2. c.id = call[th].id /\ c.entry = status[call[th].id]
      BY DEF NoCall
    <3> HIDE DEF c
    <3>3. pc[th] = "dumpStatus"
      BY <3>1 DEF Dump
    <3>4. c.id \in Ids
      BY <1>1, <3>2, <3>3 DEF Carried, MayCarry
    <3>5. c.entry \in Entry \cup {Absent}
      BY <1>1, <3>2, <3>4 DEF CTypes
    <3>6. MayCarry(dbContext, tasks, "setStatus", c)
      BY <3>4, <3>5 DEF MayCarry
    <3>7. /\ pc[th] \notin {"advance", "flush"}
          /\ call' = [call EXCEPT ![th] = c] /\ pc' = [pc EXCEPT ![th] = "setStatus"]
          /\ UNCHANGED <<memory, redis, holds, lock, todo>>
      BY <3>1 DEF Dump, Goto
    <3> QED
      BY <3>6, <3>7
  <2>3. CASE DumpCounter(th)
    <3> DEFINE c == [NoCall EXCEPT !.count = counter]
    <3>1. Dump(th, "dumpCounter", c, "setCounter")
      BY <2>3 DEF DumpCounter
    <3>2. c.count = counter
      BY DEF NoCall
    <3> HIDE DEF c
    <3>3. MayCarry(dbContext, tasks, "setCounter", c)
      BY <1>1, <3>2 DEF MayCarry, CTypes
    <3>4. /\ pc[th] \notin {"advance", "flush"}
          /\ call' = [call EXCEPT ![th] = c] /\ pc' = [pc EXCEPT ![th] = "setCounter"]
          /\ UNCHANGED <<memory, redis, holds, lock, todo>>
      BY <3>1 DEF Dump, Goto
    <3> QED
      BY <3>3, <3>4
  <2> QED
    BY <2>1, <2>2, <2>3
<1>3. PICK dumped :
        /\ pc[th] \notin {"advance", "flush"}
        /\ call' = [call EXCEPT ![th] = dumped] /\ pc' = [pc EXCEPT ![th] = next]
        /\ UNCHANGED <<memory, redis, holds, lock, todo>>
        /\ MayCarry(dbContext, tasks, next, dumped)
  BY <1>2
<1>4. /\ UNCHANGED <<tasks, status, order, counter, dbTasks, dbStatus, dbContext, dbCounter>>
      /\ UNCHANGED <<holds, lock, todo>>
  BY <1>3 DEF memory, redis
<1>5. CTypes'
  BY <1>1, <1>3, <1>4 DEF CTypes, Labels
<1>6. /\ \A t \in Threads \ {th} : pc'[t] = pc[t] /\ call'[t] = call[t] /\ todo'[t] = todo[t]
      /\ pc'[th] = next /\ call'[th] = dumped /\ todo'[th] = todo[th]
  BY <1>1, <1>3, <1>4 DEF CTypes
<1>7. Exclusion'
  BY <1>1, <1>4, <1>6 DEF Exclusion
<1>8. Kept'
  BY <1>1, <1>4, KeptMore
<1>9. MayCarry(dbContext', tasks', pc'[th], call'[th])
  BY <1>3, <1>4, <1>6
<1>10. MayQueue(dbContext', pc'[th], todo'[th])
  BY <1>1, <1>4, <1>6 DEF Queued, MayQueue
<1> QED
  BY <1>4, <1>5, <1>6, <1>7, <1>8, <1>9, <1>10, OneThread

LEMMA SetStepC ==
  ASSUME CInv, NEW th \in Threads, SetTask(th) \/ SetStatus(th) \/ SetCounter(th)
  PROVE  CInv'
<1>1. CTypes /\ Exclusion /\ Kept /\ Carried /\ Queued
  BY DEF CInv
<1>2. /\ pc[th] \notin {"advance", "flush"}
      /\ UNCHANGED <<tasks, status, order, counter, dbContext, holds, lock, todo>>
      /\ \E label \in {"dumpStatus", "dumpCounter", "idle"} : pc' = [pc EXCEPT ![th] = label]
      /\ UNCHANGED call \/ \E c : call' = [call EXCEPT ![th] = c]
  BY DEF SetTask, SetStatus, SetCounter, Goto, memory
<1>3. /\ DOMAIN dbTasks' = Ids /\ dbStatus' \in [Ids -> Entry \cup {Absent}]
      /\ dbCounter' \in 0..MaxTasks
  <2>1. CASE SetTask(th)
    BY <1>1, <2>1 DEF SetTask, CTypes
  <2>2. CASE SetStatus(th)
    <3>1. pc[th] = "setStatus" /\ call[th].entry \in Entry \cup {Absent}
      BY <1>1, <2>2 DEF SetStatus, Carried, MayCarry
    <3> QED
      BY <1>1, <2>2, <3>1 DEF SetStatus, CTypes
  <2>3. CASE SetCounter(th)
    <3>1. pc[th] = "setCounter" /\ call[th].count \in 0..MaxTasks
      BY <1>1, <2>3 DEF SetCounter, Carried, MayCarry
    <3> QED
      BY <1>1, <2>3, <3>1 DEF SetCounter, CTypes
  <2> QED
    BY <2>1, <2>2, <2>3
<1>4. CTypes'
  BY <1>1, <1>2, <1>3 DEF CTypes, Labels
<1>5. /\ \A t \in Threads \ {th} : pc'[t] = pc[t] /\ call'[t] = call[t] /\ todo'[t] = todo[t]
      /\ pc'[th] \in {"dumpStatus", "dumpCounter", "idle"} /\ todo'[th] = todo[th]
  BY <1>1, <1>2 DEF CTypes
<1>6. Exclusion'
  BY <1>1, <1>2, <1>5 DEF Exclusion
<1>7. Kept'
  <2>1. CASE SetTask(th)
    <3>1. /\ dbTasks' = [dbTasks EXCEPT ![call[th].id] = call[th].task]
          /\ Covered(dbContext, call[th].id, call[th].task)
      BY <1>1, <2>1 DEF SetTask, Carried, MayCarry
    <3> QED
      BY <1>1, <1>2, <3>1 DEF Kept, CTypes
  <2>2. CASE SetStatus(th) \/ SetCounter(th)
    BY <1>1, <1>2, <2>2 DEF SetStatus, SetCounter, Kept
  <2> QED
    BY <2>1, <2>2
<1>8. MayCarry(dbContext', tasks', pc'[th], call'[th])
  <2>1. pc'[th] = "dumpStatus" => call'[th].id \in Ids
    BY <1>1, <1>2, <1>5 DEF SetTask, SetStatus, SetCounter, Goto, CTypes, Carried, MayCarry
  <2> QED
    BY <1>5, <2>1 DEF MayCarry
<1>9. MayQueue(dbContext', pc'[th], todo'[th])
  BY <1>1, <1>2, <1>5 DEF Queued, MayQueue
<1> QED
  BY <1>2, <1>4, <1>5, <1>6, <1>7, <1>8, <1>9, OneThread

(* The operations that take the lock and write no task.                    *)
LEMMA LockedStepC ==
  ASSUME CInv, NEW th \in Threads, NEW writes \in Seq(Writes), writes # <<>>, Locked(th, writes),
         \A n \in 1..Len(writes) : writes[n].to # "task",
         UNCHANGED <<tasks, order, counter, redis, holds>>,
         status' \in [Ids -> Entry \cup {Absent}]
  PROVE  CInv'
<1>1. CTypes /\ Exclusion /\ Kept /\ Carried /\ Queued
  BY DEF CInv
<1>2. /\ lock = NoThread /\ lock' = th /\ pc[th] = "idle" /\ call' = call
      /\ todo' = [todo EXCEPT ![th] = writes] /\ pc' = [pc EXCEPT ![th] = "flush"]
      /\ UNCHANGED <<dbTasks, dbStatus, dbContext, dbCounter>>
  BY DEF Locked, Goto, redis
<1>3. CTypes'
  BY <1>1, <1>2 DEF CTypes, Labels
<1>4. /\ \A t \in Threads \ {th} : pc'[t] = pc[t] /\ call'[t] = call[t] /\ todo'[t] = todo[t]
      /\ pc'[th] = "flush" /\ todo'[th] = writes
  BY <1>1, <1>2 DEF CTypes
<1>5. Exclusion'
  BY <1>1, <1>2, <1>4, BrokerAssumption DEF Exclusion
<1>6. Kept'
  BY <1>1, <1>2, KeptMore
<1>7. MayCarry(dbContext', tasks', pc'[th], call'[th])
  BY <1>4 DEF MayCarry
<1>8. MayQueue(dbContext', pc'[th], todo'[th])
  BY <1>4 DEF MayQueue
<1> QED
  BY <1>2, <1>3, <1>4, <1>5, <1>6, <1>7, <1>8, OneThread

LEMMA StatusWritten ==
  ASSUME NEW i \in Ids, NEW s \in Entry
  PROVE  /\ StatusWrite(i, s) \in Writes /\ StatusWrite(i, s).to = "status"
         /\ ResultWrite(i) \in Writes /\ ResultWrite(i).to = "result"
BY DEF StatusWrite, ResultWrite, Writes

(* A task is given, completed or signed: one status changes.               *)
LEMMA OneStatusC ==
  ASSUME CInv, NEW th \in Threads, NEW i \in Ids, NEW s \in Entry, status' = [status EXCEPT ![i] = s],
         NEW d \in BOOLEAN, Locked(th, (IF d THEN <<ResultWrite(i)>> ELSE <<>>) \o <<StatusWrite(i, s)>>),
         UNCHANGED <<tasks, order, counter, redis, holds>>
  PROVE  CInv'
<1> DEFINE a == ResultWrite(i)
           b == StatusWrite(i, s)
           writes == (IF d THEN <<a>> ELSE <<>>) \o <<b>>
<1>1. a \in Writes /\ a.to = "result" /\ b \in Writes /\ b.to = "status"
  BY StatusWritten
<1>2. status' \in [Ids -> Entry \cup {Absent}]
  BY DEF CInv, CTypes
<1>3. Locked(th, writes)
  OBVIOUS
<1> HIDE DEF a, b
<1>4. /\ writes \in Seq(Writes) /\ writes # <<>>
      /\ \A n \in 1..Len(writes) : writes[n] \in {a, b}
  BY <1>1
<1> HIDE DEF writes
<1>5. \A n \in 1..Len(writes) : writes[n].to # "task"
  BY <1>1, <1>4
<1> QED
  BY <1>2, <1>3, <1>4, <1>5, LockedStepC

LEMMA GrantStepC ==
  ASSUME CInv, NEW th \in Threads, NEW i \in Ids, NEW w \in Workers, Grant(th, i, w)
  PROVE  CInv'
<1> DEFINE s == [status[i] EXCEPT !.st = "CLAIMED", !.worker = w]
<1>1. status[i] \in Entry
  BY DEF Grant, Claimable, Is, CInv, CTypes
<1>2. s \in Entry
  BY <1>1 DEF Entry
<1>3. status' = [status EXCEPT ![i] = s] /\ Locked(th, <<StatusWrite(i, s)>>)
      /\ UNCHANGED <<tasks, order, counter, redis, holds>>
  BY DEF Grant
<1> HIDE DEF s
<1>4. <<StatusWrite(i, s)>> = (IF FALSE THEN <<ResultWrite(i)>> ELSE <<>>) \o <<StatusWrite(i, s)>>
  OBVIOUS
<1> QED
  BY <1>2, <1>3, <1>4, OneStatusC

LEMMA CompleteStepC ==
  ASSUME CInv, NEW th \in Threads, NEW i \in Ids, NEW o \in {"SUCCESS", "FAILED"}, NEW d \in BOOLEAN,
         CompleteTask(th, i, o, d)
  PROVE  CInv'
<1> DEFINE s == [status[i] EXCEPT !.st = o]
<1>1. status[i] \in Entry
  BY DEF CompleteTask, Is, CInv, CTypes
<1>2. s \in Entry
  BY <1>1 DEF Entry
<1>3. /\ status' = [status EXCEPT ![i] = s]
      /\ Locked(th, (IF d THEN <<ResultWrite(i)>> ELSE <<>>) \o <<StatusWrite(i, s)>>)
      /\ UNCHANGED <<tasks, order, counter, redis, holds>>
  BY DEF CompleteTask
<1> HIDE DEF s
<1> QED
  BY <1>2, <1>3, OneStatusC

LEMMA SignatureStepC ==
  ASSUME CInv, NEW th \in Threads, NEW i \in Ids, SetPotSignature(th, i)
  PROVE  CInv'
<1> DEFINE s == [status[i] EXCEPT !.pot = TRUE]
<1>1. status[i] \in Entry
  BY DEF SetPotSignature, Is, CInv, CTypes
<1>2. s \in Entry
  BY <1>1 DEF Entry
<1>3. status' = [status EXCEPT ![i] = s] /\ Locked(th, <<StatusWrite(i, s)>>)
      /\ UNCHANGED <<tasks, order, counter, redis, holds>>
  BY DEF SetPotSignature
<1> HIDE DEF s
<1>4. <<StatusWrite(i, s)>> = (IF FALSE THEN <<ResultWrite(i)>> ELSE <<>>) \o <<StatusWrite(i, s)>>
  OBVIOUS
<1> QED
  BY <1>2, <1>3, <1>4, OneStatusC

(* check_timeouts: the writes of the loop are what its recursion says, by  *)
(* induction over the length, and they are writes of a status.             *)
WritesAfter(f, k) ==
  IF k = 0 THEN <<>>
  ELSE IF order[k] \in TimedOut THEN Append(f[k - 1], StatusWrite(order[k], Pending))
  ELSE f[k - 1]
Loop(f, n) == f = [k \in 0..n |-> WritesAfter(f, k)]

LEMMA SmallestNumber ==
  ASSUME NEW C \in SUBSET Nat, C # {}
  PROVE  \E m \in C : \A k \in C : m <= k
<1> DEFINE R == OpToRel(<, Nat)
<1>1. \A k, m \in Nat : k < m => <<k, m>> \in R
  BY DEF OpToRel
<1>2. IsWellFoundedOn(R, Nat)
  BY NatLessThanWellFounded
<1> HIDE DEF R
<1>3. PICK m \in C : \A k \in C : ~(<<k, m>> \in R)
  BY <1>2, WFMin
<1>4. ASSUME NEW k \in C PROVE m <= k
  <2>1. k \in Nat /\ m \in Nat /\ ~(<<k, m>> \in R)
    BY <1>3
  <2>2. ~(k < m)
    BY <1>1, <2>1
  <2> QED
    BY <2>1, <2>2
<1> QED
  BY <1>3, <1>4

LEMMA LoopExists ==
  ASSUME NEW n \in Nat
  PROVE  \E f : Loop(f, n)
<1> DEFINE C == {m \in Nat : ~\E f : Loop(f, m)}
<1> SUFFICES ASSUME C # {} PROVE FALSE
  OBVIOUS
<1>1. PICK m \in C : \A k \in C : m <= k
  <2>1. C \in SUBSET Nat
    OBVIOUS
  <2> HIDE DEF C
  <2> QED
    BY <2>1, SmallestNumber
<1>2. CASE m = 0
  <2> DEFINE f == [k \in 0..0 |-> <<>>]
  <2>1. Loop(f, 0)
    BY DEF Loop, WritesAfter
  <2> QED
    BY <1>2, <2>1
<1>3. CASE m # 0
  <2>1. m - 1 \in Nat /\ m - 1 \notin C
    BY <1>1, <1>3
  <2>2. PICK f : Loop(f, m - 1)
    BY <2>1
  <2> DEFINE g == [k \in 0..m |-> IF k = m THEN WritesAfter(f, m) ELSE f[k]]
  <2>3. \A k \in 0..m : g[k] = WritesAfter(g, k)
    <3> SUFFICES ASSUME NEW k \in 0..m PROVE g[k] = WritesAfter(g, k)
      OBVIOUS
    <3>1. k # 0 => g[k - 1] = f[k - 1]
      BY <2>1
    <3>2. WritesAfter(g, k) = WritesAfter(f, k)
      <4> HIDE DEF g
      <4> QED
        BY <3>1 DEF WritesAfter
    <3>3. k # m => f[k] = WritesAfter(f, k)
      BY <2>1, <2>2 DEF Loop
    <3> QED
      BY <3>2, <3>3
  <2>4. Loop(g, m)
    <3>1. g = [k \in 0..m |-> g[k]]
      OBVIOUS
    <3> HIDE DEF g
    <3> QED
      BY <2>3, <3>1 DEF Loop
  <2> QED
    BY <2>4
<1> QED
  BY <1>2, <1>3

LEMMA RecycledWrites ==
  ASSUME CTypes
  PROVE  /\ Recycled[Len(order)] \in Seq(Writes)
         /\ \A n \in 1..Len(Recycled[Len(order)]) : Recycled[Len(order)][n].to # "task"
<1>1. Len(order) \in Nat /\ \A k \in 1..Len(order) : order[k] \in Ids
  BY DEF CTypes
<1>2. Loop(Recycled, Len(order))
  <2>1. Recycled = CHOOSE f : Loop(f, Len(order))
    BY DEF Recycled, Loop, WritesAfter
  <2> QED
    BY <1>1, <2>1, LoopExists
<1> DEFINE Good == {q \in Seq(Writes) : \A n \in 1..Len(q) : q[n].to # "task"}
           C == {k \in 0..Len(order) : Recycled[k] \notin Good}
<1>3. C = {}
  <2> SUFFICES ASSUME C # {} PROVE FALSE
    OBVIOUS
  <2>1. PICK m \in C : \A k \in C : m <= k
    <3>1. C \in SUBSET Nat
      BY <1>1
    <3> HIDE DEF C
    <3> QED
      BY <3>1, SmallestNumber
  <2>2. m \in 0..Len(order) /\ Recycled[m] = WritesAfter(Recycled, m)
    BY <1>2 DEF Loop
  <2>3. CASE m = 0
    <3>1. Recycled[m] = <<>>
      BY <2>2, <2>3 DEF WritesAfter
    <3>2. <<>> \in Seq(Writes) /\ Len(<<>>) = 0
      OBVIOUS
    <3>3. <<>> \in Good
      BY <3>2
    <3> HIDE DEF Good
    <3> QED
      BY <2>1, <3>1, <3>3
  <2>4. CASE m # 0
    <3>1. m - 1 \in 0..Len(order) /\ Recycled[m - 1] \in Good
      BY <1>1, <2>1, <2>2, <2>4
    <3> DEFINE p == Recycled[m - 1]
               w == StatusWrite(order[m], Pending)
    <3>2. m \in 1..Len(order)
      BY <1>1, <2>2, <2>4
    <3>3. w \in Writes /\ w.to = "status"
      BY <1>1, <3>2, PendingEntry, StatusWritten
    <3>4. Recycled[m] = p \/ Recycled[m] = Append(p, w)
      BY <2>2, <2>4 DEF WritesAfter
    <3> HIDE DEF w, p
    <3>5. p \in Seq(Writes) /\ \A n \in 1..Len(p) : p[n].to # "task"
      BY <3>1 DEF p
    <3>6. Append(p, w) \in Good
      <4>1. Append(p, w) \in Seq(Writes) /\ Len(Append(p, w)) = Len(p) + 1 /\ Len(p) \in Nat
        BY <3>3, <3>5
      <4>2. ASSUME NEW n \in 1..Len(Append(p, w)) PROVE Append(p, w)[n].to # "task"
        <5>1. n \in 1..Len(p) \/ n = Len(p) + 1
          BY <4>1
        <5>2. Append(p, w)[n] = IF n = Len(p) + 1 THEN w ELSE p[n]
          BY <3>5, <4>1, <5>1
        <5> QED
          BY <3>3, <3>5, <4>1, <5>1, <5>2
      <4> QED
        BY <4>1, <4>2
    <3>7. p \in Good
      BY <3>5
    <3> HIDE DEF Good
    <3> QED
      BY <3>4, <3>6, <3>7
  <2> QED
    BY <2>3, <2>4
<1>4. Recycled[Len(order)] \in Good
  BY <1>1, <1>3
<1> QED
  BY <1>4

LEMMA TimeoutsStepC ==
  ASSUME CInv, NEW th \in Threads, CheckTimeouts(th)
  PROVE  CInv'
<1>1. /\ Recycled[Len(order)] # <<>> /\ Locked(th, Recycled[Len(order)])
      /\ status' = [i \in Ids |-> IF i \in TimedOut THEN Pending ELSE status[i]]
      /\ UNCHANGED <<tasks, order, counter, redis, holds>>
  BY DEF CheckTimeouts
<1>2. status' \in [Ids -> Entry \cup {Absent}]
  BY <1>1, PendingEntry DEF CInv, CTypes
<1>3. PICK writes : writes = Recycled[Len(order)]
  OBVIOUS
<1>4. writes \in Seq(Writes) /\ \A n \in 1..Len(writes) : writes[n].to # "task"
  BY <1>3, RecycledWrites DEF CInv
<1>5. writes # <<>> /\ Locked(th, writes)
  BY <1>1, <1>3
<1> QED
  BY <1>1, <1>2, <1>4, <1>5, LockedStepC

(* The context is stored under the step the task is at, with the lock held.*)
LEMMA StoreContextStepC ==
  ASSUME CInv, NEW th \in Threads, NEW i \in Ids, StoreContext(th, i)
  PROVE  CInv'
<1>1. CTypes /\ Exclusion /\ Kept /\ Carried /\ Queued
  BY DEF CInv
<1>2. /\ pc[th] = "idle" /\ lock = NoThread /\ lock' = th /\ tasks[i] # Absent
      /\ pc' = [pc EXCEPT ![th] = "advance"]
      /\ dbContext' = dbContext \cup {<<i, tasks[i].step>>}
      /\ UNCHANGED <<tasks, status, order, counter, dbTasks, dbStatus, dbCounter, holds, todo>>
  BY DEF StoreContext, HasStepsLeft, ContextKey, Goto, memory
<1>3. call' = [call EXCEPT ![th] = [NoCall EXCEPT !.id = i]]
  BY DEF StoreContext
<1>4. /\ \A t \in Threads \ {th} : pc'[t] = pc[t] /\ call'[t] = call[t] /\ todo'[t] = todo[t]
      /\ pc'[th] = "advance" /\ call'[th].id = i /\ todo'[th] = todo[th]
  BY <1>1, <1>2, <1>3 DEF CTypes, NoCall
<1>5. CTypes'
  BY <1>1, <1>2, <1>3 DEF CTypes, Labels
<1>6. Exclusion'
  BY <1>1, <1>2, <1>4, BrokerAssumption DEF Exclusion
<1>7. Kept'
  BY <1>1, <1>2, KeptMore
<1>8. MayCarry(dbContext', tasks', pc'[th], call'[th])
  BY <1>2, <1>4 DEF MayCarry
<1>9. MayQueue(dbContext', pc'[th], todo'[th])
  <2>1. MayQueue(dbContext, pc[th], todo[th])
    BY <1>1 DEF Queued
  <2>2. MayQueue(dbContext', pc[th], todo[th])
    BY <1>2, <2>1, QueueMore
  <2> QED
    BY <1>4, <2>2 DEF MayQueue
<1> QED
  BY <1>2, <1>4, <1>5, <1>6, <1>7, <1>8, <1>9, OneThread

LEMMA AdvanceStepC ==
  ASSUME CInv, NEW th \in Threads, AdvanceStep(th)
  PROVE  CInv'
<1> DEFINE i == call[th].id
           r == [tasks[i] EXCEPT !.step = @ + 1]
           a == TaskWrite(i, r)
           b == StatusWrite(i, Pending)
<1>1. CTypes /\ Exclusion /\ Kept /\ Carried /\ Queued
  BY DEF CInv
<1>2. /\ pc[th] = "advance" /\ UNCHANGED <<order, counter, redis, holds, lock>>
      /\ tasks' = [tasks EXCEPT ![i] = r]
      /\ status' = [status EXCEPT ![i] = Pending]
      /\ todo' = [todo EXCEPT ![th] = <<a, b>>]
      /\ call' = [call EXCEPT ![th] = NoCall]
      /\ pc' = [pc EXCEPT ![th] = "flush"]
  BY DEF AdvanceStep, Goto
<1>3. i \in Ids /\ tasks[i] # Absent /\ <<i, tasks[i].step>> \in dbContext
  BY <1>1, <1>2 DEF Carried, MayCarry
<1>4. tasks[i] \in Shape /\ \A k \in 0..(tasks[i].step - 1) : <<i, k>> \in dbContext
  BY <1>1, <1>3 DEF Kept, Covered
<1>5. r \in Shape /\ r.step = tasks[i].step + 1 /\ tasks[i].step \in Nat
  BY <1>4 DEF Shape
<1>6. /\ a \in Writes /\ a.to = "task" /\ a.id = i /\ a.value = r
      /\ b \in Writes /\ b.to = "status"
  <2>1. a \in Writes /\ a.to = "task" /\ a.id = i /\ a.value = r
    BY <1>3, <1>5 DEF TaskWrite, Writes
  <2> QED
    BY <1>3, <2>1, PendingEntry, StatusWritten
<1> HIDE DEF a, b, r, i
<1>7. Covered(dbContext, i, r)
  <2>1. \A k \in 0..(r.step - 1) : k \in 0..(tasks[i].step - 1) \/ k = tasks[i].step
    BY <1>5
  <2> QED
    BY <1>3, <1>4, <1>5, <2>1 DEF Covered
<1>8. UNCHANGED <<dbTasks, dbStatus, dbContext, dbCounter>>
  BY <1>2 DEF redis
<1>9. <<a, b>> \in Seq(Writes) /\ Len(<<a, b>>) = 2 /\ <<a, b>>[1] = a /\ <<a, b>>[2] = b
  BY <1>6
<1>10. CTypes'
  BY <1>1, <1>2, <1>8, <1>9, PendingEntry DEF CTypes, Labels
<1>11. /\ \A t \in Threads \ {th} : pc'[t] = pc[t] /\ call'[t] = call[t] /\ todo'[t] = todo[t]
       /\ pc'[th] = "flush" /\ todo'[th] = <<a, b>>
  BY <1>1, <1>2 DEF CTypes
<1>12. \A t \in Threads \ {th} : pc[t] \notin {"advance", "flush"}
  BY <1>1, <1>2 DEF Exclusion
<1>13. Exclusion'
  BY <1>1, <1>2, <1>11, <1>12 DEF Exclusion
<1>14. Kept'
  <2>1. \A j \in Ids : tasks'[j] = IF j = i THEN r ELSE tasks[j]
    BY <1>1, <1>2 DEF CTypes
  <2> QED
    BY <1>1, <1>7, <1>8, <2>1 DEF Kept
<1>15. MayCarry(dbContext', tasks', pc'[th], call'[th])
  BY <1>11 DEF MayCarry
<1>16. MayQueue(dbContext', pc'[th], todo'[th])
  <2>1. \A n \in 1..Len(<<a, b>>) : <<a, b>>[n] = a \/ <<a, b>>[n] = b
    BY <1>9
  <2>2. Covered(dbContext', a.id, a.value)
    BY <1>6, <1>7, <1>8
  <2>3. \A n \in 1..Len(<<a, b>>) :
          <<a, b>>[n].to = "task" => Covered(dbContext', <<a, b>>[n].id, <<a, b>>[n].value)
    BY <1>6, <2>1, <2>2
  <2>4. <<a, b>> # <<>>
    BY <1>9
  <2> QED
    BY <1>11, <2>3, <2>4 DEF MayQueue
<1> QED
  BY <1>8, <1>10, <1>11, <1>12, <1>13, <1>14, <1>15, <1>16, OneThread

LEMMA FlushStepC ==
  ASSUME CInv, NEW th \in Threads, Flush(th)
  PROVE  CInv'
<1> DEFINE q == todo[th]
           w == Head(q)
<1>1. CTypes /\ Exclusion /\ Kept /\ Carried /\ Queued
  BY DEF CInv
<1>2. /\ pc[th] = "flush"
      /\ dbTasks' = IF w.to = "task" THEN [dbTasks EXCEPT ![w.id] = w.value] ELSE dbTasks
      /\ dbStatus' = IF w.to = "status" THEN [dbStatus EXCEPT ![w.id] = w.value] ELSE dbStatus
      /\ todo' = [todo EXCEPT ![th] = Tail(q)]
      /\ lock' = IF Len(q) = 1 THEN NoThread ELSE th
      /\ pc' = [pc EXCEPT ![th] = IF Len(q) = 1 THEN "idle" ELSE "flush"]
      /\ UNCHANGED <<memory, dbContext, dbCounter, holds, call>>
  BY <1>1 DEF Flush, Goto, CTypes
<1>3. q \in Seq(Writes) /\ q # <<>> /\ MayQueue(dbContext, "flush", q)
  BY <1>1, <1>2 DEF Queued, MayQueue, CTypes
<1> HIDE DEF q
<1>4. /\ w = q[1] /\ w \in Writes /\ Len(q) \in Nat \ {0} /\ 1 \in 1..Len(q)
      /\ Tail(q) \in Seq(Writes) /\ Len(Tail(q)) = Len(q) - 1
      /\ \A n \in 1..Len(Tail(q)) : Tail(q)[n] = q[n + 1] /\ n + 1 \in 1..Len(q)
  BY <1>3
<1>5. w.to = "task" => Covered(dbContext, w.id, w.value)
  BY <1>3, <1>4 DEF MayQueue
<1> HIDE DEF w
<1>6. UNCHANGED <<tasks, status, order, counter>>
  BY <1>2 DEF memory
<1>7. CTypes'
  <2>1. w.to = "status" => w.value \in Entry \cup {Absent}
    BY <1>4 DEF Writes
  <2>2. dbStatus' \in [Ids -> Entry \cup {Absent}] /\ DOMAIN dbTasks' = Ids
    BY <1>1, <1>2, <2>1 DEF CTypes
  <2>3. todo' \in [Threads -> Seq(Writes)]
    BY <1>1, <1>2, <1>4 DEF CTypes
  <2>4. pc' \in [Threads -> Labels]
    BY <1>1, <1>2 DEF CTypes, Labels
  <2> QED
    BY <1>1, <1>2, <1>6, <2>2, <2>3, <2>4 DEF CTypes
<1>8. /\ \A t \in Threads \ {th} : pc'[t] = pc[t] /\ call'[t] = call[t] /\ todo'[t] = todo[t]
      /\ pc'[th] = (IF Len(q) = 1 THEN "idle" ELSE "flush") /\ todo'[th] = Tail(q)
  BY <1>1, <1>2 DEF CTypes
<1>9. \A t \in Threads \ {th} : pc[t] \notin {"advance", "flush"}
  BY <1>1, <1>2 DEF Exclusion
<1>10. Exclusion'
  BY <1>1, <1>2, <1>8, <1>9 DEF Exclusion
<1>11. Kept'
  BY <1>1, <1>2, <1>5, <1>6 DEF Kept, CTypes
<1>12. MayCarry(dbContext', tasks', pc'[th], call'[th])
  BY <1>8 DEF MayCarry
<1>13. MayQueue(dbContext', pc'[th], todo'[th])
  <2>1. pc'[th] = "flush" => Tail(q) # <<>>
    <3>1. PICK rest \in Seq(Writes) : rest = Tail(q) /\ Len(rest) = Len(q) - 1 /\ Len(q) \in Nat
      BY <1>4
    <3>2. pc'[th] = "flush" => Len(q) # 1
      BY <1>8
    <3>3. pc'[th] = "flush" => rest # <<>>
      BY <3>1, <3>2
    <3> QED
      BY <3>1, <3>3
  <2>2. \A n \in 1..Len(Tail(q)) :
          Tail(q)[n].to = "task" => Covered(dbContext, Tail(q)[n].id, Tail(q)[n].value)
    BY <1>3, <1>4 DEF MayQueue
  <2> QED
    BY <1>2, <1>8, <2>1, <2>2 DEF MayQueue
<1> QED
  BY <1>2, <1>6, <1>7, <1>8, <1>9, <1>10, <1>11, <1>12, <1>13, OneThread

(* After a crash the memory is what Redis has, and nobody carries anything.*)
LEMMA CrashStepC ==
  ASSUME CInv, CrashAndRestart
  PROVE  CInv'
<1>1. CTypes /\ Kept
  BY DEF CInv
<1>2. /\ tasks' = dbTasks /\ status' = dbStatus /\ counter' = dbCounter
      /\ pc' = [th \in Threads |-> "idle"] /\ todo' = [th \in Threads |-> <<>>]
      /\ call' = [th \in Threads |-> NoCall]
      /\ UNCHANGED <<dbTasks, dbStatus, dbContext, dbCounter, holds>>
  BY DEF CrashAndRestart, redis
<1>3. order' \in Seq(Ids)
  <2> DEFINE S == {i \in Ids : dbStatus[i] # Absent}
  <2>1. IsFiniteSet(Ids)
    BY BrokerAssumption, FS_Interval DEF Ids
  <2>2. S \subseteq Ids
    OBVIOUS
  <2>3. order' \in SetToSeqs(S)
    BY DEF CrashAndRestart
  <2> HIDE DEF S
  <2>4. Cardinality(S) \in Nat
    BY <2>1, <2>2, FS_Subset, FS_CardinalityType
  <2>5. order' \in [1..Cardinality(S) -> S]
    BY <2>3 DEF SetToSeqs
  <2> QED
    BY <2>2, <2>4, <2>5
<1>4. CTypes'
  BY <1>1, <1>2, <1>3 DEF CTypes, Labels
<1>5. Exclusion' /\ Carried'
  BY <1>2 DEF Exclusion, Carried, MayCarry
<1>6. Queued'
  BY <1>2 DEF Queued, MayQueue
<1>7. Kept'
  BY <1>1, <1>2 DEF Kept
<1> QED
  BY <1>4, <1>5, <1>6, <1>7 DEF CInv

LEMMA NextCInv == CInv /\ [Next]_vars => CInv'
<1> SUFFICES ASSUME CInv, [Next]_vars PROVE CInv'
  OBVIOUS
<1>1. CASE Publishing
  BY <1>1, DrawStepC, InsertStepC, DumpStepC, SetStepC DEF Publishing, PublishOn
<1>2. CASE Serving
  <2>1. CASE \E th \in Threads, w \in Workers, i \in Ids : ClaimSpecificTask(th, i, w)
    BY <2>1, GrantStepC DEF ClaimSpecificTask
  <2>2. CASE \E th \in Threads, w \in Workers : ClaimTask(th, w)
    <3>1. PICK th \in Threads, w \in Workers, k \in 1..Len(order) : Grant(th, order[k], w)
      BY <2>2 DEF ClaimTask
    <3>2. order \in Seq(Ids)
      BY DEF CInv, CTypes
    <3>3. order[k] \in Ids
      BY <3>2
    <3> QED
      BY <3>1, <3>3, GrantStepC
  <2>3. CASE \E th \in Threads, i \in Ids : StoreContext(th, i)
    BY <2>3, StoreContextStepC
  <2>4. CASE \E th \in Threads, i \in Ids : SetPotSignature(th, i)
    BY <2>4, SignatureStepC
  <2>5. CASE \E th \in Threads, i \in Ids, o \in {"SUCCESS", "FAILED"}, d \in BOOLEAN :
               CompleteTask(th, i, o, d)
    BY <2>5, CompleteStepC
  <2>6. CASE \E th \in Threads : AdvanceStep(th)
    BY <2>6, AdvanceStepC
  <2>7. CASE \E th \in Threads : Flush(th)
    BY <2>7, FlushStepC
  <2> QED
    BY <1>2, <2>1, <2>2, <2>3, <2>4, <2>5, <2>6, <2>7 DEF Serving
<1>3. CASE Ageing \/ UNCHANGED vars
  <2>1. /\ UNCHANGED <<pc, call, todo, lock, order, status, tasks, counter, holds>>
        /\ UNCHANGED <<dbTasks, dbStatus, dbContext, dbCounter>>
    BY <1>3 DEF Ageing, GrowOld, vars, memory, redis, control
  <2>2. CTypes' /\ Exclusion'
    BY <2>1 DEF CInv, CTypes, Exclusion
  <2>3. Kept' /\ Carried' /\ Queued'
    BY <2>1 DEF CInv, Kept, Carried, Queued
  <2> QED
    BY <2>2, <2>3 DEF CInv
<1>4. CASE Recycling
  BY <1>4, TimeoutsStepC DEF Recycling
<1>5. CASE CrashAndRestart
  BY <1>5, CrashStepC
<1> QED
  BY <1>1, <1>2, <1>3, <1>4, <1>5 DEF Next, Running

(* A restart never resumes a pipeline at a step whose predecessors it      *)
(* cannot read: whatever number of threads serve whatever number of tasks, *)
(* and wherever in complete_task or publish_task the process dies.         *)
THEOREM ContextSafe == CrashSpec => []ContextBeforeAdvance
<1>1. CInv => ContextBeforeAdvance
  BY DEF CInv, Kept, Covered, ContextBeforeAdvance
<1> QED
  BY InitCInv, NextCInv, <1>1, PTL DEF CrashSpec
=============================================================================
