------------------------------ MODULE Commerce ------------------------------
(***************************************************************************)
(* How the gateway charges for a task: the trial gate                      *)
(* (src/gateway/trial.py), BillingEngine and CommerceEngine                *)
(* (src/gateway/billing.py), the proofs of task (src/chain/pot.py), and    *)
(* the in-memory settlement contract (src/chain/contract_client.py) that   *)
(* stands for the chain in development.                                    *)
(*                                                                         *)
(* Purchases and settlements run in threads of the gateway; deposits,      *)
(* withdrawals, refunds and what an admin sets on its event loop.  Nothing *)
(* holds a lock, and every amount of money, be it a dictionary's entry in  *)
(* the contract or a value in the storage, is changed by reading it and    *)
(* writing it back: Get and Put, with anybody's steps in between.          *)
(*                                                                         *)
(* The gateway has its signing key, and workers are named by addresses.    *)
(* A skill is named by its billing mode.  A task is charged at most once   *)
(* (SubmitFlow!ChargedOnce), so that the nonce of its settlement decides   *)
(* nothing and is left out.  So are the claims: nothing in the gateway     *)
(* makes one, the parties do on the chain (AgentGateway).                  *)
(***************************************************************************)
EXTENDS Integers, FiniteSets, FiniteSetsExt, Functions

CONSTANTS
  Users, Workers, Devs, NoParty,
  LoadUser,       (* the user whose tasks admin_setup publishes             *)
  Tasks, NoTask,
  Threads,        (* threads, and the operation the event loop is in        *)
  Cost,           (* COST_PER_TASK_USDC                                     *)
  TaskPrices,     (* what an admin sets as a skill's price of a task        *)
  PassPrice,      (* of a subscription and of a buyout                      *)
  Amounts,        (* of deposits, withdrawals and seeds                     *)
  MaxOps          (* bound on what brings money, and on what is priced      *)

ASSUME CommerceAssumption ==
  /\ NoParty \notin Workers \cup Devs /\ NoTask \notin Tasks /\ LoadUser \in Users
  /\ \A S \in {Users, Workers, Devs, Tasks, Threads} : IsFiniteSet(S)
  /\ Cost \in Nat \ {0} /\ PassPrice \in Nat \ {0} /\ MaxOps \in Nat
  /\ TaskPrices \subseteq Nat \ {0} /\ Amounts \subseteq Nat \ {0}

VARIABLES
  money,          (* what the contract and the storage have, cell by cell   *)
  snap, developer,                         (* the contract's other records  *)
  trial, pass, price, phase, pots,         (* the storage's                 *)
  task,           (* what has been admitted                                 *)
  thread,         (* thread -> its locals                                   *)
  (* history: money in less money out, the kinds of money overwritten with  *)
  (* a value computed from an old one, and the operations started           *)
  net, stale, ops

records == <<snap, developer, trial, pass, price, phase, pots>>
vars == <<money, records, task, thread, net, stale, ops>>

Modes == {"pay_per_task", "subscription", "buyout"}
Passes == {"subscription", "buyout"}
Pools == {"plg", "subscription", "buyout"}
Parties == Workers \cup Devs

Fees == <<"fees", NoParty>>
Accounts == ({"balance"} \X Users) \cup ({"pending"} \X Parties) \cup ({"pool"} \X Pools) \cup {Fees}
Cells == Accounts \cup ({"spend"} \X Users)

NoSnap == [st |-> "none", worker |-> NoParty, dev |-> NoParty, ws |-> 0, ds |-> 0, ts |-> 0]
NoAdmission == [st |-> "absent", user |-> LoadUser, mode |-> "pay_per_task"]
NoPot == -1
Free == [pc |-> "free", job |-> "none", part |-> "none", read |-> 0, due |-> 0,
         user |-> LoadUser, worker |-> NoParty, dev |-> NoParty, task |-> NoTask,
         mode |-> "pay_per_task", trial |-> FALSE, source |-> "plg", price |-> 0, phase |-> "q1",
         ws |-> 0, ds |-> 0, ts |-> 0]

Init ==
  /\ money = [c \in Cells |-> 0]
  /\ snap = [i \in Tasks |-> NoSnap]
  /\ developer = [m \in Modes |-> NoParty]
  /\ trial = [u \in Users |-> [m \in Modes |-> 0]] /\ pass = {}
  /\ price = [m \in Modes |-> Cost] /\ phase = "q1"
  /\ pots = [i \in Tasks |-> [p \in Parties |-> NoPot]]
  /\ task = [i \in Tasks |-> NoAdmission]
  /\ thread = [t \in Threads |-> Free]
  /\ net = 0 /\ stale = {} /\ ops = 0

-----------------------------------------------------------------------------
(* The event loop, when it is not in the middle of an operation of its own.*)

LoopJobs == {"deposit", "withdraw", "seed", "refund"}
LoopIdle == \A t \in Threads : thread[t].job \notin LoopJobs
Operation == LoopIdle /\ ops < MaxOps /\ ops' = ops + 1

(* enforce, then publish.  The count is 1 from the first task on, so that  *)
(* run_skill never reaches its balance check.                              *)
Entitled(u, m) == trial[u][m] = 0 \/ m = "pay_per_task" \/ <<u, m>> \in pass

Admitted(i, u, m) ==
  /\ LoopIdle
  /\ task[i].st = "absent"
  /\ task' = [task EXCEPT ![i] = [st |-> "open", user |-> u, mode |-> m]]
  /\ UNCHANGED <<money, snap, developer, pass, price, phase, pots, thread, net, stale, ops>>

Run(i, u, m) ==
  /\ Entitled(u, m)
  /\ Admitted(i, u, m)
  /\ trial' = IF trial[u][m] = 0 THEN [trial EXCEPT ![u][m] = @ + 1] ELSE trial

(* admin_setup publishes without the trial gate.                           *)
Setup(i, m) == Admitted(i, LoadUser, m) /\ UNCHANGED trial

(* A settlement of skill m has its snapshot and not yet all its proofs.    *)
Signing(m) ==
  \E t \in Threads :
    /\ thread[t].job = "settle" /\ thread[t].mode = m
    /\ thread[t].part # "balance" /\ thread[t].part # "spend"

RegisterDeveloper(m, d) ==
  /\ LoopIdle
  /\ developer' = [developer EXCEPT ![m] = d]
  /\ stale' = IF Signing(m) /\ d # developer[m] THEN stale \cup {"developer"} ELSE stale
  /\ UNCHANGED <<money, snap, trial, pass, price, phase, pots, task, thread, net, ops>>

SetRevenuePhase ==
  /\ Operation
  /\ phase' = IF phase = "q1" THEN "q2_q5" ELSE "q1"
  /\ UNCHANGED <<money, snap, developer, trial, pass, price, pots, task, thread, net, stale>>

(* Only the price of a task is varied: those of passes are PassPrice.      *)
SetSkillPricing(m, x) ==
  /\ Operation
  /\ price' = [price EXCEPT ![m] = x]
  /\ UNCHANGED <<money, snap, developer, trial, pass, phase, pots, task, thread, net, stale>>

(* Thirty days pass.                                                       *)
Expire(u) ==
  /\ <<u, "subscription">> \in pass
  /\ pass' = pass \ {<<u, "subscription">>}
  /\ UNCHANGED <<money, snap, developer, trial, price, phase, pots, task, thread, net, stale, ops>>

-----------------------------------------------------------------------------
(* Money.  The job of a thread is done in parts, each of which adds to one *)
(* cell or takes from it.                                                  *)

At(t, label) == thread[t].pc = label
Becomes(t, q) == thread' = [thread EXCEPT ![t] = q]
To(q, part) == [q EXCEPT !.pc = "get", !.part = part]
Leave(q, label) == [q EXCEPT !.pc = label, !.part = "none"]

Cell(q) ==
  CASE q.part \in {"balance", "spend"} -> <<q.part, q.user>>
    [] q.part = "pool" -> <<"pool", q.source>>
    [] q.part = "worker" -> <<"pending", q.worker>>
    [] q.part = "dev" /\ q.dev # NoParty -> <<"pending", q.dev>>
    [] OTHER -> Fees

Amount(q) ==
  CASE q.part = "worker" -> q.ws
    [] q.part = "dev" -> q.ds
    [] q.part = "fees" -> q.ts
    [] OTHER -> q.due

(* withdraw, settle_task and _drain_pool look whether there is enough; a   *)
(* refund takes what it can.                                               *)
Takes(q) == <<q.job, q.part>> \in {<<"withdraw", "balance">>, <<"purchase", "balance">>,
                                   <<"settle", "balance">>, <<"quoted", "pool">>}
Unwinds(q) == q.job = "refund" /\ q.part # "balance"

(* Mutant: a pool is drained without comparing.                            *)
CoversAnyPool(q, have) == q.part = "pool" \/ have >= Amount(q)
Covers(q, have) == have >= Amount(q)

(* Where there is not: _drain_pool's refusal goes unnoticed, the others end*)
(* in an error.                                                            *)
Get(t) ==
  LET q == thread[t]
      have == money[Cell(q)]
  IN  /\ At(t, "get")
      /\ Becomes(t, IF ~Takes(q) \/ Covers(q, have) THEN [q EXCEPT !.pc = "put", !.read = have]
                    ELSE IF q.job = "quoted" THEN Leave(q, "pot")
                    ELSE Free)
      /\ UNCHANGED <<money, records, task, net, stale, ops>>

(* Mutant: a refund takes nothing back from the developer.                 *)
LeavesDeveloper(q) ==
  CASE Takes(q) -> q.read - Amount(q)
    [] Unwinds(q) -> IF q.part = "dev" THEN q.read ELSE Max({0, q.read - Amount(q)})
    [] OTHER -> q.read + Amount(q)
Written(q) ==
  CASE Takes(q) -> q.read - Amount(q)
    [] Unwinds(q) -> Max({0, q.read - Amount(q)})
    [] OTHER -> q.read + Amount(q)

(* What is written was computed from what was read and not from what is    *)
(* there now; or a refund finds less than it takes back, as it comes before*)
(* the settlement has credited all of it.                                  *)
Stale(q) == q.read # money[Cell(q)] \/ (Unwinds(q) /\ q.read < Amount(q))

Store(q) ==
  /\ money' = [money EXCEPT ![Cell(q)] = Written(q)]
  /\ stale' = IF Stale(q) THEN stale \cup {Cell(q)[1]} ELSE stale

(* What a deposit or a seed brings and a withdrawal takes.  What a pool    *)
(* pays for a task leaves the books, too: nobody is credited.              *)
Brings(q) ==
  CASE q.job \in {"deposit", "seed"} -> q.due
    [] q.job \in {"withdraw", "quoted"} -> -q.due
    [] OTHER -> 0

(* What comes after a part.  Of a task without a developer, a settlement   *)
(* adds his share, which is 0, to the fees; a refund passes on.            *)
After(q) ==
  CASE q.job = "purchase" /\ q.part = "balance" -> To(q, "pool")
    [] q.job = "purchase" /\ q.part = "pool" -> Leave(q, "grant")
    [] q.job = "quoted" /\ q.part = "pool" -> Leave(q, "pot")
    [] q.job \in {"settle", "refund"} /\ q.part = "worker" ->
         To(q, IF q.job = "refund" /\ q.dev = NoParty THEN "fees" ELSE "dev")
    [] q.job \in {"settle", "refund"} /\ q.part = "dev" -> To(q, "fees")
    [] q.job = "settle" /\ q.part = "fees" -> Leave(q, "pot")
    [] OTHER -> Free

Put(t) ==
  LET q == thread[t]
  IN  /\ At(t, "put")
      /\ <<q.job, q.part>> \notin {<<"settle", "balance">>, <<"refund", "fees">>}
      /\ Store(q)
      /\ net' = net + Brings(q)
      /\ Becomes(t, After(q))
      /\ UNCHANGED <<records, task, ops>>

-----------------------------------------------------------------------------
(* Deposits, withdrawals, seeds and purchases.                             *)

(* On the event loop.                                                      *)
Begins(t, job, u, part, x) ==
  /\ Operation
  /\ At(t, "free")
  /\ Becomes(t, To([Free EXCEPT !.job = job, !.user = u, !.due = x], part))
  /\ UNCHANGED <<money, records, task, net, stale>>

Deposit(t, u, x) == Begins(t, "deposit", u, "balance", x)
Withdraw(t, u, x) == money[<<"balance", u>>] >= x /\ Begins(t, "withdraw", u, "balance", x)
SeedPlgPool(t, x) == Begins(t, "seed", LoadUser, "pool", x)

(* In a thread: the price and the balance, the withdrawal (which may raise *)
(* by then), the pool, the pass.                                           *)
Purchase(t, u, m) ==
  /\ Operation
  /\ At(t, "free")
  /\ money[<<"balance", u>>] >= PassPrice
  /\ Becomes(t, To([Free EXCEPT !.job = "purchase", !.user = u, !.mode = m, !.source = m,
                                !.due = PassPrice], "balance"))
  /\ UNCHANGED <<money, records, task, net, stale>>

Grant(t) ==
  /\ At(t, "grant")
  /\ pass' = pass \cup {<<thread[t].user, thread[t].mode>>}
  /\ Becomes(t, Free)
  /\ UNCHANGED <<money, snap, developer, trial, price, phase, pots, task, net, stale, ops>>

-----------------------------------------------------------------------------
(* charge_and_settle, once per task; submit_task reads the trial count of  *)
(* the moment.                                                             *)
Share(amount, bps) == (amount * bps) \div 10000
WorkerBps == 2500
DeveloperBps == 7000

Charge(t, i, w) ==
  LET u == task[i].user
      m == task[i].mode
      free == trial[u][m] = 1
      q == [Free EXCEPT !.user = u, !.worker = w, !.task = i, !.mode = m, !.trial = free]
  IN  /\ LoopIdle
      /\ At(t, "free")
      /\ task[i].st = "open"
      /\ task' = [task EXCEPT ![i].st = "charged"]
      /\ Becomes(t, IF m = "pay_per_task" /\ ~free
           THEN [q EXCEPT !.pc = "check", !.job = "settle", !.part = "balance", !.due = Cost]
           ELSE [q EXCEPT !.pc = "price", !.job = "quoted", !.part = "pool",
                          !.source = IF m \in Passes /\ ~free THEN m ELSE "plg"])
      /\ UNCHANGED <<money, records, net, stale, ops>>

(* Metered.  request_settlement asks for the balance, settle_task does     *)
(* again (Get), and then writes what it read less the cost.                *)
CheckBalance(t) ==
  LET q == thread[t]
  IN  /\ At(t, "check")
      /\ Becomes(t, IF money[Cell(q)] >= Cost THEN To(q, "balance") ELSE Free)
      /\ UNCHANGED <<money, records, task, net, stale, ops>>

(* Mutant: the treasury is left the developer's share as well.             *)
SplitTwice(d, w) ==
  LET ds == IF d = NoParty THEN 0 ELSE Share(Cost, DeveloperBps)
      ws == Share(Cost, WorkerBps)
  IN  [st |-> "settled", worker |-> w, dev |-> d, ws |-> ws, ds |-> ds, ts |-> Cost - ws]

(* Without a developer his share is the treasury's.                        *)
Split(d, w) ==
  LET ds == IF d = NoParty THEN 0 ELSE Share(Cost, DeveloperBps)
      ws == Share(Cost, WorkerBps)
  IN  [st |-> "settled", worker |-> w, dev |-> d, ws |-> ws, ds |-> ds, ts |-> Cost - ds - ws]

(* The developer, the balance, then the snapshot (a refund raises before   *)
(* it is there); then worker, developer and treasury are credited.         *)
PutSettlement(t) ==
  LET q == thread[t]
      s == Split(developer[q.mode], q.worker)
  IN  /\ At(t, "put")
      /\ q.job = "settle" /\ q.part = "balance"
      /\ Store(q)
      /\ snap' = [snap EXCEPT ![q.task] = s]
      /\ Becomes(t, To([q EXCEPT !.dev = s.dev, !.ws = s.ws, !.ds = s.ds, !.ts = s.ts], "worker"))
      /\ UNCHANGED <<developer, trial, pass, price, phase, pots, task, net, ops>>

(* Not metered: four reads, one after the other, and the quote.            *)
GetPrice(t) ==
  /\ At(t, "price")
  /\ Becomes(t, [thread[t] EXCEPT !.pc = "phase", !.price = price[thread[t].mode]])
  /\ UNCHANGED <<money, records, task, net, stale, ops>>

GetPhase(t) ==
  /\ At(t, "phase")
  /\ Becomes(t, [thread[t] EXCEPT !.pc = "have", !.phase = phase])
  /\ UNCHANGED <<money, records, task, net, stale, ops>>

GetPoolBalance(t) ==
  /\ At(t, "have")
  /\ Becomes(t, [thread[t] EXCEPT !.pc = "quote", !.read = money[Cell(thread[t])]])
  /\ UNCHANGED <<money, records, task, net, stale, ops>>

(* The worker gets a quarter of a trial and, as min(0, the bandwidth fee), *)
(* nothing of the rest; the developer nothing of a buyout; the treasury    *)
(* what is left, if anything is.                                           *)
Quote(q, d) ==
  LET ws == IF q.trial THEN Share(q.price, WorkerBps) ELSE 0
      ds == IF d = NoParty \/ q.mode = "buyout" THEN 0
            ELSE Share(q.price, IF q.phase = "q1" THEN DeveloperBps ELSE 9500)
  IN  [q EXCEPT !.dev = d, !.ws = ws, !.ds = ds, !.due = Max({q.price, ws + ds})]

(* A trial goes on when its pool is short, anything else fails.            *)
TakeQuote(t) ==
  LET q == Quote(thread[t], developer[thread[t].mode])
  IN  /\ At(t, "quote")
      /\ Becomes(t, IF q.read >= q.due THEN To(q, "pool")
                    ELSE IF q.trial THEN Leave(q, "pot") ELSE Free)
      /\ UNCHANGED <<money, records, task, net, stale, ops>>

(* The share the worker's proof is for.  Mutant: of the skill's own price. *)
PotOfPrice(q) == Share(price[q.mode], WorkerBps)
PotOfCost(q) == Share(Cost, WorkerBps)

(* generate_pot, for the worker and then for the developer: the one the    *)
(* skill has by now if metered, the one of the quote otherwise.            *)
WorkerPot(t) ==
  LET q == thread[t]
  IN  /\ At(t, "pot")
      /\ pots' = [pots EXCEPT ![q.task][q.worker] = IF q.job = "settle" THEN PotOfCost(q) ELSE q.ws]
      /\ Becomes(t, [q EXCEPT !.pc = "devpot"])
      /\ UNCHANGED <<money, snap, developer, trial, pass, price, phase, task, net, stale, ops>>

(* Mutant: a trial of a metered skill is taken for a metered task.         *)
MeteredTrial(q) == q.mode = "pay_per_task"
Metered(q) == q.mode = "pay_per_task" /\ ~q.trial

(* The consumer's spend is recorded when a metered settlement is over.     *)
DeveloperPot(t) ==
  LET q == thread[t]
      d == IF q.job = "settle" THEN developer[q.mode] ELSE q.dev
      ds == IF q.job = "settle" THEN Share(Cost, DeveloperBps) ELSE q.ds
  IN  /\ At(t, "devpot")
      /\ pots' = IF d = NoParty \/ ds = 0 THEN pots ELSE [pots EXCEPT ![q.task][d] = ds]
      /\ Becomes(t, IF Metered(q) THEN To(q, "spend") ELSE Free)
      /\ UNCHANGED <<money, snap, developer, trial, pass, price, phase, task, net, stale, ops>>

-----------------------------------------------------------------------------
(* refund_task, on the event loop: the judge refuses another submission of *)
(* a task that is being, or has been, settled.                             *)
RefundTask(t, i) ==
  LET s == snap[i]
  IN  /\ LoopIdle
      /\ At(t, "free")
      /\ s.st = "settled"
      /\ Becomes(t, To([Free EXCEPT !.job = "refund", !.task = i, !.user = task[i].user, !.due = Cost,
                          !.worker = s.worker, !.dev = s.dev, !.ws = s.ws, !.ds = s.ds, !.ts = s.ts],
                       "worker"))
      /\ UNCHANGED <<money, records, task, net, stale, ops>>

PutRefund(t) ==
  LET q == thread[t]
  IN  /\ At(t, "put")
      /\ q.job = "refund" /\ q.part = "fees"
      /\ Store(q)
      /\ snap' = [snap EXCEPT ![q.task].st = "refunded"]
      /\ Becomes(t, To(q, "balance"))
      /\ UNCHANGED <<developer, trial, pass, price, phase, pots, task, net, ops>>

Step(t) ==
  \/ Get(t) \/ Put(t) \/ Grant(t)
  \/ CheckBalance(t) \/ PutSettlement(t)
  \/ GetPrice(t) \/ GetPhase(t) \/ GetPoolBalance(t) \/ TakeQuote(t)
  \/ WorkerPot(t) \/ DeveloperPot(t)
  \/ PutRefund(t)

Next ==
  \/ \E i \in Tasks, m \in Modes : Setup(i, m) \/ \E u \in Users : Run(i, u, m)
  \/ \E m \in Modes : \/ \E d \in Devs : RegisterDeveloper(m, d)
                      \/ \E x \in TaskPrices : SetSkillPricing(m, x)
  \/ SetRevenuePhase
  \/ \E u \in Users : Expire(u)
  \/ \E t \in Threads :
       \/ \E x \in Amounts : SeedPlgPool(t, x) \/ \E u \in Users : Deposit(t, u, x) \/ Withdraw(t, u, x)
       \/ \E u \in Users, m \in Passes : Purchase(t, u, m)
       \/ \E i \in Tasks : RefundTask(t, i) \/ \E w \in Workers : Charge(t, i, w)
       \/ Step(t)

Spec == Init /\ [][Next]_vars

-----------------------------------------------------------------------------
(* PROPERTIES                                                              *)

(* Neither a deposit nor a pool is ever overdrawn, whichever threads read  *)
(* and write them at once, and no user has more than one trial counted.    *)
TypeOK ==
  /\ money \in [Cells -> Nat]
  /\ trial \in [Users -> [Modes -> 0..1]] /\ pass \subseteq Users \X Passes
  /\ developer \in [Modes -> Devs \cup {NoParty}]
  /\ pots \in [Tasks -> [Parties -> Nat \cup {NoPot}]]
  /\ stale \subseteq {"balance", "pending", "pool", "fees", "spend", "developer"}

(* What a purchase, a settlement or a refund has taken and not yet put     *)
(* where it belongs.                                                       *)
UnderWay(q) ==
  CASE q.job = "purchase" /\ q.part = "pool" -> q.due
    [] q.job = "settle" /\ q.part = "worker" -> q.ws + q.ds + q.ts
    [] q.job = "settle" /\ q.part = "dev" -> q.ds + q.ts
    [] q.job = "settle" /\ q.part = "fees" -> q.ts
    [] q.job = "refund" /\ q.part = "dev" -> q.ws
    [] q.job = "refund" /\ q.part = "fees" -> q.ws + q.ds
    [] q.job = "refund" /\ q.part = "balance" -> q.due
    [] OTHER -> 0

(* Deposits, payouts due, fees, pools and what is under way add up to the  *)
(* money that came in less the money that went out, at every step of every *)
(* thread, unless one overwrote money with what it had read before.        *)
BooksBalance ==
  stale \cap {"balance", "pending", "pool", "fees"} = {} =>
    SumFunctionOnSet(money, Accounts)
      + SumFunctionOnSet([t \in Threads |-> UnderWay(thread[t])], Threads) = net

(* Of a party: still to be credited, or taken back before the task counts  *)
(* as refunded.                                                            *)
Moving(q, p) ==
  (IF p = q.worker /\ <<q.job, q.part>> \in {<<"settle", "worker">>, <<"refund", "dev">>,
                                             <<"refund", "fees">>} THEN q.ws ELSE 0)
  + (IF p = q.dev /\ <<q.job, q.part>> \in {<<"settle", "worker">>, <<"settle", "dev">>,
                                            <<"refund", "fees">>} THEN q.ds ELSE 0)
Due(s, p) ==
  IF s.st # "settled" THEN 0
  ELSE (IF p = s.worker THEN s.ws ELSE 0) + (IF p = s.dev THEN s.ds ELSE 0)

(* What is due to a party, with what is moving, is what the settled tasks' *)
(* snapshots owe it: a refund takes back no other task's share, whichever  *)
(* settlements it comes between; unless one payout was overwritten.        *)
PendingIsOwed ==
  "pending" \notin stale =>
    \A p \in Parties :
      money[<<"pending", p>>] + SumFunctionOnSet([t \in Threads |-> Moving(thread[t], p)], Threads)
        = SumFunctionOnSet([i \in Tasks |-> Due(snap[i], p)], Tasks)

Busy(i) == \E t \in Threads : thread[t].task = i /\ thread[t].job # "refund"

(* Once its settlement is over, the parties of the contract's snapshot hold*)
(* proofs for exactly the shares in it and nobody else holds one, whatever *)
(* is priced, settled and refunded meanwhile; the developer's excepted if  *)
(* another was registered between the snapshot and the proofs.  (A worker  *)
(* who is a developer too may have his proof overwritten.)                 *)
PotsMatchSnapshots ==
  \A i \in Tasks :
    LET s == snap[i]
    IN  s.st # "none" /\ ~Busy(i) /\ s.worker \notin Devs =>
          /\ pots[i][s.worker] = s.ws
          /\ "developer" \notin stale =>
               \A p \in Parties \ {s.worker} : pots[i][p] = IF p = s.dev /\ s.ds > 0 THEN s.ds ELSE NoPot

(* A consumer's recorded spend is the cost of the tasks that were settled  *)
(* from his deposit, unless two threads recorded at once.                  *)
SpendIsCharged ==
  "spend" \notin stale =>
    \A u \in Users : money[<<"spend", u>>] =
      Cost * Cardinality({i \in Tasks : task[i].user = u /\ snap[i].st # "none" /\ ~Busy(i)})
=============================================================================
