---------------------------- MODULE MarketProofs ----------------------------
(***************************************************************************)
(* The properties of Market for any number of requests, tasks and calls.   *)
(*                                                                         *)
(* A vault's books (TaskBooks) are inductive task by task, but for the     *)
(* making of a vault, which must not replace one that has been paid: the   *)
(* requests that are to make one refer to tasks without a vault, each to   *)
(* its own (Makers).  The registry of Market is that of SkillRegistry, so  *)
(* that UploadsServed, proved of it first, is inherited from there.        *)
(***************************************************************************)
EXTENDS Market, SequenceTheorems, TLAPS

(***************************************************************************)
(* The registry.  UploadsServed, for any skills and any number of loads at *)
(* once, is inductive once the cache is known to be a set of skills or     *)
(* None, which tells a cache that was filled with nothing from one that    *)
(* was not.                                                                *)
(***************************************************************************)
RegistryInv == RegistryTypeOK /\ UploadsServed

(* What install_skill makes of the cache is a cache, and a cache is not    *)
(* None.                                                                   *)
LEMMA CacheIsSet ==
  ASSUME RegistryTypeOK
  PROVE  /\ Installed \in SUBSET (Static \cup Uploads)
         /\ \A skills \in SUBSET (Static \cup Uploads) : skills # NotLoaded
  BY RegistryAssumption DEF RegistryTypeOK, Installed

(* A process that starts serves every upload that is whole.                *)
LEMMA RecoveredServes ==
  ASSUME NEW code \in SUBSET Uploads, manifests \subseteq Uploads
  PROVE  /\ Recovered(code) = NotLoaded \/ Recovered(code) \in SUBSET Uploads
         /\ manifests \cap code \subseteq
              IF Recovered(code) = NotLoaded THEN {} ELSE Recovered(code)
  <1>1. CASE manifests \cap code = {}
    BY <1>1 DEF Recovered
  <1>2. CASE manifests \cap code # {}
    <2>1. manifests \cap code \in SUBSET (Static \cup Uploads)
      OBVIOUS
    <2>2. manifests \cap code # NotLoaded
      BY <2>1, RegistryAssumption
    <2>3. QED
      BY <1>2, <2>2 DEF Recovered
  <1>3. QED
    BY <1>1, <1>2

LEMMA RegistryInitInv == InitRegistry => RegistryInv
  BY RegistryAssumption
  DEF InitRegistry, RegistryInv, RegistryTypeOK, UploadsServed, Stored, Installed

LEMMA RegistryNextInv == RegistryInv /\ [RegistryNext]_registry => RegistryInv'
  <1> SUFFICES ASSUME RegistryInv, [RegistryNext]_registry PROVE RegistryInv'
    OBVIOUS
  <1> USE DEF RegistryInv, RegistryTypeOK
  <1>0. ASSUME Load PROVE RegistryInv'
    BY <1>0, RegistryAssumption DEF Load, Served, UploadsServed, Stored, Installed
  <1>1. ASSUME StartLoad PROVE RegistryInv'
    BY <1>1, RegistryAssumption DEF StartLoad, UploadsServed, Stored, Installed
  <1>2. ASSUME FinishLoad PROVE RegistryInv'
    <2>1. Static # NotLoaded
      BY CacheIsSet
    <2>2. RegistryTypeOK'
      BY <1>2, CacheIsSet, RegistryAssumption DEF FinishLoad
    <2>3. UploadsServed'
      BY <1>2, <2>1 DEF FinishLoad, UploadsServed, Stored, Installed
    <2>4. QED
      BY <2>2, <2>3
  <1>3. ASSUME NEW u \in Uploads, Upload(u) PROVE RegistryInv'
    <2>1. cache' = Installed \cup {u} /\ cache' # NotLoaded
      BY <1>3, CacheIsSet DEF Upload, InstallSkill
    <2>2. RegistryTypeOK'
      BY <1>3, <2>1, CacheIsSet DEF Upload, InstallSkill
    <2>3. UploadsServed'
      BY <1>3, <2>1 DEF Upload, InstallSkill, UploadsServed, Stored, Installed
    <2>4. QED
      BY <2>2, <2>3
  <1>4. ASSUME RestartRegistry PROVE RegistryInv'
    <2>1. PICK code \in SUBSET Uploads :
            /\ logic' = code /\ cache' = Recovered(code)
            /\ loading' = 0 /\ dropped' = {} /\ manifests' = manifests
      BY <1>4 DEF RestartRegistry
    <2>2. RegistryTypeOK'
      BY <2>1, RecoveredServes, RegistryAssumption
    <2>3. UploadsServed'
      BY <2>1, RecoveredServes DEF UploadsServed, Stored, Installed
    <2>4. QED
      BY <2>2, <2>3
  <1>5. CASE UNCHANGED registry
    BY <1>5 DEF registry, UploadsServed, Stored, Installed
  <1>6. QED
    BY <1>0, <1>1, <1>2, <1>3, <1>4, <1>5 DEF RegistryNext

(* Every upload that is whole in the store is served, by this process and  *)
(* by every later one, unless a load that began before it overwrote the    *)
(* cache: SkillStore.install_zip, SkillStore.load_into_registry.           *)
THEOREM UploadsSafe == RegistrySpec => []UploadsServed
  <1>1. RegistryInv => UploadsServed
    BY DEF RegistryInv
  <1>2. QED
    BY RegistryInitInv, RegistryNextInv, <1>1, PTL DEF RegistrySpec

-----------------------------------------------------------------------------
(* The market.                                                             *)
States == {"pending", "claimed", "success", "failed"}
Vault == [funded : BOOLEAN, balance : Nat, budget : Nat]
Task == [user : Users \cup {NoOne}, skill : Skills \cup {NoOne}, market : BOOLEAN,
         state : States, vault : Vault, received : Nat, keys : Nat, cut : BOOLEAN]
Local == [pc : {"idle", "publish", "vault", "key"}, user : Users \cup {NoOne},
          skill : Skills \cup {NoOne}, budget : Nat, market : BOOLEAN, task : Nat]

Shapes == tasks \in Seq(Task) /\ request \in [Requests -> Local]

(* A vault that has not been paid holds nothing; one that has been holds   *)
(* its budget; either way what was received.                               *)
BooksOf(row) ==
  /\ row.vault.balance = row.received
  /\ IF row.vault.funded THEN row.received = row.vault.budget ELSE row.received = 0
TaskBooks == \A t \in TaskIds : BooksOf(tasks[t])

Makers ==
  /\ \A r \in Requests :
       /\ request[r].pc \in {"publish", "vault"} => request[r].budget > 0
       /\ request[r].pc = "vault" =>
            request[r].task \in TaskIds /\ tasks[request[r].task].vault = NoVault
       /\ request[r].pc = "key" => request[r].task \in TaskIds
  /\ \A q, r \in Requests :
       request[q].pc = "vault" /\ request[r].pc = "vault" /\ request[q].task = request[r].task
         => q = r

IInv == Shapes /\ TaskBooks /\ Makers /\ AnsweredTasksHaveVaults /\ OneKeyPerTask

-----------------------------------------------------------------------------
(* What most actions do: at most one task changes and keeps what matters,  *)
(* and no request comes to make a vault or is done with making one.        *)
Kept(row, new) ==
  /\ new \in Task
  /\ BooksOf(row) => BooksOf(new)
  /\ row.vault = NoVault <=> new.vault = NoVault
  /\ new.market = row.market /\ new.cut = row.cut
  /\ row.keys <= 1 => new.keys <= 1
TasksKept ==
  \/ tasks' = tasks
  \/ \E t \in TaskIds, new \in Task : tasks' = [tasks EXCEPT ![t] = new] /\ Kept(tasks[t], new)

RequestsKept ==
  \/ request' = request
  \/ \E r \in Requests, l \in Local :
       /\ request' = [request EXCEPT ![r] = l]
       /\ request[r].pc # "vault" /\ l.pc # "vault"
       /\ l.pc = "publish" => l.budget > 0
       /\ l.pc = "key" => l.task \in TaskIds

LEMMA KeptRows ==
  ASSUME tasks \in Seq(Task), TasksKept
  PROVE  /\ tasks' \in Seq(Task) /\ TaskIds' = TaskIds
         /\ \A t \in TaskIds : tasks'[t] = tasks[t] \/ Kept(tasks[t], tasks'[t])
  <1>1. CASE tasks' = tasks
    BY <1>1 DEF TaskIds
  <1>2. CASE \E t \in TaskIds, new \in Task :
               tasks' = [tasks EXCEPT ![t] = new] /\ Kept(tasks[t], new)
    <2>1. PICK t \in TaskIds, new \in Task :
            tasks' = [tasks EXCEPT ![t] = new] /\ Kept(tasks[t], new)
      BY <1>2
    <2>2. tasks' \in Seq(Task) /\ Len(tasks') = Len(tasks)
      BY <2>1, ExceptSeq DEF TaskIds
    <2>3. \A u \in TaskIds : tasks'[u] = IF u = t THEN new ELSE tasks[u]
      BY <2>1, ExceptSeq DEF TaskIds
    <2>4. QED
      BY <2>1, <2>2, <2>3 DEF TaskIds
  <1>3. QED
    BY <1>1, <1>2 DEF TasksKept

LEMMA KeptRequests ==
  ASSUME request \in [Requests -> Local], RequestsKept
  PROVE  /\ request' \in [Requests -> Local]
         /\ \A r \in Requests :
              \/ request'[r] = request[r]
              \/ /\ request[r].pc # "vault" /\ request'[r].pc # "vault"
                 /\ request'[r].pc = "publish" => request'[r].budget > 0
                 /\ request'[r].pc = "key" => request'[r].task \in TaskIds
  BY DEF RequestsKept

LEMMA KeptInv == ASSUME IInv, TasksKept, RequestsKept PROVE IInv'
  <1> USE DEF IInv
  <1>1. Shapes'
    BY KeptRows, KeptRequests DEF Shapes
  <1>2. TaskBooks'
    BY KeptRows DEF Shapes, TaskBooks, Kept
  <1>3. \A r \in Requests : request'[r].pc = "vault" <=> request[r].pc = "vault"
    BY KeptRequests DEF Shapes
  <1>4. \A r \in Requests : request[r].pc = "vault" => request'[r] = request[r]
    BY KeptRequests DEF Shapes
  <1>5. Makers'
    <2>1. \A t \in TaskIds : tasks[t].vault = NoVault => tasks'[t].vault = NoVault
      BY KeptRows DEF Shapes, Kept
    <2>2. \A r \in Requests : request'[r].pc = "vault" =>
            request'[r].task \in TaskIds' /\ tasks'[request'[r].task].vault = NoVault
      BY <1>3, <1>4, <2>1, KeptRows DEF Shapes, Makers
    <2>3. \A r \in Requests :
            /\ request'[r].pc \in {"publish", "vault"} => request'[r].budget > 0
            /\ request'[r].pc = "key" => request'[r].task \in TaskIds'
      BY <1>3, <1>4, KeptRows, KeptRequests DEF Shapes, Makers
    <2>4. QED
      BY <1>3, <1>4, <2>2, <2>3 DEF Makers
  <1>6. AnsweredTasksHaveVaults'
    BY <1>3, <1>4, KeptRows DEF Shapes, Kept, AnsweredTasksHaveVaults, HasVault, At
  <1>7. OneKeyPerTask'
    BY KeptRows DEF Shapes, Kept, OneKeyPerTask
  <1>8. QED
    BY <1>1, <1>2, <1>5, <1>6, <1>7

-----------------------------------------------------------------------------
(* The actions that keep them.                                             *)
LEMMA RowTyped == ASSUME Shapes, NEW t \in TaskIds PROVE tasks[t] \in Task
  BY DEF Shapes, TaskIds

LEMMA IdleLocal == Idle \in Local /\ Idle.pc = "idle" /\ Idle.budget = 0
  BY DEF Idle, Local

LEMMA EndKept ==
  ASSUME NEW r \in Requests, request[r].pc # "vault", End(r)
  PROVE  RequestsKept
  BY IdleLocal DEF End, Goto, RequestsKept

LEMMA EnterKept ==
  ASSUME NEW r \in Requests, NEW u \in Users, NEW s \in Skills, NEW b \in Budgets,
         NEW market \in BOOLEAN, Enter(r, u, s, b, market)
  PROVE  TasksKept /\ RequestsKept
  <1> DEFINE l == [Idle EXCEPT !.pc = "publish", !.user = u, !.skill = s, !.budget = b,
                               !.market = market]
  <1>0. b \in Nat /\ b > 0
    BY MarketAssumption
  <1>1. l \in Local /\ l.pc = "publish" /\ l.budget > 0
    BY <1>0, IdleLocal DEF Local
  <1>2. request' = [request EXCEPT ![r] = l] /\ request[r].pc # "vault" /\ tasks' = tasks
    BY DEF Enter, Goto, At
  <1>3. QED
    BY <1>1, <1>2 DEF TasksKept, RequestsKept

(* A vault v, funded, and a sum n received are written of a task.          *)
LEMMA PaidKept ==
  ASSUME NEW t \in TaskIds, NEW v \in Vault, NEW n \in Nat, tasks[t] \in Task,
         tasks' = [tasks EXCEPT ![t] = [tasks[t] EXCEPT !.vault = v, !.received = n]],
         v.funded, tasks[t].vault # NoVault,
         BooksOf(tasks[t]) => v.balance = n /\ n = v.budget
  PROVE  TasksKept
  <1> DEFINE row == tasks[t]
             new == [row EXCEPT !.vault = v, !.received = n]
  <1>1. /\ new \in Task /\ new.vault = v /\ new.received = n
        /\ new.market = row.market /\ new.cut = row.cut /\ new.keys = row.keys
    <2> HIDE DEF row
    <2>1. row \in Task
      BY DEF row
    <2>2. QED
      BY <2>1 DEF Task
  <1>2. tasks' = [tasks EXCEPT ![t] = new]
    OBVIOUS
  <1> HIDE DEF new
  <1>3. new.vault # NoVault
    BY <1>1 DEF NoVault, EmptyVault
  <1>4. BooksOf(tasks[t]) => BooksOf(new)
    BY <1>1 DEF BooksOf
  <1>5. Kept(tasks[t], new)
    BY <1>1, <1>3, <1>4 DEF Kept
  <1>6. QED
    BY <1>1, <1>2, <1>5 DEF TasksKept

LEMMA PayKept == ASSUME Shapes, NEW t \in TaskIds, Pay(t) PROVE TasksKept /\ RequestsKept
  <1> DEFINE row == tasks[t]
             b == row.vault.budget
             v == [row.vault EXCEPT !.funded = TRUE, !.balance = b]
             n == row.received + b
  <1>1. row \in Task /\ row.vault # NoVault /\ ~row.vault.funded
    BY RowTyped DEF Pay, HasVault
  <1>2. row.vault \in Vault /\ b \in Nat /\ row.received \in Nat /\ n \in Nat
    BY <1>1 DEF Task, Vault
  <1>3. v \in Vault /\ v.funded = TRUE /\ v.balance = b /\ v.budget = b
    BY <1>2 DEF Vault
  <1>4. tasks' = [tasks EXCEPT ![t] = [row EXCEPT !.vault = v, !.received = n]]
    BY <1>1 DEF Pay
  <1>5. BooksOf(row) => n = b
    BY <1>1, <1>2 DEF BooksOf
  <1> HIDE DEF v, n
  <1>6. TasksKept
    BY <1>1, <1>2, <1>3, <1>4, <1>5, PaidKept
  <1>7. QED
    BY <1>6 DEF Pay, RequestsKept

LEMMA BoostKept ==
  ASSUME Shapes, NEW t \in TaskIds, NEW a \in Amounts, Boost(t, a)
  PROVE  TasksKept /\ RequestsKept
  <1> DEFINE row == tasks[t]
             x == row.vault.balance + a
             b == row.vault.budget + a
             v == [row.vault EXCEPT !.balance = x, !.budget = b]
             n == row.received + a
  <1>1. row \in Task /\ row.vault # NoVault /\ row.vault.funded /\ a \in Nat /\ a > 0
    BY RowTyped, MarketAssumption DEF Boost, HasVault, Boostable
  <1>2. row.vault \in Vault /\ row.vault.budget \in Nat /\ row.vault.balance \in Nat
        /\ row.received \in Nat
    BY <1>1 DEF Task, Vault
  <1>3. x \in Nat /\ b \in Nat /\ n \in Nat /\ b > 0
    BY <1>1, <1>2
  <1>4. tasks' = [tasks EXCEPT ![t] = [row EXCEPT !.vault = v, !.received = n]]
    BY <1>1 DEF Boost
  <1>5. BooksOf(row) => n = b /\ x = n
    BY <1>1, <1>2 DEF BooksOf
  <1> HIDE DEF x, b, n
  <1>6. v \in Vault /\ v.funded = row.vault.funded /\ v.balance = x /\ v.budget = b
    BY <1>2, <1>3 DEF Vault
  <1> HIDE DEF v
  <1>7. TasksKept
    BY <1>1, <1>3, <1>4, <1>5, <1>6, PaidKept
  <1>8. QED
    BY <1>7 DEF Boost, RequestsKept

LEMMA MoveKept ==
  ASSUME Shapes, NEW t \in TaskIds, NEW from, NEW to \in States, Move(t, from, to),
         request' = request
  PROVE  TasksKept /\ RequestsKept
  <1> DEFINE row == tasks[t]
             new == [row EXCEPT !.state = to]
  <1>1. /\ row \in Task /\ new \in Task
        /\ new.vault = row.vault /\ new.received = row.received
        /\ new.market = row.market /\ new.cut = row.cut /\ new.keys = row.keys
    BY RowTyped DEF Task
  <1>2. tasks' = [tasks EXCEPT ![t] = new]
    BY DEF Move
  <1> HIDE DEF new
  <1>3. Kept(row, new)
    BY <1>1 DEF Kept, BooksOf
  <1>4. QED
    BY <1>1, <1>2, <1>3 DEF TasksKept, RequestsKept

LEMMA AskKept ==
  ASSUME NEW r \in Requests, NEW u \in Users \cup {NoOne}, NEW t \in TaskIds, AskKey(r, u, t)
  PROVE  TasksKept /\ RequestsKept
  <1> DEFINE l == [Idle EXCEPT !.pc = "key", !.user = u, !.task = t]
  <1>0. t \in Nat
    BY DEF TaskIds
  <1>1. l \in Local /\ l.pc = "key" /\ l.task = t
    BY <1>0, IdleLocal DEF Local
  <1>2. request' = [request EXCEPT ![r] = l] /\ request[r].pc # "vault" /\ tasks' = tasks
    BY DEF AskKey, Goto, At
  <1>3. QED
    BY <1>1, <1>2 DEF TasksKept, RequestsKept

LEMMA IssueKept ==
  ASSUME Shapes, Makers, NEW r \in Requests, IssueKey(r)
  PROVE  TasksKept /\ RequestsKept
  <1> DEFINE t == request[r].task
             row == tasks[t]
             new == [row EXCEPT !.keys = row.keys + 1]
  <1>1. t \in TaskIds /\ request[r].pc = "key"
    BY DEF IssueKey, At, Makers
  <1>2. /\ row \in Task /\ new \in Task
        /\ new.vault = row.vault /\ new.received = row.received
        /\ new.market = row.market /\ new.cut = row.cut /\ new.keys = row.keys + 1
    BY <1>1, RowTyped DEF Task
  <1>3. RequestsKept
    BY <1>1, EndKept DEF IssueKey
  <1>4. CASE tasks' = tasks
    BY <1>3, <1>4 DEF TasksKept
  <1>5. CASE Unissued(t) /\ tasks' = WithKey(t)
    <2>1. row.keys = 0 /\ tasks' = [tasks EXCEPT ![t] = new]
      BY <1>5 DEF Unissued, WithKey
    <2> HIDE DEF new
    <2>2. Kept(row, new)
      BY <1>2, <2>1 DEF Kept, BooksOf
    <2>3. QED
      BY <1>1, <1>2, <1>3, <2>1, <2>2 DEF TasksKept
  <1>6. QED
    BY <1>4, <1>5 DEF IssueKey

-----------------------------------------------------------------------------
(* The three that do not.                                                  *)
LEMMA PublishInv == ASSUME IInv, NEW r \in Requests, Publish(r) PROVE IInv'
  <1> USE DEF IInv
  <1> DEFINE n == Len(tasks) + 1
             row == [user |-> request[r].user, skill |-> request[r].skill,
                     market |-> request[r].market, state |-> "pending", vault |-> NoVault,
                     received |-> 0, keys |-> 0, cut |-> FALSE]
             l == AfterPublish(r)
  <1>1. request[r] \in Local /\ request[r].pc = "publish" /\ Len(tasks) \in Nat
    BY DEF Shapes, Publish, At
  <1>2. NoVault \in Vault /\ BooksOf(row)
    BY DEF NoVault, EmptyVault, Vault, BooksOf
  <1>3. /\ row \in Task /\ row.vault = NoVault /\ row.keys = 0
        /\ row.market = request[r].market /\ row.cut = FALSE
    BY <1>1, <1>2 DEF Local, Task, States
  <1>4. tasks' = Append(tasks, row) /\ request' = [request EXCEPT ![r] = l]
    BY DEF Publish, Goto
  <1>5. /\ l \in Local
        /\ l.pc = "idle" \/ l.pc = "vault"
        /\ l.pc = "vault" => l.task = n /\ l.budget = request[r].budget
        /\ request[r].market => l.pc = "vault"
    <2>1. CASE request[r].market
      <3>1. l = [request[r] EXCEPT !.pc = "vault", !.task = n]
        BY <2>1 DEF AfterPublish
      <3>2. n \in Nat
        BY <1>1
      <3> HIDE DEF l, n
      <3>3. l \in Local /\ l.pc = "vault" /\ l.task = n /\ l.budget = request[r].budget
        BY <1>1, <3>1, <3>2 DEF Local
      <3>4. QED
        BY <3>3
    <2>2. CASE ~request[r].market
      BY <2>2, IdleLocal DEF AfterPublish
    <2>3. QED
      BY <2>1, <2>2
  <1> HIDE DEF row, l
  <1>6. /\ tasks' \in Seq(Task) /\ Len(tasks') = n /\ tasks'[n] = row
        /\ \A t \in TaskIds : tasks'[t] = tasks[t]
    BY <1>3, <1>4, AppendProperties DEF Shapes, TaskIds
  <1>7. TaskIds' = TaskIds \cup {n} /\ n \notin TaskIds
    BY <1>1, <1>6 DEF TaskIds
  <1>8. request' \in [Requests -> Local] /\ request'[r] = l
        /\ \A q \in Requests : q # r => request'[q] = request[q]
    BY <1>4, <1>5 DEF Shapes
  <1> HIDE DEF n
  <1>9. Shapes' /\ TaskBooks'
    BY <1>2, <1>6, <1>7, <1>8 DEF Shapes, TaskBooks
  <1>10. Makers'
    <2>1. \A q \in Requests :
            /\ request'[q].pc \in {"publish", "vault"} => request'[q].budget > 0
            /\ request'[q].pc = "vault" =>
                 request'[q].task \in TaskIds' /\ tasks'[request'[q].task].vault = NoVault
            /\ request'[q].pc = "key" => request'[q].task \in TaskIds'
      BY <1>1, <1>3, <1>5, <1>6, <1>7, <1>8 DEF Makers
    <2>2. \A p, q \in Requests :
            request'[p].pc = "vault" /\ request'[q].pc = "vault"
              /\ request'[p].task = request'[q].task => p = q
      BY <1>5, <1>7, <1>8 DEF Makers
    <2>3. QED
      BY <2>1, <2>2 DEF Makers
  <1>11. AnsweredTasksHaveVaults'
    <2> SUFFICES ASSUME NEW t \in TaskIds', tasks'[t].market
                 PROVE  \/ tasks'[t].vault # NoVault \/ tasks'[t].cut
                        \/ \E q \in Requests : request'[q].pc = "vault" /\ request'[q].task = t
      BY DEF AnsweredTasksHaveVaults, HasVault, At
    <2>1. CASE t = n
      BY <1>3, <1>5, <1>6, <1>8, <2>1
    <2>2. CASE t \in TaskIds
      <3>1. \/ tasks[t].vault # NoVault \/ tasks[t].cut
            \/ \E q \in Requests : request[q].pc = "vault" /\ request[q].task = t
        BY <1>6, <2>2 DEF AnsweredTasksHaveVaults, HasVault, At
      <3>2. QED
        BY <1>1, <1>6, <1>8, <2>2, <3>1
    <2>3. QED
      BY <1>7, <2>1, <2>2
  <1>12. OneKeyPerTask'
    BY <1>3, <1>6, <1>7 DEF OneKeyPerTask
  <1>13. QED
    BY <1>9, <1>10, <1>11, <1>12

LEMMA MakeVaultInv == ASSUME IInv, NEW r \in Requests, MakeVault(r) PROVE IInv'
  <1> USE DEF IInv
  <1> DEFINE k == request[r].task
             row == tasks[k]
             v == EmptyVault(request[r].budget)
             new == [row EXCEPT !.vault = v]
  <1>1. /\ request[r] \in Local /\ request[r].pc = "vault" /\ request[r].budget > 0
        /\ k \in TaskIds /\ row.vault = NoVault
    BY DEF Shapes, Makers, MakeVault, At
  <1>2. row \in Task /\ row.received = 0
    BY <1>1, RowTyped DEF TaskBooks, BooksOf, NoVault, EmptyVault
  <1>3. request[r].budget \in Nat
    BY <1>1 DEF Local
  <1>4. v \in Vault /\ v # NoVault /\ v.balance = 0 /\ v.funded = FALSE
    BY <1>1, <1>3 DEF NoVault, EmptyVault, Vault
  <1>5. tasks' = [tasks EXCEPT ![k] = new] /\ request' = [request EXCEPT ![r] = Idle]
    BY DEF MakeVault, End, Goto
  <1> HIDE DEF v
  <1>6. /\ new \in Task /\ new.vault = v /\ new.received = 0
        /\ new.market = row.market /\ new.cut = row.cut /\ new.keys = row.keys
    BY <1>2, <1>4 DEF Task
  <1> HIDE DEF new
  <1>7. /\ tasks' \in Seq(Task) /\ TaskIds' = TaskIds
        /\ \A t \in TaskIds : tasks'[t] = IF t = k THEN new ELSE tasks[t]
    BY <1>1, <1>5, <1>6, ExceptSeq DEF Shapes, TaskIds
  <1>8. /\ request' \in [Requests -> Local] /\ request'[r].pc = "idle"
        /\ \A q \in Requests : q # r => request'[q] = request[q]
    BY <1>5, IdleLocal DEF Shapes
  <1>9. BooksOf(new)
    BY <1>4, <1>6 DEF BooksOf
  <1>10. Shapes' /\ TaskBooks'
    BY <1>7, <1>8, <1>9 DEF Shapes, TaskBooks
  <1>11. \A q \in Requests : request'[q].pc = "vault" =>
           request[q].pc = "vault" /\ request'[q] = request[q] /\ request[q].task # k
    BY <1>1, <1>8 DEF Makers
  <1>12. Makers'
    <2>1. \A q \in Requests :
            /\ request'[q].pc \in {"publish", "vault"} => request'[q].budget > 0
            /\ request'[q].pc = "vault" =>
                 request'[q].task \in TaskIds' /\ tasks'[request'[q].task].vault = NoVault
            /\ request'[q].pc = "key" => request'[q].task \in TaskIds'
      BY <1>7, <1>8, <1>11 DEF Makers
    <2>2. QED
      BY <1>11, <2>1 DEF Makers
  <1>13. AnsweredTasksHaveVaults'
    BY <1>1, <1>4, <1>6, <1>7, <1>8 DEF AnsweredTasksHaveVaults, HasVault, At
  <1>14. OneKeyPerTask'
    BY <1>1, <1>6, <1>7 DEF OneKeyPerTask
  <1>15. QED
    BY <1>10, <1>12, <1>13, <1>14

LEMMA RestartInv == ASSUME IInv, Restart PROVE IInv'
  <1> USE DEF IInv
  <1> DEFINE making(t) == \E r \in Requests : At(r, "vault") /\ request[r].task = t
             new(t) == [tasks[t] EXCEPT !.cut = tasks[t].cut \/ making(t)]
  <1>1. tasks' = [t \in TaskIds |-> new(t)] /\ request' = [r \in Requests |-> Idle]
    BY DEF Restart
  <1>2. \A t \in TaskIds :
          /\ new(t) \in Task /\ new(t).cut = (tasks[t].cut \/ making(t))
          /\ new(t).vault = tasks[t].vault /\ new(t).received = tasks[t].received
          /\ new(t).market = tasks[t].market /\ new(t).keys = tasks[t].keys
    <2> TAKE t \in TaskIds
    <2>1. tasks[t] \in Task /\ (tasks[t].cut \/ making(t)) \in BOOLEAN
      BY RowTyped
    <2> HIDE DEF making
    <2>2. QED
      BY <2>1 DEF Task
  <1> HIDE DEF new
  <1>3. /\ tasks' \in Seq(Task) /\ TaskIds' = TaskIds
        /\ \A t \in TaskIds : tasks'[t] = new(t)
    <2>1. Len(tasks) \in Nat /\ TaskIds = 1..Len(tasks)
      BY DEF Shapes, TaskIds
    <2>2. tasks' \in [1..Len(tasks) -> Task]
      BY <1>1, <1>2, <2>1
    <2>3. tasks' \in Seq(Task) /\ Len(tasks') = Len(tasks)
      BY <2>1, <2>2
    <2>4. QED
      BY <1>1, <2>1, <2>3 DEF TaskIds
  <1>4. request' \in [Requests -> Local] /\ \A r \in Requests : request'[r].pc = "idle"
    BY <1>1, IdleLocal
  <1>5. Shapes' /\ Makers'
    BY <1>3, <1>4 DEF Shapes, Makers
  <1>6. TaskBooks' /\ OneKeyPerTask'
    BY <1>2, <1>3 DEF TaskBooks, BooksOf, OneKeyPerTask
  <1>7. AnsweredTasksHaveVaults'
    <2> SUFFICES ASSUME NEW t \in TaskIds, tasks[t].market, tasks[t].vault = NoVault
                 PROVE  tasks'[t].cut
      BY <1>2, <1>3 DEF AnsweredTasksHaveVaults, HasVault
    <2>1. tasks[t].cut \/ making(t)
      BY DEF AnsweredTasksHaveVaults, HasVault
    <2>2. tasks'[t].cut = (tasks[t].cut \/ making(t))
      BY <1>2, <1>3
    <2> HIDE DEF making
    <2>3. QED
      BY <2>1, <2>2
  <1>8. QED
    BY <1>5, <1>6, <1>7

-----------------------------------------------------------------------------
LEMMA InitIInv == Init => IInv
  <1> SUFFICES ASSUME Init PROVE IInv
    OBVIOUS
  <1>1. tasks = <<>> /\ TaskIds = {} /\ request = [r \in Requests |-> Idle]
    BY DEF Init, TaskIds
  <1>2. QED
    BY <1>1, IdleLocal
    DEF IInv, Shapes, TaskBooks, Makers, AnsweredTasksHaveVaults, OneKeyPerTask

LEMMA OfTaskKept ==
  ASSUME Shapes, NEW t \in TaskIds, OfTask(t) PROVE TasksKept /\ RequestsKept
  <1>1. ASSUME NEW a \in Amounts, Boost(t, a) \/ ActionBoost(t, a) PROVE TasksKept /\ RequestsKept
    BY <1>1, BoostKept DEF ActionBoost
  <1>2. CASE Pay(t)
    BY <1>2, PayKept
  <1>3. CASE SettleFromVault(t)
    BY <1>3 DEF SettleFromVault, TasksKept, RequestsKept
  <1>4. CASE Claim(t) \/ GiveBack(t) \/ Succeed(t) \/ Fail(t)
    BY <1>4, MoveKept DEF Claim, GiveBack, Succeed, Fail, States
  <1>5. QED
    BY <1>1, <1>2, <1>3, <1>4 DEF OfTask

LEMMA RestKept ==
  ASSUME \/ \E d \in Developers : OfDeveloper(d)
         \/ OfWallet \/ LoadStep \/ \E u \in Uploads : UploadSkill(u)
         \/ UNCHANGED vars
  PROVE  TasksKept /\ RequestsKept
  <1>1. tasks' = tasks /\ request' = request
    BY DEF OfDeveloper, Integrate, SetContributors, RegisterDeveloper, SetCreditScore,
           OfWallet, Deposit, Withdraw, DepositOnChain, Wallet, LoadStep, UploadSkill, vars
  <1>2. QED
    BY <1>1 DEF TasksKept, RequestsKept

LEMMA NextIInv == IInv /\ [Next]_vars => IInv'
  <1> SUFFICES ASSUME IInv, [Next]_vars PROVE IInv'
    OBVIOUS
  <1>0. Shapes /\ Makers
    BY DEF IInv
  <1>1. ASSUME NEW r \in Requests, Publishing(r) PROVE IInv'
    <2>1. ASSUME NEW u \in Users, NEW s \in Skills, NEW b \in Budgets,
                 RunSkill(r, u, s, b) \/ PublishTask(r, u, s, b)
          PROVE  IInv'
      BY <2>1, EnterKept, KeptInv DEF RunSkill, PublishTask
    <2>2. CASE Publish(r)
      BY <2>2, PublishInv
    <2>3. CASE Refuse(r)
      <3>1. TasksKept /\ RequestsKept
        BY <2>3, EndKept DEF Refuse, At, TasksKept
      <3>2. QED
        BY <3>1, KeptInv
    <2>4. CASE MakeVault(r)
      BY <2>4, MakeVaultInv
    <2>5. QED
      BY <1>1, <2>1, <2>2, <2>3, <2>4 DEF Publishing
  <1>2. ASSUME NEW r \in Requests, Keys(r) PROVE IInv'
    BY <1>0, <1>2, AskKept, IssueKept, KeptInv DEF Keys
  <1>3. ASSUME NEW t \in TaskIds, OfTask(t) PROVE IInv'
    BY <1>0, <1>3, OfTaskKept, KeptInv
  <1>4. CASE Restart
    BY <1>4, RestartInv
  <1>5. CASE \/ \E d \in Developers : OfDeveloper(d)
             \/ OfWallet \/ LoadStep \/ \E u \in Uploads : UploadSkill(u)
             \/ UNCHANGED vars
    BY <1>5, RestKept, KeptInv
  <1>6. QED
    BY <1>1, <1>2, <1>3, <1>4, <1>5 DEF Next

LEMMA IInvHolds == Spec => []IInv
  BY InitIInv, NextIInv, PTL DEF Spec

(* A vault holds what was paid into it, and once paid its whole budget,    *)
(* whatever becomes of the task: simulate_fiat_payment, boost_reward,      *)
(* _settle_vault.                                                          *)
THEOREM VaultsSafe == Spec => []VaultsHoldPayments
  <1>1. IInv => VaultsHoldPayments
    BY DEF IInv, TaskBooks, BooksOf, VaultsHoldPayments
  <1>2. QED
    BY IInvHolds, <1>1, PTL

(* publish_task answers for a task that has its vault; only a restart      *)
(* leaves one without.                                                     *)
THEOREM AnsweredSafe == Spec => []AnsweredTasksHaveVaults
  <1>1. IInv => AnsweredTasksHaveVaults
    BY DEF IInv
  <1>2. QED
    BY IInvHolds, <1>1, PTL

(* A task has one key however many requests ask: request_license_key.      *)
THEOREM KeysSafe == Spec => []OneKeyPerTask
  <1>1. IInv => OneKeyPerTask
    BY DEF IInv
  <1>2. QED
    BY IInvHolds, <1>1, PTL

-----------------------------------------------------------------------------
(* The wallet's books are inductive once the sums are known to be integers.*)
Sums == web3 \in BOOLEAN /\ chain \in Int /\ local \in Int /\ net \in Int /\ beyond \in Int

LEMMA NextSums ==
  Sums /\ WalletMatchesHistory /\ [Next]_vars => (Sums /\ WalletMatchesHistory)'
  <1> SUFFICES ASSUME Sums, WalletMatchesHistory, [Next]_vars
               PROVE  Sums' /\ WalletMatchesHistory'
    OBVIOUS
  <1> USE DEF Sums, WalletMatchesHistory
  <1>1. CASE UNCHANGED <<web3, wallet>>
    BY <1>1 DEF wallet
  <1>2. ASSUME NEW a \in Amounts, Deposit(a) PROVE Sums' /\ WalletMatchesHistory'
    BY <1>2, MarketAssumption DEF Deposit, FiatDeposit, Wallet
  <1>3. ASSUME NEW a \in Amounts, Withdraw(a) PROVE Sums' /\ WalletMatchesHistory'
    <2>1. a \in Nat /\ web3' = web3
      BY <1>3, MarketAssumption DEF Withdraw, Wallet
    <2>2. CASE web3
      BY <1>3, <2>1, <2>2 DEF Withdraw, LocalLeft
    <2>3. CASE ~web3
      BY <1>3, <2>1, <2>3 DEF Withdraw
    <2>4. QED
      BY <2>2, <2>3
  <1>4. ASSUME NEW a \in Amounts, DepositOnChain(a) PROVE Sums' /\ WalletMatchesHistory'
    BY <1>4, MarketAssumption DEF DepositOnChain, Wallet
  <1>5. CASE Restart
    BY <1>5 DEF Restart
  <1>6. CASE \/ \E r \in Requests : Publishing(r) \/ Keys(r)
             \/ \E t \in TaskIds : OfTask(t)
             \/ \E d \in Developers : OfDeveloper(d)
             \/ LoadStep \/ UNCHANGED vars \/ \E u \in Uploads : UploadSkill(u)
    <2>1. ASSUME \E r \in Requests : Publishing(r) \/ Keys(r)
          PROVE  UNCHANGED <<web3, wallet>>
      BY <2>1 DEF Publishing, Keys, RunSkill, PublishTask, Enter, Publish, Refuse, MakeVault,
                  AskKey, IssueKey
    <2>2. ASSUME \E t \in TaskIds : OfTask(t)
          PROVE  UNCHANGED <<web3, wallet>>
      <3>1. PICK t \in TaskIds : OfTask(t)
        BY <2>2
      <3>2. CASE Pay(t) \/ SettleFromVault(t) \/ \E a \in Amounts : Boost(t, a) \/ ActionBoost(t, a)
        BY <3>2 DEF Pay, SettleFromVault, Boost, ActionBoost
      <3>3. CASE Claim(t) \/ GiveBack(t) \/ Succeed(t) \/ Fail(t)
        BY <3>3 DEF Claim, GiveBack, Succeed, Fail
      <3>4. QED
        BY <3>1, <3>2, <3>3 DEF OfTask
    <2>3. ASSUME \E d \in Developers : OfDeveloper(d)
          PROVE  UNCHANGED <<web3, wallet>>
      BY <2>3 DEF OfDeveloper, Integrate, SetContributors, RegisterDeveloper, SetCreditScore
    <2>4. ASSUME LoadStep \/ UNCHANGED vars \/ \E u \in Uploads : UploadSkill(u)
          PROVE  UNCHANGED <<web3, wallet>>
      BY <2>4 DEF LoadStep, UploadSkill, vars
    <2>5. UNCHANGED <<web3, wallet>>
      BY <1>6, <2>1, <2>2, <2>3, <2>4
    <2>6. QED
      BY <1>1, <2>5
  <1>7. QED
    BY <1>2, <1>3, <1>4, <1>5, <1>6 DEF Next, OfWallet

(* The balance shown is the history's, but for what a withdrawal took      *)
(* beyond the local deposits: wallet_deposit, wallet_withdraw.             *)
THEOREM WalletSafe == Spec => []WalletMatchesHistory
  <1>1. Init => Sums /\ WalletMatchesHistory
    BY DEF Init, Sums, WalletMatchesHistory
  <1>2. QED
    BY <1>1, NextSums, PTL DEF Spec

-----------------------------------------------------------------------------
(* The market uses its registry as SkillRegistry says: what is proved of   *)
(* the registry holds of the gateway.                                      *)
THEOREM ImplementsRegistry == Spec => RegistrySpec
  <1>1. Init => InitRegistry
    BY DEF Init
  <1>2. [Next]_vars => [RegistryNext]_registry
    <2> SUFFICES ASSUME [Next]_vars PROVE RegistryNext \/ UNCHANGED registry
      OBVIOUS
    <2>1. ASSUME NEW r \in Requests, Publishing(r) \/ Keys(r)
          PROVE  RegistryNext \/ UNCHANGED registry
      BY <2>1
      DEF Publishing, Keys, RunSkill, PublishTask, Enter, Publish, Refuse, MakeVault, AskKey,
          IssueKey, RegistryNext
    <2>2. ASSUME NEW t \in TaskIds, OfTask(t) PROVE UNCHANGED registry
      BY <2>2
      DEF OfTask, Pay, SettleFromVault, Boost, ActionBoost, Claim, GiveBack, Succeed, Fail
    <2>3. ASSUME NEW d \in Developers, OfDeveloper(d) PROVE RegistryNext \/ UNCHANGED registry
      BY <2>3
      DEF OfDeveloper, Integrate, SetContributors, RegisterDeveloper, SetCreditScore, RegistryNext
    <2>4. CASE OfWallet
      BY <2>4 DEF OfWallet, Deposit, Withdraw, DepositOnChain, Wallet
    <2>5. CASE LoadStep \/ Restart \/ \E u \in Uploads : UploadSkill(u)
      BY <2>5 DEF LoadStep, Restart, UploadSkill, RegistryNext
    <2>6. CASE UNCHANGED vars
      BY <2>6 DEF vars
    <2>7. QED
      BY <2>1, <2>2, <2>3, <2>4, <2>5, <2>6 DEF Next
  <1>3. QED
    BY <1>1, <1>2, PTL DEF Spec, RegistrySpec

(* Uploads that are whole in the store are served by the gateway, whatever *)
(* it does in between: install_zip, load_into_registry, load_all.          *)
THEOREM UploadsServedByMarket == Spec => []UploadsServed
  BY ImplementsRegistry, UploadsSafe, PTL
=============================================================================
