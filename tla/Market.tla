------------------------------- MODULE Market -------------------------------
(***************************************************************************)
(* The task market of src/gateway/server.py: publishing a task and running *)
(* a skill, the vaults a task's reward is paid into, single-use keys, who  *)
(* develops a skill and with whom, credit scores, and the wallet.          *)
(*                                                                         *)
(* A handler is one step up to its next await.  The broker (TaskBroker),   *)
(* submissions (SubmitFlow), the trial gate and charging (Commerce) have   *)
(* modules of their own: here a task is claimed, given back, failed or     *)
(* done by actions that do to the market what those do.                    *)
(*                                                                         *)
(* Storage is Redis and survives a restart; in memory mode the contract    *)
(* does not.  One wallet's money is followed, apart from what tasks cost.  *)
(***************************************************************************)
EXTENDS SkillRegistry

CONSTANTS
  Requests, Users, Developers,
  NoOne,          (* no developer; as who asks for a key, somebody else     *)
  Budgets,        (* what a task may cost at most                           *)
  Amounts,        (* moved by one call on the wallet, or added to a vault   *)
  Scores,         (* set by an administrator                                *)
  MaxTasks, MaxOps                (* bounds on tasks and on other calls     *)

ASSUME MarketAssumption ==
  /\ NoOne \notin Users \cup Developers
  /\ Budgets \subseteq Nat \ {0} /\ Amounts \subseteq Nat \ {0}
  /\ Scores \subseteq 0..100
  /\ MaxTasks \in Nat /\ MaxOps \in Nat

VARIABLES
  request,        (* locals of a handler between two awaits                 *)
  tasks,          (* tasks of the broker with their vaults and keys         *)
  developer,      (* the contract's developer of a skill                    *)
  integrated,     (* skills a developer has integrated                      *)
  split,          (* with whom the developer shares a skill                 *)
  credit,         (* credit scores                                          *)
  web3,           (* _is_web3_mode                                          *)
  chain, local,   (* the wallet in the contract and in _local_deposits      *)
  net,            (* deposits minus withdrawals in its history since start  *)
  beyond,         (* withdrawn beyond what was deducted: history            *)
  gaps,           (* transaction ids drawn and never recorded               *)
  ops

developers == <<developer, integrated, split, credit>>
wallet == <<chain, local, net, beyond>>
vars == <<registry, request, tasks, developers, web3, wallet, gaps, ops>>

Skills == Static \cup Uploads
TaskIds == 1..Len(tasks)
Idle == [pc |-> "idle", user |-> NoOne, skill |-> NoOne, budget |-> 0, market |-> FALSE,
         task |-> 0]
EmptyVault(b) == [funded |-> FALSE, balance |-> 0, budget |-> b]
NoVault == EmptyVault(0)          (* none is made for a budget of nothing   *)

Init ==
  /\ InitRegistry
  /\ request = [r \in Requests |-> Idle]
  /\ tasks = <<>>
  /\ developer = [s \in Skills |-> NoOne]
  /\ integrated = [d \in Developers |-> {}]
  /\ split = [d \in Developers |-> [s \in Skills |-> {}]]
  /\ credit = [d \in Developers |-> 0]
  /\ web3 \in BOOLEAN
  /\ chain = 0 /\ local = 0 /\ net = 0 /\ beyond = 0
  /\ gaps = 0 /\ ops = 0

Call == ops < MaxOps /\ ops' = ops + 1
At(r, label) == request[r].pc = label
Goto(r, locals) == request' = [request EXCEPT ![r] = locals]
End(r) == Goto(r, Idle)

-----------------------------------------------------------------------------
(* publish_task and run_skill.                                             *)

(* Up to the first await; the budget covers the price of every step.       *)
Enter(r, u, s, b, market) ==
  /\ At(r, "idle")
  /\ s \in Served
  /\ Load
  /\ Goto(r, [Idle EXCEPT !.pc = "publish", !.user = u, !.skill = s, !.budget = b,
                          !.market = market])
  /\ UNCHANGED <<tasks, developers, web3, wallet, gaps, ops>>

RunSkill(r, u, s, b) == Enter(r, u, s, b, FALSE)
PublishTask(r, u, s, b) == Enter(r, u, s, b, TRUE)

(* A new user's balance is seeded, then the broker holds the budget and    *)
(* has a task, which workers may claim from now on.  Mutant: the answer    *)
(* of publish_task does not wait for the vault.                            *)
AnswersAtOnce(r) == Idle
AfterPublish(r) ==
  IF request[r].market THEN [request[r] EXCEPT !.pc = "vault", !.task = Len(tasks) + 1] ELSE Idle

Publish(r) ==
  /\ At(r, "publish")
  /\ Len(tasks) < MaxTasks
  /\ tasks' = Append(tasks,
       [user |-> request[r].user, skill |-> request[r].skill, market |-> request[r].market,
        state |-> "pending", vault |-> NoVault, received |-> 0, keys |-> 0, cut |-> FALSE])
  /\ Goto(r, AfterPublish(r))
  /\ UNCHANGED <<registry, developers, web3, wallet, gaps, ops>>

(* The hold is more than the user has.                                     *)
Refuse(r) ==
  /\ At(r, "publish")
  /\ End(r)
  /\ UNCHANGED <<registry, tasks, developers, web3, wallet, gaps, ops>>

MakeVault(r) ==
  /\ At(r, "vault")
  /\ tasks' = [tasks EXCEPT ![request[r].task].vault = EmptyVault(request[r].budget)]
  /\ End(r)
  /\ UNCHANGED <<registry, developers, web3, wallet, gaps, ops>>

-----------------------------------------------------------------------------
(* Vaults.                                                                 *)
HasVault(t) == tasks[t].vault # NoVault
Funded(t) == HasVault(t) /\ tasks[t].vault.funded

(* simulate_fiat_payment, which does not ask how the task stands.          *)
Pay(t) ==
  /\ HasVault(t)
  /\ ~tasks[t].vault.funded
  /\ tasks' = [tasks EXCEPT
       ![t].vault.funded = TRUE, ![t].vault.balance = tasks[t].vault.budget,
       ![t].received = @ + tasks[t].vault.budget]
  /\ UNCHANGED <<registry, request, developers, web3, wallet, gaps, ops>>

(* Mutant: a vault may be boosted before its first payment.                *)
AnyVault(v) == TRUE
Boostable(v) == v.funded

Boost(t, a) ==
  /\ Call
  /\ HasVault(t)
  /\ Boostable(tasks[t].vault)
  /\ tasks' = [tasks EXCEPT
       ![t].vault.balance = @ + a, ![t].vault.budget = @ + a, ![t].received = @ + a]
  /\ UNCHANGED <<registry, request, developers, web3, wallet, gaps>>

(* The same through skill_task_action, with a sum of its own.  The answer  *)
(* is made from a result that is a plain dict and fails, so that the       *)
(* caller is told of an error and may well call again.                     *)
ActionBoost(t, a) == Boost(t, a)

(* _settle_vault computes the shares and calls record() with its arguments *)
(* in another order than record() declares: an id is drawn, round() of a   *)
(* string raises, and the vault is not touched.                            *)
SettleVault == gaps' = gaps + 1

SettleFromVault(t) ==
  /\ Call
  /\ Funded(t)
  /\ SettleVault
  /\ UNCHANGED <<registry, request, tasks, developers, web3, wallet>>

-----------------------------------------------------------------------------
(* What becomes of a task.                                                 *)
Move(t, from, to) == tasks[t].state = from /\ tasks' = [tasks EXCEPT ![t].state = to]

Claim(t) ==
  /\ Move(t, "pending", "claimed")
  /\ UNCHANGED <<registry, request, developers, web3, wallet, gaps, ops>>

GiveBack(t) ==
  /\ Move(t, "claimed", "pending")
  /\ UNCHANGED <<registry, request, developers, web3, wallet, gaps, ops>>

(* submit_task of a result that passes: a funded task is to be settled     *)
(* from its vault.                                                         *)
Succeed(t) ==
  /\ Move(t, "claimed", "success")
  /\ IF Funded(t) THEN SettleVault ELSE UNCHANGED gaps
  /\ UNCHANGED <<registry, request, developers, web3, wallet, ops>>

Penalized(c) == IF c < 10 THEN 0 ELSE c - 10

(* _penalize_contributors: the skill's developer now, and with whom.       *)
Parties(s) == IF developer[s] = NoOne THEN {} ELSE {developer[s]} \cup split[developer[s]][s]

Fail(t) ==
  /\ Move(t, "claimed", "failed")
  /\ credit' = [d \in Developers |->
       IF d \in Parties(tasks[t].skill) THEN Penalized(credit[d]) ELSE credit[d]]
  /\ UNCHANGED <<registry, request, developer, integrated, split, web3, wallet, gaps, ops>>

-----------------------------------------------------------------------------
(* request_license_key: the task's state is read before two awaits, its    *)
(* owner after them.                                                       *)
AskKey(r, u, t) ==
  /\ At(r, "idle")
  /\ tasks[t].state \in {"claimed", "success"}
  /\ Goto(r, [Idle EXCEPT !.pc = "key", !.user = u, !.task = t])
  /\ UNCHANGED <<registry, tasks, developers, web3, wallet, gaps, ops>>

(* Mutant: keys issued are looked for before the awaits.                   *)
AnyTask(t) == TRUE
Unissued(t) == tasks[t].keys = 0
WithKey(t) == [tasks EXCEPT ![t].keys = @ + 1]

IssueKey(r) ==
  LET t == request[r].task IN
  /\ At(r, "key")
  /\ tasks' = IF request[r].user = tasks[t].user /\ Unissued(t)
                THEN WithKey(t) ELSE tasks
  /\ End(r)
  /\ UNCHANGED <<registry, developers, web3, wallet, gaps, ops>>

-----------------------------------------------------------------------------
(* Developers.                                                             *)

(* developer_integrate: a second integration of the same skill changes     *)
(* nothing, even where the first found no such skill to register.          *)
Integrate(d, s, with) ==
  /\ Call
  /\ s \notin integrated[d]
  /\ integrated' = [integrated EXCEPT ![d] = @ \cup {s}]
  /\ split' = [split EXCEPT ![d][s] = with]
  /\ developer' = IF s \in Served THEN [developer EXCEPT ![s] = d] ELSE developer
  /\ Load
  /\ UNCHANGED <<request, tasks, credit, web3, wallet, gaps>>

SetContributors(d, s, with) ==
  /\ Call
  /\ s \in integrated[d]
  /\ split' = [split EXCEPT ![d][s] = with]
  /\ UNCHANGED <<registry, request, tasks, developer, integrated, credit, web3, wallet, gaps>>

RegisterDeveloper(d, s) ==
  /\ Call
  /\ s \in Served
  /\ developer' = [developer EXCEPT ![s] = d]
  /\ Load
  /\ UNCHANGED <<request, tasks, integrated, split, credit, web3, wallet, gaps>>

SetCreditScore(d, c) ==
  /\ Call
  /\ credit' = [credit EXCEPT ![d] = c]
  /\ UNCHANGED <<registry, request, tasks, developer, integrated, split, web3, wallet, gaps>>

-----------------------------------------------------------------------------
(* The wallet.                                                             *)
Balance == chain + (IF web3 THEN local ELSE 0)
Wallet == UNCHANGED <<registry, request, tasks, developers, web3, gaps>>

(* wallet_fiat_deposit, once the card is charged, and wallet_deposit.      *)
FiatDeposit(a) ==
  /\ IF web3 THEN local' = local + a /\ UNCHANGED chain
             ELSE chain' = chain + a /\ UNCHANGED local
  /\ net' = net + a
  /\ UNCHANGED beyond

Deposit(a) == Call /\ FiatDeposit(a) /\ Wallet

(* Mutant: local deposits go below zero.                                   *)
LocalOverdrawn(a) == local - a
LocalLeft(a) == IF local >= a THEN local - a ELSE 0

(* wallet_withdraw: the sum of both must cover it, and in Web3 mode only   *)
(* the local deposits are deducted from.                                   *)
Withdraw(a) ==
  /\ Call
  /\ Balance >= a
  /\ IF web3
       THEN /\ local' = LocalLeft(a)
            /\ beyond' = beyond + (IF local >= a THEN 0 ELSE a - local)
            /\ UNCHANGED chain
       ELSE chain' = chain - a /\ UNCHANGED <<local, beyond>>
  /\ net' = net - a
  /\ Wallet

(* The user deposits into the contract.                                    *)
DepositOnChain(a) ==
  /\ Call
  /\ web3
  /\ chain' = chain + a
  /\ UNCHANGED <<local, net, beyond>>
  /\ Wallet

-----------------------------------------------------------------------------
UploadSkill(u) == Call /\ Upload(u) /\ UNCHANGED <<request, tasks, developers, web3, wallet, gaps>>

Restart ==
  /\ Call
  /\ RestartRegistry
  /\ request' = [r \in Requests |-> Idle]
  /\ tasks' = [t \in TaskIds |->
       [tasks[t] EXCEPT !.cut = @ \/ \E r \in Requests : At(r, "vault") /\ request[r].task = t]]
  /\ developer' = IF web3 THEN developer ELSE [s \in Skills |-> NoOne]
  /\ chain' = IF web3 THEN chain ELSE 0
  /\ local' = 0 /\ net' = 0 /\ beyond' = 0
  /\ UNCHANGED <<integrated, split, credit, web3, gaps>>

LoadStep == (StartLoad \/ FinishLoad) /\ UNCHANGED <<request, tasks, developers, web3, wallet, gaps, ops>>

Publishing(r) ==
  \/ \E u \in Users, s \in Skills, b \in Budgets : RunSkill(r, u, s, b) \/ PublishTask(r, u, s, b)
  \/ Publish(r) \/ Refuse(r) \/ MakeVault(r)

Keys(r) == (\E u \in Users \cup {NoOne}, t \in TaskIds : AskKey(r, u, t)) \/ IssueKey(r)

OfTask(t) ==
  \/ Pay(t) \/ SettleFromVault(t) \/ \E a \in Amounts : Boost(t, a) \/ ActionBoost(t, a)
  \/ Claim(t) \/ GiveBack(t) \/ Succeed(t) \/ Fail(t)

OfDeveloper(d) ==
  \/ \E s \in Skills, with \in SUBSET (Developers \ {d}) : Integrate(d, s, with) \/ SetContributors(d, s, with)
  \/ \E s \in Skills : RegisterDeveloper(d, s)
  \/ \E c \in Scores : SetCreditScore(d, c)

OfWallet == \E a \in Amounts : Deposit(a) \/ Withdraw(a) \/ DepositOnChain(a)

Next ==
  \/ \E r \in Requests : Publishing(r) \/ Keys(r)
  \/ \E t \in TaskIds : OfTask(t)
  \/ \E d \in Developers : OfDeveloper(d)
  \/ OfWallet
  \/ LoadStep \/ Restart \/ \E u \in Uploads : UploadSkill(u)

Spec == Init /\ [][Next]_vars

-----------------------------------------------------------------------------
(* A vault holds what was paid into it, first payment and boosts, those    *)
(* answered with an error too, whatever became of the task and however     *)
(* often its settlement failed, and holds its whole budget once paid       *)
(* (simulate_fiat_payment, boost_reward, _settle_vault).                   *)
VaultsHoldPayments ==
  \A t \in TaskIds : HasVault(t) =>
    /\ tasks[t].vault.balance = tasks[t].received
    /\ tasks[t].vault.funded => tasks[t].vault.balance = tasks[t].vault.budget

(* A task published on the market has its vault once publish_task has      *)
(* answered; a restart alone can leave it without one, for good.           *)
AnsweredTasksHaveVaults ==
  \A t \in TaskIds : tasks[t].market =>
    \/ HasVault(t) \/ tasks[t].cut
    \/ \E r \in Requests : At(r, "vault") /\ request[r].task = t

(* However many requests ask at once, a task has one key, and none before  *)
(* it was claimed (request_license_key).                                   *)
OneKeyPerTask == \A t \in TaskIds : tasks[t].keys <= 1

(* The balance shown is the history's since the start, but for money that  *)
(* is in the contract: in Web3 mode what a withdrawal takes beyond the     *)
(* local deposits is deducted nowhere, and nothing else is lost or made    *)
(* (wallet_deposit, wallet_withdraw).                                      *)
WalletMatchesHistory == (IF web3 THEN local ELSE chain) = net + beyond
=============================================================================
