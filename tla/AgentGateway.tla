---------------------------- MODULE AgentGateway ----------------------------
(***************************************************************************)
(* The settlement contract, contracts/AIMSAgentGateway.sol.                *)
(*                                                                         *)
(* Users deposit USDC.  A settlement moves a task's amount out of the      *)
(* user's balance and credits it to a worker (25 %), the registered        *)
(* developer of the skill (70 %) and the treasury (what is left).  The     *)
(* parties collect their shares later, one transaction each, or the        *)
(* gateway unwinds the settlement within MAX_TIMEOUT seconds.              *)
(*                                                                         *)
(* A transaction is atomic and a reverted one changes nothing, so each     *)
(* external function is one action and every require is a conjunct of its  *)
(* guard.  An ECDSA signature is the tuple <<task, party, amount, signer>> *)
(* it recovers to; sigs holds those the gateway key has produced.          *)
(***************************************************************************)
EXTENDS Integers, FiniteSets, Functions

CONSTANTS
  Accounts,       (* EVM addresses other than 0                            *)
  NoAddr,         (* address(0)                                            *)
  Users,          (* addresses that deposit and withdraw                   *)
  Workers,        (* addresses a task may be executed by                   *)
  Developers,     (* addresses registered for skills                       *)
  Gateways,       (* addresses the gateway key is rotated through          *)
  FirstGateway,   (* the gateway passed to the constructor                 *)
  Tasks, Skills,
  Nonces,         (* nonces the gateway assigns                            *)
  DepositAmounts, (* amounts a user deposits or withdraws                  *)
  TaskAmounts,    (* amounts a task is settled for                         *)
  MAX_TIMEOUT,    (* the refund window, in ticks of the block clock        *)
  MaxTime,        (* bound on block.timestamp                              *)
  MaxHeld         (* bound on the USDC deposited                           *)

ASSUME GatewayAssumption ==
  /\ IsFiniteSet(Accounts)
  /\ IsFiniteSet(Tasks)
  /\ NoAddr \notin Accounts
  /\ Users \subseteq Accounts
  /\ Workers \subseteq Accounts
  /\ Developers \subseteq Accounts
  /\ Gateways \subseteq Accounts
  /\ FirstGateway \in Accounts
  /\ DepositAmounts \subseteq Nat
  /\ TaskAmounts \subseteq Nat
  /\ MAX_TIMEOUT \in Nat
  /\ MaxTime \in Nat
  /\ MaxHeld \in Nat

VARIABLES
  held,            (* usdc.balanceOf(address(this))                        *)
  balances,        (* balances: user deposits                              *)
  developers,      (* developers: skill hash -> address                    *)
  taskStatus,      (* taskStatus                                           *)
  usedNonces,      (* usedCompoundNonces, as pairs <<nonce, task>>         *)
  pendingPayouts,  (* pendingPayouts: party -> amount not yet claimed      *)
  treasuryFees,    (* accumulatedTreasuryFees                              *)
  settlements,     (* taskSettlements: the snapshot per task               *)
  claimedWorker,   (* tasks with hasClaimedWorker                          *)
  claimedDev,      (* tasks with hasClaimedDeveloper                       *)
  gateway,         (* gateway                                              *)
  now,             (* block.timestamp                                      *)
  sigs             (* signatures produced by the gateway key so far        *)

funds == <<held, balances, pendingPayouts, treasuryFees>>
lifecycle == <<taskStatus, usedNonces, settlements, claimedWorker, claimedDev>>
roles == <<developers, gateway>>
vars == <<funds, lifecycle, roles, now, sigs>>

BPS_DENOM == 10000
DEVELOPER_BPS == 7000
WORKER_BPS == 2500

Bps(amount, bps) == (amount * bps) \div BPS_DENOM

TaskStatus == {"None", "Settled", "Refunded", "Claimed"}

TaskSettlement ==
  [worker : Accounts \cup {NoAddr}, developer : Accounts \cup {NoAddr},
   totalAmount : Nat, workerShare : Nat, developerShare : Nat,
   treasuryShare : Nat, settledAt : Nat]

(* A mapping entry that was never written.                                 *)
NoSettlement ==
  [worker |-> NoAddr, developer |-> NoAddr, totalAmount |-> 0,
   workerShare |-> 0, developerShare |-> 0, treasuryShare |-> 0,
   settledAt |-> 0]

-----------------------------------------------------------------------------
Init ==
  /\ held = 0
  /\ balances = [a \in Accounts |-> 0]
  /\ developers = [s \in Skills |-> NoAddr]
  /\ taskStatus = [t \in Tasks |-> "None"]
  /\ usedNonces = {}
  /\ pendingPayouts = [a \in Accounts |-> 0]
  /\ treasuryFees = 0
  /\ settlements = [t \in Tasks |-> NoSettlement]
  /\ claimedWorker = {}
  /\ claimedDev = {}
  /\ gateway = FirstGateway
  /\ now = 0
  /\ sigs = {}

(* usdc.safeTransfer: the token leaves the contract.  The ERC-20 reverts   *)
(* the whole transaction when the contract does not hold the amount.       *)
SafeTransfer(amount) ==
  /\ held >= amount
  /\ held' = held - amount

(* The gateway key signs (task, party, amount): a settlement authorisation *)
(* or a Proof-of-Task.                                                     *)
Sign(t, party, amount) ==
  /\ sigs' = sigs \cup {<<t, party, amount, gateway>>}
  /\ UNCHANGED <<funds, lifecycle, roles, now>>

VerifyGatewaySignature(t, party, amount) == <<t, party, amount, gateway>> \in sigs

-----------------------------------------------------------------------------
Deposit(user, amount) ==
  /\ amount > 0
  /\ held + amount <= MaxHeld
  /\ held' = held + amount
  /\ balances' = [balances EXCEPT ![user] = @ + amount]
  /\ UNCHANGED <<pendingPayouts, treasuryFees, lifecycle, roles, now, sigs>>

Withdraw(user, amount) ==
  /\ amount > 0
  /\ balances[user] >= amount
  /\ balances' = [balances EXCEPT ![user] = @ - amount]
  /\ SafeTransfer(amount)
  /\ UNCHANGED <<pendingPayouts, treasuryFees, lifecycle, roles, now, sigs>>

(* onlyGateway is met by every caller the model has.                       *)
RegisterDeveloper(skill, dev) ==
  /\ developers' = [developers EXCEPT ![skill] = dev]
  /\ UNCHANGED <<funds, lifecycle, gateway, now, sigs>>

SetGateway(new) ==
  /\ gateway' = new
  /\ UNCHANGED <<funds, lifecycle, developers, now, sigs>>

(* Mutant: the treasury gets its nominal 5 %, not the remainder.           *)
SplitNominal(worker, dev, amount) ==
  [worker |-> worker, developer |-> dev, totalAmount |-> amount,
   workerShare |-> Bps(amount, WORKER_BPS),
   developerShare |-> IF dev = NoAddr THEN 0 ELSE Bps(amount, DEVELOPER_BPS),
   treasuryShare |-> Bps(amount, 500), settledAt |-> now]

(* The 70/25/5 split of a settlement for a developer that may be 0.        *)
Split(worker, dev, amount) ==
  LET devShare == IF dev = NoAddr THEN 0 ELSE Bps(amount, DEVELOPER_BPS)
      workerShare == Bps(amount, WORKER_BPS)
  IN  [worker |-> worker, developer |-> dev, totalAmount |-> amount,
       workerShare |-> workerShare, developerShare |-> devShare,
       treasuryShare |-> amount - devShare - workerShare,
       settledAt |-> now]

(* Mutant: both balances are read before either is written.                *)
CreditedFromStale(pending, s) ==
  [a \in Accounts |-> IF a = s.developer THEN pending[a] + s.developerShare
                      ELSE IF a = s.worker THEN pending[a] + s.workerShare
                      ELSE pending[a]]

(* Two sequential += on a mapping whose keys may be the same address.      *)
Credited(pending, s) ==
  [a \in Accounts |-> pending[a]
                      + (IF a = s.worker THEN s.workerShare ELSE 0)
                      + (IF a = s.developer THEN s.developerShare ELSE 0)]

SettleTask(t, user, worker, skill, amount, nonce, deadline) ==
  LET s == Split(worker, developers[skill], amount)
  IN  /\ now <= deadline
      /\ amount > 0
      /\ <<nonce, t>> \notin usedNonces
      /\ taskStatus[t] = "None"
      /\ balances[user] >= amount
      /\ VerifyGatewaySignature(t, worker, amount)
      /\ usedNonces' = usedNonces \cup {<<nonce, t>>}
      /\ taskStatus' = [taskStatus EXCEPT ![t] = "Settled"]
      /\ balances' = [balances EXCEPT ![user] = @ - amount]
      /\ settlements' = [settlements EXCEPT ![t] = s]
      /\ pendingPayouts' = Credited(pendingPayouts, s)
      /\ treasuryFees' = treasuryFees + s.treasuryShare
      /\ UNCHANGED <<held, claimedWorker, claimedDev, roles, now, sigs>>

(* Mutant: the saturating subtraction loses its floor.                     *)
UnwindUnfloored(have, share) == have - share

Unwind(have, share) == IF have >= share THEN have - share ELSE 0

(* pendingPayouts of worker and developer are both read before either is   *)
(* written, and the developer's is written last.                           *)
Reverted(pending, s) ==
  [a \in Accounts |-> IF a = s.developer THEN Unwind(pending[a], s.developerShare)
                      ELSE IF a = s.worker THEN Unwind(pending[a], s.workerShare)
                      ELSE pending[a]]

(* Mutant: the refund looks at the worker's claim only.                    *)
UnclaimedByWorker(t) == t \notin claimedWorker

Unclaimed(t) == t \notin claimedWorker /\ t \notin claimedDev

RefundTask(t, user, amount) ==
  LET s == settlements[t]
  IN  /\ taskStatus[t] = "Settled"
      /\ Unclaimed(t)
      /\ amount > 0
      /\ now <= s.settledAt + MAX_TIMEOUT
      /\ pendingPayouts' = Reverted(pendingPayouts, s)
      /\ treasuryFees' = Unwind(treasuryFees, s.treasuryShare)
      /\ taskStatus' = [taskStatus EXCEPT ![t] = "Refunded"]
      /\ balances' = [balances EXCEPT ![user] = @ + amount]
      /\ UNCHANGED <<held, usedNonces, settlements, claimedWorker, claimedDev,
                     roles, now, sigs>>

(* Mutant: a claim does not look for a refund.                             *)
AnyStatus(t) == taskStatus[t] \in TaskStatus

NotRefunded(t) == taskStatus[t] # "Refunded"

(* A claim closes the task only when the other party has claimed too.      *)
StatusAfterClaim(t, claimedByOther) ==
  IF t \in claimedByOther THEN [taskStatus EXCEPT ![t] = "Claimed"] ELSE taskStatus

ClaimReward(t, sender) ==
  LET share == settlements[t].workerShare
  IN  /\ t \notin claimedWorker
      /\ NotRefunded(t)
      /\ settlements[t].worker = sender
      /\ share > 0
      /\ pendingPayouts[sender] >= share
      /\ VerifyGatewaySignature(t, sender, share)
      /\ claimedWorker' = claimedWorker \cup {t}
      /\ taskStatus' = StatusAfterClaim(t, claimedDev)
      /\ pendingPayouts' = [pendingPayouts EXCEPT ![sender] = @ - share]
      /\ SafeTransfer(share)
      /\ UNCHANGED <<balances, treasuryFees, usedNonces, settlements, claimedDev,
                     roles, now, sigs>>

ClaimDeveloperReward(t, sender) ==
  LET share == settlements[t].developerShare
  IN  /\ t \notin claimedDev
      /\ NotRefunded(t)
      /\ settlements[t].developer = sender
      /\ share > 0
      /\ pendingPayouts[sender] >= share
      /\ VerifyGatewaySignature(t, sender, share)
      /\ claimedDev' = claimedDev \cup {t}
      /\ taskStatus' = StatusAfterClaim(t, claimedWorker)
      /\ pendingPayouts' = [pendingPayouts EXCEPT ![sender] = @ - share]
      /\ SafeTransfer(share)
      /\ UNCHANGED <<balances, treasuryFees, usedNonces, settlements, claimedWorker,
                     roles, now, sigs>>

ClaimTreasuryFees ==
  /\ treasuryFees > 0
  /\ treasuryFees' = 0
  /\ SafeTransfer(treasuryFees)
  /\ UNCHANGED <<balances, pendingPayouts, lifecycle, roles, now, sigs>>

Tick ==
  /\ now < MaxTime
  /\ now' = now + 1
  /\ UNCHANGED <<funds, lifecycle, roles, sigs>>

-----------------------------------------------------------------------------
(* What the gateway process asks of the contract: it authorises a task it  *)
(* has not settled, issues Proofs-of-Task for settled ones, and refunds    *)
(* the amount it settled (BillingEngine, src/gateway/billing.py).          *)
Authorise(t, worker, amount) ==
  /\ taskStatus[t] = "None"
  /\ Sign(t, worker, amount)

IssuePoT(t) ==
  /\ taskStatus[t] # "None"
  /\ \/ Sign(t, settlements[t].worker, settlements[t].workerShare)
     \/ /\ settlements[t].developer # NoAddr
        /\ Sign(t, settlements[t].developer, settlements[t].developerShare)

RequestRefund(t, user) == RefundTask(t, user, settlements[t].totalAmount)

UserStep ==
  \E u \in Users, a \in DepositAmounts : Deposit(u, a) \/ Withdraw(u, a)

OwnerStep ==
  \/ \E s \in Skills, d \in Developers : RegisterDeveloper(s, d)
  \/ \E g \in Gateways : SetGateway(g)

OracleStep ==
  \E t \in Tasks :
    \/ \E w \in Workers, a \in TaskAmounts : Authorise(t, w, a)
    \/ IssuePoT(t)
    \/ \E u \in Users : RequestRefund(t, u)

SettleStep ==
  \E t \in Tasks, u \in Users, w \in Workers, s \in Skills,
     a \in TaskAmounts, n \in Nonces, d \in 0..MaxTime :
    SettleTask(t, u, w, s, a, n, d)

ClaimStep ==
  \/ \E t \in Tasks, a \in Accounts : ClaimReward(t, a) \/ ClaimDeveloperReward(t, a)
  \/ ClaimTreasuryFees

Next == UserStep \/ OwnerStep \/ OracleStep \/ SettleStep \/ ClaimStep \/ Tick

Spec == Init /\ [][Next]_vars

-----------------------------------------------------------------------------
TypeOK ==
  /\ held \in Nat
  /\ balances \in [Accounts -> Nat]
  /\ developers \in [Skills -> Accounts \cup {NoAddr}]
  /\ taskStatus \in [Tasks -> TaskStatus]
  /\ usedNonces \subseteq Nonces \X Tasks
  /\ pendingPayouts \in [Accounts -> Nat]
  /\ treasuryFees \in Nat
  /\ settlements \in [Tasks -> TaskSettlement]
  /\ claimedWorker \subseteq Tasks
  /\ claimedDev \subseteq Tasks
  /\ gateway \in Accounts
  /\ now \in Nat
  /\ sigs \subseteq Tasks \X (Accounts \cup {NoAddr}) \X Nat \X Accounts

(* The shares the contract has promised to party p and not yet paid: those *)
(* of settled, unrefunded tasks p has not claimed.                         *)
Unpaid(p, t) ==
  IF taskStatus[t] \in {"Settled", "Claimed"}
    THEN (IF settlements[t].worker = p /\ t \notin claimedWorker
            THEN settlements[t].workerShare ELSE 0)
         + (IF settlements[t].developer = p /\ t \notin claimedDev
              THEN settlements[t].developerShare ELSE 0)
    ELSE 0

UnclaimedShares(p) == SumFunctionOnSet([t \in Tasks |-> Unpaid(p, t)], Tasks)

WasBoth(p, t) == p = settlements[t].worker /\ p = settlements[t].developer

(* pendingPayouts aggregates many tasks in one number per party, while     *)
(* claims and refunds work task by task from the snapshots.  The aggregate *)
(* is never less than what is still claimable, whatever roles coincide: no *)
(* claim of a live share can fail for want of it.  And for a party that is *)
(* not the worker and the developer of one task it is exactly that: settle,*)
(* claim and refund in any order leave no share stranded in it.            *)
PendingMatchesClaims ==
  \A p \in Accounts :
    /\ pendingPayouts[p] >= UnclaimedShares(p)
    /\ (\A t \in Tasks : ~WasBoth(p, t)) => pendingPayouts[p] = UnclaimedShares(p)

Liabilities ==
  SumFunctionOnSet(balances, Accounts) + SumFunctionOnSet(pendingPayouts, Accounts)
  + treasuryFees

(* What a refund may leave behind: see ShortfallIsFromRefunds.             *)
LeftOut(t) ==
  IF taskStatus[t] = "Refunded"
    THEN settlements[t].treasuryShare
         + (IF WasBoth(settlements[t].worker, t) THEN settlements[t].workerShare ELSE 0)
    ELSE 0

(* What the contract owes and what it holds may drift apart only through   *)
(* refunds, which return the whole amount while the treasury may already   *)
(* have collected its part and a party that is both worker and developer   *)
(* keeps one of its shares.  Nothing else ever loses or creates USDC.      *)
ShortfallIsFromRefunds ==
  /\ held <= Liabilities
  /\ Liabilities <= held + SumFunctionOnSet([t \in Tasks |-> LeftOut(t)], Tasks)

(* A task's escrow leaves once: either the parties take it, or it goes     *)
(* back to the user; nobody collects from a task that was never settled,   *)
(* Claimed is reached exactly when both shares are paid, and a nonce is    *)
(* used up only by settling its task.                                      *)
EscrowLeavesOnce ==
  /\ \A t \in Tasks : taskStatus[t] = "None" =>
       settlements[t] = NoSettlement /\ t \notin claimedWorker \cup claimedDev
  /\ \A t \in Tasks : taskStatus[t] = "Refunded" => t \notin claimedWorker \cup claimedDev
  /\ \A t \in Tasks : taskStatus[t] = "Claimed" <=> t \in claimedWorker \cap claimedDev
  /\ \A n \in Nonces, t \in Tasks : <<n, t>> \in usedNonces => taskStatus[t] # "None"

(* The contract implements EscrowPromise: what a task's status and claim   *)
(* flags say, taken together, is one escrow that leaves the contract once. *)
escrowBar ==
  [t \in Tasks |-> CASE taskStatus[t] = "None" -> "none"
                     [] taskStatus[t] = "Refunded" -> "returned"
                     [] OTHER -> "held"]

collectedBar ==
  [t \in Tasks |-> {p \in {"worker", "developer"} :
                     \/ p = "worker" /\ t \in claimedWorker
                     \/ p = "developer" /\ t \in claimedDev}]

Promise == INSTANCE EscrowPromise WITH escrow <- escrowBar, collected <- collectedBar

ImplementsPromise == Promise!Spec
=============================================================================
