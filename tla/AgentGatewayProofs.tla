------------------------- MODULE AgentGatewayProofs -------------------------
(***************************************************************************)
(* Theorems about AgentGateway for every set of accounts, tasks and        *)
(* amounts. EscrowLeavesOnce is inductive together with TypeOK; from it    *)
(* follows that every step of the contract is a step of EscrowPromise.     *)
(*                                                                         *)
(* The last part is about the money. What is pending for an account, and   *)
(* what the contract owes, are sums over all accounts and tasks, and a     *)
(* step changes the terms of one account or one task: the lemmas of Sums   *)
(* say what becomes of the sum. The terms are those of the snapshots, so   *)
(* the argument needs that a snapshot's shares add up to its amount and    *)
(* that its parties are accounts.                                          *)
(***************************************************************************)
EXTENDS AgentGateway, Sums

(* The two shares of a settlement never exceed its amount, so the          *)
(* treasury's remainder is a natural number.                               *)
LEMMA SharesWithinAmount ==
  ASSUME NEW a \in Nat
  PROVE  /\ Bps(a, DEVELOPER_BPS) \in Nat
         /\ Bps(a, WORKER_BPS) \in Nat
         /\ a - Bps(a, DEVELOPER_BPS) - Bps(a, WORKER_BPS) \in Nat
         /\ a - Bps(a, WORKER_BPS) \in Nat
  BY DEF Bps, DEVELOPER_BPS, WORKER_BPS, BPS_DENOM

LEMMA SplitType ==
  ASSUME NEW w \in Accounts, NEW d \in Accounts \cup {NoAddr}, NEW a \in Nat, TypeOK
  PROVE  Split(w, d, a) \in TaskSettlement
  <1> DEFINE devShare == IF d = NoAddr THEN 0 ELSE Bps(a, DEVELOPER_BPS)
  <1>1. devShare \in Nat /\ Bps(a, WORKER_BPS) \in Nat
    BY SharesWithinAmount
  <1>2. a - devShare - Bps(a, WORKER_BPS) \in Nat
    BY SharesWithinAmount
  <1>3. now \in Nat
    BY DEF TypeOK
  <1> HIDE DEF devShare
  <1>4. Split(w, d, a) = [worker |-> w, developer |-> d, totalAmount |-> a,
                          workerShare |-> Bps(a, WORKER_BPS), developerShare |-> devShare,
                          treasuryShare |-> a - devShare - Bps(a, WORKER_BPS),
                          settledAt |-> now]
    BY DEF Split, devShare
  <1>5. QED
    BY <1>1, <1>2, <1>3, <1>4 DEF TaskSettlement

LEMMA UnwindType ==
  ASSUME NEW h \in Nat, NEW s \in Nat
  PROVE  Unwind(h, s) \in Nat
  BY DEF Unwind

(* What the contract keeps for a task has the fields of a settlement.      *)
LEMMA SettlementFields ==
  ASSUME NEW s \in TaskSettlement
  PROVE  /\ s.worker \in Accounts \cup {NoAddr}
         /\ s.developer \in Accounts \cup {NoAddr}
         /\ s.totalAmount \in Nat /\ s.workerShare \in Nat
         /\ s.developerShare \in Nat /\ s.treasuryShare \in Nat
         /\ s.settledAt \in Nat
  BY DEF TaskSettlement

LEMMA CreditedType ==
  ASSUME NEW p \in [Accounts -> Nat], NEW s \in TaskSettlement
  PROVE  Credited(p, s) \in [Accounts -> Nat]
  BY SettlementFields DEF Credited

LEMMA RevertedType ==
  ASSUME NEW p \in [Accounts -> Nat], NEW s \in TaskSettlement
  PROVE  Reverted(p, s) \in [Accounts -> Nat]
  BY SettlementFields, UnwindType DEF Reverted

LEMMA InitTypeOK == Init => TypeOK
  BY GatewayAssumption DEF Init, TypeOK, TaskStatus, TaskSettlement, NoSettlement

LEMMA SignType ==
  ASSUME TypeOK, NEW t \in Tasks, NEW p \in Accounts \cup {NoAddr}, NEW a \in Nat,
         Sign(t, p, a)
  PROVE  TypeOK'
  BY DEF TypeOK, Sign, funds, lifecycle, roles

LEMMA NextTypeOK == TypeOK /\ [Next]_vars => TypeOK'
  <1> SUFFICES ASSUME TypeOK, [Next]_vars PROVE TypeOK'
    OBVIOUS
  <1> USE GatewayAssumption
  <1>1. ASSUME NEW u \in Users, NEW a \in DepositAmounts, Deposit(u, a)
        PROVE TypeOK'
    BY <1>1 DEF TypeOK, Deposit, lifecycle, roles
  <1>2. ASSUME NEW u \in Users, NEW a \in DepositAmounts, Withdraw(u, a)
        PROVE TypeOK'
    BY <1>2 DEF TypeOK, Withdraw, SafeTransfer, lifecycle, roles
  <1>3. ASSUME NEW s \in Skills, NEW d \in Developers, RegisterDeveloper(s, d)
        PROVE TypeOK'
    BY <1>3 DEF TypeOK, RegisterDeveloper, funds, lifecycle
  <1>4. ASSUME NEW g \in Gateways, SetGateway(g)
        PROVE TypeOK'
    BY <1>4 DEF TypeOK, SetGateway, funds, lifecycle
  <1>5. ASSUME NEW t \in Tasks, NEW w \in Workers, NEW a \in TaskAmounts, Authorise(t, w, a)
        PROVE TypeOK'
    BY <1>5, SignType DEF Authorise
  <1>6. ASSUME NEW t \in Tasks, IssuePoT(t)
        PROVE TypeOK'
    <2>1. settlements[t] \in TaskSettlement
      BY DEF TypeOK
    <2>2. QED
      BY <1>6, <2>1, SettlementFields, SignType DEF IssuePoT
  <1>7. ASSUME NEW t \in Tasks, NEW u \in Users, RequestRefund(t, u)
        PROVE TypeOK'
    <2> DEFINE s == settlements[t]
    <2>1. s \in TaskSettlement
      BY DEF TypeOK
    <2>2. pendingPayouts' \in [Accounts -> Nat]
      BY <1>7, <2>1, RevertedType DEF RequestRefund, RefundTask, TypeOK
    <2>3. treasuryFees' \in Nat
      BY <1>7, <2>1, SettlementFields, UnwindType DEF RequestRefund, RefundTask, TypeOK
    <2>4. balances' \in [Accounts -> Nat]
      BY <1>7, <2>1, SettlementFields DEF RequestRefund, RefundTask, TypeOK
    <2>5. taskStatus' \in [Tasks -> TaskStatus]
      BY <1>7 DEF RequestRefund, RefundTask, TypeOK, TaskStatus
    <2>6. QED
      BY <1>7, <2>2, <2>3, <2>4, <2>5 DEF RequestRefund, RefundTask, TypeOK, roles
  <1>8. ASSUME NEW t \in Tasks, NEW u \in Users, NEW w \in Workers, NEW k \in Skills,
               NEW a \in TaskAmounts, NEW n \in Nonces, NEW d \in 0..MaxTime,
               SettleTask(t, u, w, k, a, n, d)
        PROVE TypeOK'
    <2> DEFINE s == Split(w, developers[k], a)
    <2>1. s \in TaskSettlement
      BY SplitType DEF TypeOK
    <2>2. pendingPayouts' \in [Accounts -> Nat]
      BY <1>8, <2>1, CreditedType DEF SettleTask, TypeOK
    <2>3. treasuryFees' \in Nat
      BY <1>8, <2>1, SettlementFields DEF SettleTask, TypeOK
    <2>4. balances' \in [Accounts -> Nat]
      BY <1>8 DEF SettleTask, TypeOK
    <2>5. settlements' \in [Tasks -> TaskSettlement]
      BY <1>8, <2>1 DEF SettleTask, TypeOK
    <2>6. taskStatus' \in [Tasks -> TaskStatus] /\ usedNonces' \subseteq Nonces \X Tasks
      BY <1>8 DEF SettleTask, TypeOK, TaskStatus
    <2>7. QED
      BY <1>8, <2>2, <2>3, <2>4, <2>5, <2>6 DEF SettleTask, TypeOK, roles
  <1>9. ASSUME NEW t \in Tasks, NEW p \in Accounts,
               ClaimReward(t, p) \/ ClaimDeveloperReward(t, p)
        PROVE TypeOK'
    <2> DEFINE s == settlements[t]
    <2>1. s \in TaskSettlement
      BY DEF TypeOK
    <2>2. s.workerShare \in Nat /\ s.developerShare \in Nat
      BY <2>1, SettlementFields
    <2>3. pendingPayouts' \in [Accounts -> Nat] /\ held' \in Nat
      BY <1>9, <2>2 DEF ClaimReward, ClaimDeveloperReward, SafeTransfer, TypeOK
    <2>4. taskStatus' \in [Tasks -> TaskStatus]
      BY <1>9 DEF ClaimReward, ClaimDeveloperReward, StatusAfterClaim, TypeOK, TaskStatus
    <2>5. QED
      BY <1>9, <2>3, <2>4 DEF ClaimReward, ClaimDeveloperReward, TypeOK, roles
  <1>10. CASE ClaimTreasuryFees
    BY <1>10 DEF TypeOK, ClaimTreasuryFees, SafeTransfer, lifecycle, roles
  <1>11. CASE Tick
    BY <1>11 DEF TypeOK, Tick, funds, lifecycle, roles
  <1>12. CASE UNCHANGED vars
    BY <1>12 DEF TypeOK, vars, funds, lifecycle, roles
  <1>13. QED
    BY <1>1, <1>2, <1>3, <1>4, <1>5, <1>6, <1>7, <1>8, <1>9, <1>10, <1>11, <1>12
    DEF Next, UserStep, OwnerStep, OracleStep, SettleStep, ClaimStep

(* Every variable keeps its type, for all constants; in particular the     *)
(* subtractions of refundTask and of the split stay natural numbers.       *)
THEOREM TypeCorrect == Spec => []TypeOK
  BY InitTypeOK, NextTypeOK, PTL DEF Spec
-----------------------------------------------------------------------------
(* A step that touches neither status, nonces, snapshots nor claim flags.  *)
LEMMA EscrowUntouched ==
  ASSUME EscrowLeavesOnce, UNCHANGED lifecycle
  PROVE  EscrowLeavesOnce'
  BY DEF EscrowLeavesOnce, lifecycle

LEMMA InitEscrow == Init => EscrowLeavesOnce
  BY DEF Init, EscrowLeavesOnce

LEMMA SettleEscrow ==
  ASSUME TypeOK, EscrowLeavesOnce,
         NEW t \in Tasks, NEW u \in Users, NEW w \in Workers, NEW k \in Skills,
         NEW a \in TaskAmounts, NEW n \in Nonces, NEW d \in 0..MaxTime,
         SettleTask(t, u, w, k, a, n, d)
  PROVE  EscrowLeavesOnce'
  <1>1. /\ taskStatus[t] = "None"
        /\ taskStatus' = [taskStatus EXCEPT ![t] = "Settled"]
        /\ usedNonces' = usedNonces \cup {<<n, t>>}
        /\ claimedWorker' = claimedWorker /\ claimedDev' = claimedDev
        /\ \A x \in Tasks \ {t} : settlements'[x] = settlements[x]
    BY DEF SettleTask, TypeOK
  <1>2. t \notin claimedWorker \cup claimedDev
    BY <1>1 DEF EscrowLeavesOnce
  <1>3. QED
    BY <1>1, <1>2 DEF EscrowLeavesOnce, TypeOK

LEMMA RefundEscrow ==
  ASSUME TypeOK, EscrowLeavesOnce, NEW t \in Tasks, NEW u \in Users, RequestRefund(t, u)
  PROVE  EscrowLeavesOnce'
  <1>1. /\ taskStatus[t] = "Settled"
        /\ t \notin claimedWorker /\ t \notin claimedDev
        /\ taskStatus' = [taskStatus EXCEPT ![t] = "Refunded"]
        /\ UNCHANGED <<usedNonces, settlements, claimedWorker, claimedDev>>
    BY DEF RequestRefund, RefundTask, Unclaimed
  <1>2. QED
    BY <1>1 DEF EscrowLeavesOnce, TypeOK

(* A claim is of a settled task: no other one has a party in its snapshot. *)
LEMMA ClaimEscrow ==
  ASSUME TypeOK, EscrowLeavesOnce, NEW t \in Tasks, NEW p \in Accounts,
         ClaimReward(t, p) \/ ClaimDeveloperReward(t, p)
  PROVE  EscrowLeavesOnce'
  <1>1. taskStatus[t] # "None"
    BY GatewayAssumption
    DEF ClaimReward, ClaimDeveloperReward, EscrowLeavesOnce, NoSettlement
  <1>2. taskStatus[t] # "Refunded"
    BY DEF ClaimReward, ClaimDeveloperReward, NotRefunded
  <1>3. CASE ClaimReward(t, p)
    <2>1. /\ t \notin claimedWorker
          /\ claimedWorker' = claimedWorker \cup {t}
          /\ taskStatus' = StatusAfterClaim(t, claimedDev)
          /\ UNCHANGED <<usedNonces, settlements, claimedDev>>
      BY <1>3 DEF ClaimReward
    <2>2. QED
      BY <1>1, <1>2, <2>1 DEF EscrowLeavesOnce, StatusAfterClaim, TypeOK
  <1>4. CASE ClaimDeveloperReward(t, p)
    <2>1. /\ t \notin claimedDev
          /\ claimedDev' = claimedDev \cup {t}
          /\ taskStatus' = StatusAfterClaim(t, claimedWorker)
          /\ UNCHANGED <<usedNonces, settlements, claimedWorker>>
      BY <1>4 DEF ClaimDeveloperReward
    <2>2. QED
      BY <1>1, <1>2, <2>1 DEF EscrowLeavesOnce, StatusAfterClaim, TypeOK
  <1>5. QED
    BY <1>3, <1>4

LEMMA NextEscrow == TypeOK /\ EscrowLeavesOnce /\ [Next]_vars => EscrowLeavesOnce'
  <1> SUFFICES ASSUME TypeOK, EscrowLeavesOnce, [Next]_vars PROVE EscrowLeavesOnce'
    OBVIOUS
  <1>1. CASE UserStep
    BY <1>1, EscrowUntouched DEF UserStep, Deposit, Withdraw
  <1>2. CASE OwnerStep
    BY <1>2, EscrowUntouched DEF OwnerStep, RegisterDeveloper, SetGateway
  <1>3. CASE OracleStep
    BY <1>3, EscrowUntouched, RefundEscrow DEF OracleStep, Authorise, IssuePoT, Sign
  <1>4. CASE SettleStep
    BY <1>4, SettleEscrow DEF SettleStep
  <1>5. CASE ClaimStep
    BY <1>5, EscrowUntouched, ClaimEscrow DEF ClaimStep, ClaimTreasuryFees
  <1>6. CASE Tick
    BY <1>6, EscrowUntouched DEF Tick
  <1>7. CASE UNCHANGED vars
    BY <1>7, EscrowUntouched DEF vars
  <1>8. QED
    BY <1>1, <1>2, <1>3, <1>4, <1>5, <1>6, <1>7 DEF Next

(* For every number of tasks, parties, amounts and key rotations, a task's *)
(* escrow leaves the contract once: refund and claims exclude each other,  *)
(* and Claimed means both shares are paid.                                 *)
THEOREM EscrowSafe == Spec => []EscrowLeavesOnce
  BY InitTypeOK, NextTypeOK, InitEscrow, NextEscrow, PTL DEF Spec

-----------------------------------------------------------------------------
(***************************************************************************)
(* What is pending and what may be claimed.  Each action changes the term  *)
(* of one task in UnclaimedShares, and pendingPayouts by as much; only the *)
(* refund of a task whose worker is its developer takes less.  Snapshots   *)
(* says what a settlement keeps of the task it is of.                      *)
(***************************************************************************)
Snapshots ==
  \A t \in Tasks : taskStatus[t] # "None" =>
    /\ settlements[t].worker \in Accounts
    /\ settlements[t].developer = NoAddr => settlements[t].developerShare = 0
    /\ settlements[t].totalAmount = settlements[t].workerShare
         + settlements[t].developerShare + settlements[t].treasuryShare

SharesInv == TypeOK /\ EscrowLeavesOnce /\ Snapshots /\ PendingMatchesClaims

LEMMA SplitAddsUp ==
  ASSUME NEW w \in Accounts, NEW d \in Accounts \cup {NoAddr}, NEW a \in Nat, TypeOK
  PROVE  LET s == Split(w, d, a)
         IN  /\ s.worker = w /\ s.developer = d
             /\ d = NoAddr => s.developerShare = 0
             /\ s.totalAmount = a
             /\ a = s.workerShare + s.developerShare + s.treasuryShare
  <1> DEFINE devShare == IF d = NoAddr THEN 0 ELSE Bps(a, DEVELOPER_BPS)
             workerShare == Bps(a, WORKER_BPS)
  <1>1. devShare \in Nat /\ workerShare \in Nat
    BY SharesWithinAmount
  <1>2. d = NoAddr => devShare = 0
    OBVIOUS
  <1> HIDE DEF devShare, workerShare
  <1>3. Split(w, d, a) = [worker |-> w, developer |-> d, totalAmount |-> a,
                          workerShare |-> workerShare, developerShare |-> devShare,
                          treasuryShare |-> a - devShare - workerShare,
                          settledAt |-> now]
    BY DEF Split, devShare, workerShare
  <1>4. QED
    BY <1>1, <1>2, <1>3

LEMMA InitSnapshots == Init => Snapshots
  BY DEF Init, Snapshots

LEMMA NextSnapshots == TypeOK /\ EscrowLeavesOnce /\ Snapshots /\ [Next]_vars => Snapshots'
  <1> SUFFICES ASSUME TypeOK, EscrowLeavesOnce, Snapshots, [Next]_vars PROVE Snapshots'
    OBVIOUS
  <1>1. ASSUME UNCHANGED <<taskStatus, settlements>> PROVE Snapshots'
    BY <1>1 DEF Snapshots
  <1>2. CASE UserStep
    BY <1>1, <1>2 DEF UserStep, Deposit, Withdraw, lifecycle
  <1>3. CASE OwnerStep
    BY <1>1, <1>3 DEF OwnerStep, RegisterDeveloper, SetGateway, lifecycle
  <1>4. CASE OracleStep
    <2>1. ASSUME NEW t \in Tasks, NEW u \in Users, RequestRefund(t, u) PROVE Snapshots'
      BY <2>1 DEF RequestRefund, RefundTask, Snapshots, TypeOK
    <2>2. QED
      BY <1>1, <1>4, <2>1 DEF OracleStep, Authorise, IssuePoT, Sign, lifecycle
  <1>5. CASE SettleStep
    <2>1. PICK t \in Tasks, u \in Users, w \in Workers, k \in Skills, a \in TaskAmounts,
               n \in Nonces, d \in 0..MaxTime : SettleTask(t, u, w, k, a, n, d)
      BY <1>5 DEF SettleStep
    <2> DEFINE s == Split(w, developers[k], a)
    <2>2. /\ s.worker \in Accounts
          /\ s.developer = NoAddr => s.developerShare = 0
          /\ s.totalAmount = s.workerShare + s.developerShare + s.treasuryShare
      <3>1. w \in Accounts /\ a \in Nat /\ developers[k] \in Accounts \cup {NoAddr}
        BY GatewayAssumption DEF TypeOK
      <3>2. QED
        BY <3>1, SplitAddsUp
    <2> HIDE DEF s
    <2>3. /\ settlements' = [settlements EXCEPT ![t] = s]
          /\ taskStatus' = [taskStatus EXCEPT ![t] = "Settled"]
      BY <2>1 DEF SettleTask, s
    <2>4. QED
      BY <2>2, <2>3 DEF Snapshots, TypeOK
  <1>6. CASE ClaimStep
    <2>1. ASSUME NEW t \in Tasks, NEW p \in Accounts,
                 ClaimReward(t, p) \/ ClaimDeveloperReward(t, p)
          PROVE  Snapshots'
      <3>1. taskStatus[t] # "None"
        BY <2>1, GatewayAssumption
        DEF ClaimReward, ClaimDeveloperReward, EscrowLeavesOnce, NoSettlement
      <3>2. settlements' = settlements /\ \A x \in Tasks \ {t} : taskStatus'[x] = taskStatus[x]
        BY <2>1 DEF ClaimReward, ClaimDeveloperReward, StatusAfterClaim, TypeOK
      <3>3. QED
        BY <3>1, <3>2 DEF Snapshots
    <2>2. QED
      BY <1>1, <1>6, <2>1 DEF ClaimStep, ClaimTreasuryFees, lifecycle
  <1>7. CASE Tick
    BY <1>1, <1>7 DEF Tick, lifecycle
  <1>8. CASE UNCHANGED vars
    BY <1>1, <1>8 DEF vars, lifecycle
  <1>9. QED
    BY <1>2, <1>3, <1>4, <1>5, <1>6, <1>7, <1>8 DEF Next

LEMMA UnpaidType ==
  ASSUME TypeOK, NEW p, NEW t \in Tasks
  PROVE  Unpaid(p, t) \in Nat
  <1>1. settlements[t].workerShare \in Nat /\ settlements[t].developerShare \in Nat
    BY SettlementFields DEF TypeOK
  <1>2. QED
    BY <1>1 DEF Unpaid

LEMMA UnpaidTypeNext ==
  ASSUME TypeOK', NEW p, NEW t \in Tasks
  PROVE  Unpaid(p, t)' \in Nat
  <1>1. settlements'[t].workerShare \in Nat /\ settlements'[t].developerShare \in Nat
    BY SettlementFields DEF TypeOK
  <1>2. QED
    BY <1>1 DEF Unpaid

LEMMA UnclaimedType ==
  ASSUME TypeOK, NEW p
  PROVE  /\ UnclaimedShares(p) \in Nat
         /\ \A t \in Tasks : Unpaid(p, t) <= UnclaimedShares(p)
  <1> DEFINE f == [t \in Tasks |-> Unpaid(p, t)]
  <1>1. IsFiniteSet(Tasks) /\ \A t \in Tasks : f[t] \in Nat
    BY UnpaidType, GatewayAssumption
  <1>2. \A t \in Tasks : f[t] = Unpaid(p, t)
    OBVIOUS
  <1>3. UnclaimedShares(p) = SumFunctionOnSet(f, Tasks)
    BY DEF UnclaimedShares
  <1> HIDE DEF f
  <1>4. SumFunctionOnSet(f, Tasks) \in Nat
    BY <1>1, SumNat
  <1>5. \A t \in Tasks : f[t] <= SumFunctionOnSet(f, Tasks)
    BY <1>1, SumCovers
  <1>6. QED
    BY <1>2, <1>3, <1>4, <1>5

(* One task's term changes.                                                *)
LEMMA UnclaimedChange ==
  ASSUME TypeOK, TypeOK', NEW p, NEW t \in Tasks,
         \A x \in Tasks : x # t => Unpaid(p, x)' = Unpaid(p, x)
  PROVE  UnclaimedShares(p)' = UnclaimedShares(p) + Unpaid(p, t)' - Unpaid(p, t)
  <1> DEFINE f == [x \in Tasks |-> Unpaid(p, x)]
  <1>1. PICK g : g = [x \in Tasks |-> Unpaid(p, x)']
    OBVIOUS
  <1>2. UnclaimedShares(p)' = SumFunctionOnSet(g, Tasks)
    BY <1>1 DEF UnclaimedShares
  <1>3. UnclaimedShares(p) = SumFunctionOnSet(f, Tasks)
    BY DEF UnclaimedShares
  <1>4. \A x \in Tasks : Unpaid(p, x) \in Int /\ Unpaid(p, x)' \in Int
    <2>1. \A x \in Tasks : Unpaid(p, x) \in Nat
      BY UnpaidType
    <2>2. \A x \in Tasks : Unpaid(p, x)' \in Nat
      BY UnpaidTypeNext
    <2>3. QED
      BY <2>1, <2>2
  <1>5. /\ IsFiniteSet(Tasks)
        /\ \A x \in Tasks : f[x] \in Int /\ g[x] \in Int
        /\ \A x \in Tasks : x # t => g[x] = f[x]
    BY <1>1, <1>4, GatewayAssumption
  <1>6. f[t] = Unpaid(p, t) /\ g[t] = Unpaid(p, t)'
    BY <1>1
  <1> HIDE DEF f
  <1>7. SumFunctionOnSet(g, Tasks) = SumFunctionOnSet(f, Tasks) + g[t] - f[t]
    BY <1>5, SumChange
  <1>8. QED
    BY <1>2, <1>3, <1>6, <1>7

LEMMA UnclaimedSame ==
  ASSUME UNCHANGED <<taskStatus, settlements, claimedWorker, claimedDev>>, NEW p
  PROVE  UnclaimedShares(p)' = UnclaimedShares(p) /\ \A t \in Tasks : WasBoth(p, t)' = WasBoth(p, t)
  BY DEF UnclaimedShares, Unpaid, WasBoth

(* What is pending moves by what one task's unpaid share does, and by no   *)
(* less for a party that is both worker and developer of some task.        *)
LEMMA PendingMoves ==
  ASSUME SharesInv, TypeOK', NEW t \in Tasks,
         \A p \in Accounts : \A x \in Tasks : x # t => Unpaid(p, x)' = Unpaid(p, x),
         \A p \in Accounts :
           pendingPayouts'[p] >= pendingPayouts[p] + Unpaid(p, t)' - Unpaid(p, t),
         \A p \in Accounts : (\A x \in Tasks : ~WasBoth(p, x)') =>
           /\ \A x \in Tasks : ~WasBoth(p, x)
           /\ pendingPayouts'[p] = pendingPayouts[p] + Unpaid(p, t)' - Unpaid(p, t)
  PROVE  PendingMatchesClaims'
  <1> SUFFICES ASSUME NEW p \in Accounts
               PROVE  /\ pendingPayouts'[p] >= UnclaimedShares(p)'
                      /\ (\A x \in Tasks : ~WasBoth(p, x)') => pendingPayouts'[p] = UnclaimedShares(p)'
    BY DEF PendingMatchesClaims
  <1>1. UnclaimedShares(p)' = UnclaimedShares(p) + Unpaid(p, t)' - Unpaid(p, t)
    BY UnclaimedChange DEF SharesInv
  <1>2. /\ pendingPayouts[p] >= UnclaimedShares(p)
        /\ (\A x \in Tasks : ~WasBoth(p, x)) => pendingPayouts[p] = UnclaimedShares(p)
    BY DEF SharesInv, PendingMatchesClaims
  <1>3. /\ pendingPayouts[p] \in Nat /\ pendingPayouts'[p] \in Nat
        /\ UnclaimedShares(p) \in Nat /\ Unpaid(p, t) \in Nat
    BY UnclaimedType, UnpaidType DEF SharesInv, TypeOK
  <1>4. Unpaid(p, t)' \in Nat
    BY UnpaidTypeNext
  <1> HIDE DEF Unpaid, UnclaimedShares
  <1>5. QED
    BY <1>1, <1>2, <1>3, <1>4

LEMMA InitShares == Init => PendingMatchesClaims
  <1> SUFFICES ASSUME Init, NEW p \in Accounts PROVE pendingPayouts[p] = UnclaimedShares(p)
    BY DEF PendingMatchesClaims, Init
  <1> DEFINE f == [t \in Tasks |-> Unpaid(p, t)]
  <1>1. \A t \in Tasks : f[t] = 0
    BY DEF Init, Unpaid
  <1> HIDE DEF f
  <1>2. SumFunctionOnSet(f, Tasks) = 0
    BY <1>1, SumZero, GatewayAssumption
  <1>3. QED
    BY <1>2 DEF Init, UnclaimedShares, f

LEMMA SettleShares ==
  ASSUME SharesInv, TypeOK',
         NEW t \in Tasks, NEW u \in Users, NEW w \in Workers, NEW k \in Skills,
         NEW a \in TaskAmounts, NEW n \in Nonces, NEW d \in 0..MaxTime,
         SettleTask(t, u, w, k, a, n, d)
  PROVE  PendingMatchesClaims'
  <1> USE DEF SharesInv
  <1> DEFINE s == Split(w, developers[k], a)
  <1>1. s \in TaskSettlement
    BY SplitType, GatewayAssumption DEF TypeOK
  <1>2. s.workerShare \in Nat /\ s.developerShare \in Nat
    BY <1>1, SettlementFields
  <1> HIDE DEF s
  <1>3. /\ taskStatus[t] = "None"
        /\ taskStatus' = [taskStatus EXCEPT ![t] = "Settled"]
        /\ settlements' = [settlements EXCEPT ![t] = s]
        /\ pendingPayouts' = Credited(pendingPayouts, s)
        /\ claimedWorker' = claimedWorker /\ claimedDev' = claimedDev
    BY DEF SettleTask, s
  <1>4. t \notin claimedWorker /\ t \notin claimedDev /\ settlements[t] = NoSettlement
    BY <1>3 DEF EscrowLeavesOnce
  <1>5. ASSUME NEW p \in Accounts, NEW x \in Tasks, x # t
        PROVE  Unpaid(p, x)' = Unpaid(p, x) /\ WasBoth(p, x)' = WasBoth(p, x)
    BY <1>3, <1>5 DEF Unpaid, WasBoth, TypeOK
  <1>6. ASSUME NEW p \in Accounts
        PROVE  /\ pendingPayouts'[p] = pendingPayouts[p] + Unpaid(p, t)' - Unpaid(p, t)
               /\ ~WasBoth(p, t)
    <2>1. Unpaid(p, t) = 0 /\ ~WasBoth(p, t)
      BY <1>3, <1>4, GatewayAssumption DEF Unpaid, WasBoth, NoSettlement
    <2>2. Unpaid(p, t)' = (IF p = s.worker THEN s.workerShare ELSE 0)
                          + (IF p = s.developer THEN s.developerShare ELSE 0)
      BY <1>3, <1>4 DEF Unpaid, TypeOK
    <2>3. pendingPayouts[p] \in Nat
      BY DEF TypeOK
    <2>4. pendingPayouts'[p] = pendingPayouts[p]
                      + (IF p = s.worker THEN s.workerShare ELSE 0)
                      + (IF p = s.developer THEN s.developerShare ELSE 0)
      BY <1>3 DEF Credited
    <2>5. QED
      BY <1>2, <2>1, <2>2, <2>3, <2>4
  <1>7. \A p \in Accounts :
          pendingPayouts'[p] >= pendingPayouts[p] + Unpaid(p, t)' - Unpaid(p, t)
    BY <1>6 DEF TypeOK
  <1>8. \A p \in Accounts : (\A x \in Tasks : ~WasBoth(p, x)') => \A x \in Tasks : ~WasBoth(p, x)
    BY <1>5, <1>6
  <1>9. QED
    BY <1>5, <1>6, <1>7, <1>8, PendingMoves

LEMMA RefundShares ==
  ASSUME SharesInv, TypeOK', NEW t \in Tasks, NEW u \in Users, RequestRefund(t, u)
  PROVE  PendingMatchesClaims'
  <1> USE DEF SharesInv
  <1> DEFINE s == settlements[t]
  <1>1. s.workerShare \in Nat /\ s.developerShare \in Nat
    BY SettlementFields DEF TypeOK
  <1>2. /\ taskStatus[t] = "Settled"
        /\ taskStatus' = [taskStatus EXCEPT ![t] = "Refunded"]
        /\ t \notin claimedWorker /\ t \notin claimedDev
        /\ pendingPayouts' = Reverted(pendingPayouts, s)
        /\ UNCHANGED <<settlements, claimedWorker, claimedDev>>
    BY DEF RequestRefund, RefundTask, Unclaimed
  <1>3. ASSUME NEW p \in Accounts, NEW x \in Tasks, x # t
        PROVE  Unpaid(p, x)' = Unpaid(p, x)
    BY <1>2, <1>3 DEF Unpaid, TypeOK
  <1>4. \A p \in Accounts, x \in Tasks : WasBoth(p, x)' = WasBoth(p, x)
    BY <1>2 DEF WasBoth
  <1>5. ASSUME NEW p \in Accounts
        PROVE  /\ pendingPayouts'[p] >= pendingPayouts[p] + Unpaid(p, t)' - Unpaid(p, t)
               /\ ~WasBoth(p, t) =>
                    pendingPayouts'[p] = pendingPayouts[p] + Unpaid(p, t)' - Unpaid(p, t)
    <2>1. Unpaid(p, t)' = 0
      BY <1>2 DEF Unpaid, TypeOK
    <2>2. Unpaid(p, t) = (IF s.worker = p THEN s.workerShare ELSE 0)
                         + (IF s.developer = p THEN s.developerShare ELSE 0)
      BY <1>2 DEF Unpaid
    <2>3. pendingPayouts[p] \in Nat /\ pendingPayouts[p] >= Unpaid(p, t)
      <3>1. pendingPayouts[p] \in Nat /\ UnclaimedShares(p) \in Nat
            /\ pendingPayouts[p] >= UnclaimedShares(p)
        BY UnclaimedType DEF PendingMatchesClaims, TypeOK
      <3>2. Unpaid(p, t) \in Nat /\ Unpaid(p, t) <= UnclaimedShares(p)
        BY UnclaimedType, UnpaidType
      <3> HIDE DEF Unpaid, UnclaimedShares
      <3>3. QED
        BY <3>1, <3>2
    <2>4. pendingPayouts'[p] =
            IF p = s.developer THEN Unwind(pendingPayouts[p], s.developerShare)
            ELSE IF p = s.worker THEN Unwind(pendingPayouts[p], s.workerShare)
            ELSE pendingPayouts[p]
      BY <1>2 DEF Reverted
    <2> HIDE DEF s
    <2>5. CASE p = s.developer
      BY <1>1, <2>1, <2>2, <2>3, <2>4, <2>5 DEF Unwind, WasBoth, s
    <2>6. CASE p # s.developer
      BY <1>1, <2>1, <2>2, <2>3, <2>4, <2>6 DEF Unwind, WasBoth, s
    <2>7. QED
      BY <2>5, <2>6
  <1>6. QED
    BY <1>3, <1>4, <1>5, PendingMoves

LEMMA ClaimShares ==
  ASSUME SharesInv, TypeOK', NEW t \in Tasks, NEW q \in Accounts,
         ClaimReward(t, q) \/ ClaimDeveloperReward(t, q)
  PROVE  PendingMatchesClaims'
  <1> USE DEF SharesInv
  <1>1. settlements[t].workerShare \in Nat /\ settlements[t].developerShare \in Nat
    BY SettlementFields DEF TypeOK
  <1>2. /\ taskStatus[t] \in {"Settled", "Claimed"}
        /\ taskStatus'[t] \in {"Settled", "Claimed"}
        /\ \A x \in Tasks \ {t} : taskStatus'[x] = taskStatus[x]
        /\ settlements' = settlements
    <2>1. taskStatus[t] \in {"Settled", "Claimed"}
      BY GatewayAssumption
      DEF ClaimReward, ClaimDeveloperReward, NotRefunded, EscrowLeavesOnce, NoSettlement,
          TypeOK, TaskStatus
    <2>2. QED
      BY <2>1 DEF ClaimReward, ClaimDeveloperReward, StatusAfterClaim, TypeOK
  <1>3. \A x \in Tasks \ {t} : /\ x \in claimedWorker' <=> x \in claimedWorker
                               /\ x \in claimedDev' <=> x \in claimedDev
    BY DEF ClaimReward, ClaimDeveloperReward
  <1>4. ASSUME NEW p \in Accounts, NEW x \in Tasks, x # t
        PROVE  Unpaid(p, x)' = Unpaid(p, x)
    BY <1>2, <1>3, <1>4 DEF Unpaid
  <1>5. \A p \in Accounts, x \in Tasks : WasBoth(p, x)' = WasBoth(p, x)
    BY <1>2 DEF WasBoth
  <1>6. ASSUME NEW p \in Accounts
        PROVE  pendingPayouts'[p] = pendingPayouts[p] + Unpaid(p, t)' - Unpaid(p, t)
    <2>1. pendingPayouts[p] \in Nat
      BY DEF TypeOK
    <2>2. CASE ClaimReward(t, q)
      <3>1. /\ t \notin claimedWorker /\ t \in claimedWorker' /\ claimedDev' = claimedDev
            /\ settlements[t].worker = q
            /\ pendingPayouts' =
                 [pendingPayouts EXCEPT ![q] = @ - settlements[t].workerShare]
        BY <2>2 DEF ClaimReward
      <3>2. pendingPayouts'[p] = IF p = q THEN pendingPayouts[p] - settlements[t].workerShare
                                 ELSE pendingPayouts[p]
        BY <3>1 DEF TypeOK
      <3>3. QED
        BY <1>1, <1>2, <2>1, <3>1, <3>2 DEF Unpaid
    <2>3. CASE ClaimDeveloperReward(t, q)
      <3>1. /\ t \notin claimedDev /\ t \in claimedDev' /\ claimedWorker' = claimedWorker
            /\ settlements[t].developer = q
            /\ pendingPayouts' =
                 [pendingPayouts EXCEPT ![q] = @ - settlements[t].developerShare]
        BY <2>3 DEF ClaimDeveloperReward
      <3>2. pendingPayouts'[p] = IF p = q THEN pendingPayouts[p] - settlements[t].developerShare
                                 ELSE pendingPayouts[p]
        BY <3>1 DEF TypeOK
      <3>3. QED
        BY <1>1, <1>2, <2>1, <3>1, <3>2 DEF Unpaid
    <2>4. QED
      BY <2>2, <2>3
  <1>7. \A p \in Accounts :
          pendingPayouts'[p] >= pendingPayouts[p] + Unpaid(p, t)' - Unpaid(p, t)
    BY <1>6 DEF TypeOK
  <1>8. QED
    BY <1>4, <1>5, <1>6, <1>7, PendingMoves

LEMMA NextShares == SharesInv /\ [Next]_vars => PendingMatchesClaims'
  <1> SUFFICES ASSUME SharesInv, [Next]_vars PROVE PendingMatchesClaims'
    OBVIOUS
  <1>1. TypeOK'
    BY NextTypeOK DEF SharesInv
  <1>2. ASSUME UNCHANGED <<lifecycle, pendingPayouts>> PROVE PendingMatchesClaims'
    BY <1>2, UnclaimedSame DEF SharesInv, PendingMatchesClaims, lifecycle
  <1>3. CASE UserStep
    BY <1>2, <1>3 DEF UserStep, Deposit, Withdraw
  <1>4. CASE OwnerStep
    BY <1>2, <1>4 DEF OwnerStep, RegisterDeveloper, SetGateway, funds
  <1>5. CASE OracleStep
    BY <1>1, <1>2, <1>5, RefundShares DEF OracleStep, Authorise, IssuePoT, Sign, funds
  <1>6. CASE SettleStep
    BY <1>1, <1>6, SettleShares DEF SettleStep
  <1>7. CASE ClaimStep
    BY <1>1, <1>2, <1>7, ClaimShares DEF ClaimStep, ClaimTreasuryFees
  <1>8. CASE Tick
    BY <1>2, <1>8 DEF Tick, funds
  <1>9. CASE UNCHANGED vars
    BY <1>2, <1>9 DEF vars, funds
  <1>10. QED
    BY <1>3, <1>4, <1>5, <1>6, <1>7, <1>8, <1>9 DEF Next

LEMMA SharesInvariant == Spec => []SharesInv
  <1>1. Init => SharesInv
    BY InitTypeOK, InitEscrow, InitSnapshots, InitShares DEF SharesInv
  <1>2. SharesInv /\ [Next]_vars => SharesInv'
    BY NextTypeOK, NextEscrow, NextSnapshots, NextShares DEF SharesInv
  <1>3. QED
    BY <1>1, <1>2, PTL DEF Spec

(* For any tasks, parties and amounts, and whatever roles coincide, the    *)
(* payouts pending of a party cover the shares it may still claim, and are *)
(* exactly those unless it was worker and developer of one task.           *)
THEOREM PendingSafe == Spec => []PendingMatchesClaims
  BY SharesInvariant, PTL DEF SharesInv

-----------------------------------------------------------------------------
(***************************************************************************)
(* What is owed and what is held.  A refund is the only action that moves  *)
(* the two apart, and by no more than the term of its task in what refunds *)
(* have left out.                                                          *)
(***************************************************************************)
Shortfall == SumFunctionOnSet([t \in Tasks |-> LeftOut(t)], Tasks)

LEMMA OwedType ==
  ASSUME TypeOK
  PROVE  /\ SumFunctionOnSet(balances, Accounts) \in Nat
         /\ SumFunctionOnSet(pendingPayouts, Accounts) \in Nat
         /\ Liabilities \in Nat /\ held \in Nat /\ treasuryFees \in Nat
  <1>1. /\ IsFiniteSet(Accounts)
        /\ \A a \in Accounts : balances[a] \in Nat
        /\ \A a \in Accounts : pendingPayouts[a] \in Nat
    BY GatewayAssumption DEF TypeOK
  <1>2. /\ SumFunctionOnSet(balances, Accounts) \in Nat
        /\ SumFunctionOnSet(pendingPayouts, Accounts) \in Nat
    BY <1>1, SumNat
  <1>3. QED
    BY <1>2 DEF Liabilities, TypeOK

(* One party's entry of a mapping changes, or none does.                   *)
LEMMA EntryChange ==
  ASSUME NEW f, NEW g, NEW a \in Accounts,
         \A x \in Accounts : f[x] \in Int /\ g[x] \in Int,
         \A x \in Accounts : x # a => g[x] = f[x]
  PROVE  /\ SumFunctionOnSet(g, Accounts) = SumFunctionOnSet(f, Accounts) + g[a] - f[a]
         /\ SumFunctionOnSet(f, Accounts) \in Int /\ SumFunctionOnSet(g, Accounts) \in Int
  <1>1. IsFiniteSet(Accounts)
    BY GatewayAssumption
  <1>2. SumFunctionOnSet(f, Accounts) \in Int /\ SumFunctionOnSet(g, Accounts) \in Int
    BY <1>1, SumRemoves
  <1>3. SumFunctionOnSet(g, Accounts) = SumFunctionOnSet(f, Accounts) + g[a] - f[a]
    BY <1>1, SumChange
  <1>4. QED
    BY <1>2, <1>3

LEMMA CreditedSum ==
  ASSUME NEW f \in [Accounts -> Nat], NEW s \in TaskSettlement, s.worker \in Accounts,
         s.developer = NoAddr => s.developerShare = 0
  PROVE  SumFunctionOnSet(Credited(f, s), Accounts)
           = SumFunctionOnSet(f, Accounts) + s.workerShare + s.developerShare
  <1> DEFINE g == [x \in Accounts |-> f[x] + (IF x = s.worker THEN s.workerShare ELSE 0)]
             h == Credited(f, s)
  <1>1. /\ s.workerShare \in Nat /\ s.developerShare \in Nat
        /\ s.developer \in Accounts \cup {NoAddr}
    BY SettlementFields
  <1>2. /\ \A x \in Accounts : f[x] \in Int /\ g[x] \in Int
        /\ \A x \in Accounts : x # s.worker => g[x] = f[x]
        /\ g[s.worker] = f[s.worker] + s.workerShare
    BY <1>1
  <1>3. /\ \A x \in Accounts : h[x] \in Int
        /\ \A x \in Accounts : x # s.developer => h[x] = g[x]
        /\ s.developer \in Accounts =>
             h[s.developer] = g[s.developer] + s.developerShare
    BY <1>1 DEF Credited
  <1> HIDE DEF g, h
  <1>4. /\ SumFunctionOnSet(g, Accounts)
             = SumFunctionOnSet(f, Accounts) + g[s.worker] - f[s.worker]
        /\ SumFunctionOnSet(f, Accounts) \in Int /\ SumFunctionOnSet(g, Accounts) \in Int
    BY <1>2, EntryChange
  <1>5. CASE s.developer = NoAddr
    <2>1. \A x \in Accounts : h[x] = g[x]
      BY <1>3, <1>5, GatewayAssumption
    <2>2. SumFunctionOnSet(h, Accounts) = SumFunctionOnSet(g, Accounts)
      BY <1>2, <2>1, SumSame, GatewayAssumption
    <2>3. QED
      BY <1>1, <1>2, <1>4, <1>5, <2>2 DEF h
  <1>6. CASE s.developer \in Accounts
    <2>1. SumFunctionOnSet(h, Accounts)
            = SumFunctionOnSet(g, Accounts) + h[s.developer] - g[s.developer]
      BY <1>2, <1>3, <1>6, EntryChange
    <2>2. /\ h[s.developer] = g[s.developer] + s.developerShare
          /\ g[s.developer] \in Int /\ f[s.worker] \in Int
      BY <1>2, <1>3, <1>6
    <2>3. SumFunctionOnSet(h, Accounts)
            = SumFunctionOnSet(f, Accounts) + s.workerShare + s.developerShare
      BY <1>1, <1>2, <1>4, <2>1, <2>2
    <2>4. QED
      BY <2>3 DEF h
  <1>7. QED
    BY <1>1, <1>5, <1>6

(* A refund takes both shares back, the worker's only if somebody else is  *)
(* the developer.                                                          *)
LEMMA RevertedSum ==
  ASSUME NEW f \in [Accounts -> Nat], NEW s \in TaskSettlement, s.worker \in Accounts,
         s.developer = NoAddr => s.developerShare = 0,
         f[s.worker] >= s.workerShare,
         s.developer \in Accounts => f[s.developer] >= s.developerShare
  PROVE  SumFunctionOnSet(Reverted(f, s), Accounts)
           = SumFunctionOnSet(f, Accounts) - s.developerShare
               - (IF s.worker = s.developer THEN 0 ELSE s.workerShare)
  <1> DEFINE kept == IF s.worker = s.developer THEN 0 ELSE s.workerShare
             g == [x \in Accounts |-> f[x] - (IF x = s.worker THEN kept ELSE 0)]
             h == Reverted(f, s)
  <1>1. /\ s.workerShare \in Nat /\ s.developerShare \in Nat /\ kept \in Nat
        /\ s.developer \in Accounts \cup {NoAddr}
    BY SettlementFields
  <1>2. /\ \A x \in Accounts : f[x] \in Int /\ g[x] \in Int
        /\ \A x \in Accounts : x # s.worker => g[x] = f[x]
        /\ g[s.worker] = f[s.worker] - kept
    BY <1>1
  <1>3. /\ \A x \in Accounts : h[x] \in Int
        /\ \A x \in Accounts : x # s.developer => h[x] = g[x]
        /\ s.developer \in Accounts =>
             h[s.developer] = g[s.developer] - s.developerShare
    BY <1>1 DEF Reverted, Unwind
  <1> HIDE DEF g, h
  <1>4. /\ SumFunctionOnSet(g, Accounts)
             = SumFunctionOnSet(f, Accounts) + g[s.worker] - f[s.worker]
        /\ SumFunctionOnSet(f, Accounts) \in Int /\ SumFunctionOnSet(g, Accounts) \in Int
    BY <1>2, EntryChange
  <1> HIDE DEF kept
  <1>5. SumFunctionOnSet(g, Accounts) = SumFunctionOnSet(f, Accounts) - kept
    BY <1>1, <1>2, <1>4
  <1>6. SumFunctionOnSet(h, Accounts) = SumFunctionOnSet(g, Accounts) - s.developerShare
    <2>1. CASE s.developer = NoAddr
      <3>1. \A x \in Accounts : h[x] = g[x]
        BY <1>3, <2>1, GatewayAssumption
      <3>2. SumFunctionOnSet(h, Accounts) = SumFunctionOnSet(g, Accounts)
        BY <1>2, <3>1, SumSame, GatewayAssumption
      <3>3. QED
        BY <1>4, <2>1, <3>2
    <2>2. CASE s.developer \in Accounts
      <3>1. SumFunctionOnSet(h, Accounts)
              = SumFunctionOnSet(g, Accounts) + h[s.developer] - g[s.developer]
        BY <1>2, <1>3, <2>2, EntryChange
      <3>2. QED
        BY <1>1, <1>2, <1>3, <1>4, <2>2, <3>1
    <2>3. QED
      BY <1>1, <2>1, <2>2
  <1>7. SumFunctionOnSet(h, Accounts)
          = SumFunctionOnSet(f, Accounts) - s.developerShare - kept
    BY <1>1, <1>4, <1>5, <1>6
  <1>8. QED
    BY <1>7 DEF h, kept

LEMMA LeftOutType ==
  ASSUME TypeOK, NEW t \in Tasks
  PROVE  LeftOut(t) \in Nat
  <1>1. settlements[t].treasuryShare \in Nat /\ settlements[t].workerShare \in Nat
    BY SettlementFields DEF TypeOK
  <1>2. QED
    BY <1>1 DEF LeftOut

LEMMA ShortfallType ==
  ASSUME TypeOK
  PROVE  Shortfall \in Nat
  <1> DEFINE f == [t \in Tasks |-> LeftOut(t)]
  <1>1. IsFiniteSet(Tasks) /\ \A t \in Tasks : f[t] \in Nat
    BY LeftOutType, GatewayAssumption
  <1> HIDE DEF f
  <1>2. SumFunctionOnSet(f, Tasks) \in Nat
    BY <1>1, SumNat
  <1>3. QED
    BY <1>2 DEF Shortfall, f

(* No action but a refund changes what refunds have left out.              *)
LEMMA ShortfallSame ==
  ASSUME \A t \in Tasks : LeftOut(t)' = LeftOut(t)
  PROVE  Shortfall' = Shortfall
  BY DEF Shortfall

ShortfallInv == SharesInv /\ ShortfallIsFromRefunds

LEMMA InitShortfall == Init => ShortfallIsFromRefunds
  <1> SUFFICES ASSUME Init PROVE ShortfallIsFromRefunds
    OBVIOUS
  <1> DEFINE f == [t \in Tasks |-> LeftOut(t)]
  <1>1. /\ \A a \in Accounts : balances[a] = 0 /\ pendingPayouts[a] = 0
        /\ \A t \in Tasks : f[t] = 0
        /\ held = 0 /\ treasuryFees = 0
    BY DEF Init, LeftOut
  <1>2. IsFiniteSet(Accounts) /\ IsFiniteSet(Tasks)
    BY GatewayAssumption
  <1> HIDE DEF f
  <1>3. /\ SumFunctionOnSet(balances, Accounts) = 0
        /\ SumFunctionOnSet(pendingPayouts, Accounts) = 0
        /\ SumFunctionOnSet(f, Tasks) = 0
    BY <1>1, <1>2, SumZero
  <1>4. QED
    BY <1>1, <1>3 DEF ShortfallIsFromRefunds, Liabilities, f

(* An action that leaves both what is owed less what is held, and what     *)
(* refunds have left out, as they were.                                    *)
LEMMA Balanced ==
  ASSUME ShortfallInv, TypeOK', \A t \in Tasks : LeftOut(t)' = LeftOut(t),
         NEW b \in Int, NEW p \in Int,
         SumFunctionOnSet(balances', Accounts) = SumFunctionOnSet(balances, Accounts) + b,
         SumFunctionOnSet(pendingPayouts', Accounts)
           = SumFunctionOnSet(pendingPayouts, Accounts) + p,
         held' - held = b + p + (treasuryFees' - treasuryFees)
  PROVE  ShortfallIsFromRefunds'
  <1>1. Shortfall' = Shortfall /\ Shortfall \in Nat
    BY ShortfallSame, ShortfallType DEF ShortfallInv, SharesInv
  <1>2. /\ SumFunctionOnSet(balances, Accounts) \in Nat
        /\ SumFunctionOnSet(pendingPayouts, Accounts) \in Nat
        /\ held \in Nat /\ treasuryFees \in Nat
    BY OwedType DEF ShortfallInv, SharesInv
  <1>3. held' \in Nat /\ treasuryFees' \in Nat
    BY DEF TypeOK
  <1>4. Liabilities' - held' = Liabilities - held
    BY <1>2, <1>3 DEF Liabilities
  <1>5. Liabilities \in Int /\ Liabilities' \in Int
    BY <1>2, <1>3 DEF Liabilities
  <1>6. held <= Liabilities /\ Liabilities <= held + Shortfall
    BY DEF ShortfallInv, ShortfallIsFromRefunds, Shortfall
  <1>7. held' <= Liabilities' /\ Liabilities' <= held' + Shortfall'
    <2>1. \A l, m, h, g, x \in Int : (m - g = l - h) /\ h <= l /\ l <= h + x
                                     => g <= m /\ m <= g + x
      OBVIOUS
    <2>2. held \in Int /\ held' \in Int /\ Shortfall \in Int
      BY <1>1, <1>2, <1>3
    <2>3. QED
      BY <1>1, <1>4, <1>5, <1>6, <2>1, <2>2, Zenon
  <1>8. QED
    BY <1>7 DEF ShortfallIsFromRefunds, Shortfall

LEMMA LeftOutSame ==
  ASSUME UNCHANGED <<taskStatus, settlements>>
  PROVE  \A t \in Tasks : LeftOut(t)' = LeftOut(t)
  BY DEF LeftOut, WasBoth

LEMMA UserShortfall ==
  ASSUME ShortfallInv, TypeOK', NEW u \in Users, NEW a \in DepositAmounts,
         Deposit(u, a) \/ Withdraw(u, a)
  PROVE  ShortfallIsFromRefunds'
  <1>1. TypeOK /\ u \in Accounts /\ a \in Nat
    BY GatewayAssumption DEF ShortfallInv, SharesInv
  <1> DEFINE b == held' - held
  <1>2. b \in Int /\ UNCHANGED <<pendingPayouts, treasuryFees, lifecycle>>
    BY <1>1 DEF Deposit, Withdraw, TypeOK
  <1>3. /\ \A x \in Accounts : balances[x] \in Int /\ balances'[x] \in Int
        /\ \A x \in Accounts : x # u => balances'[x] = balances[x]
        /\ balances'[u] = balances[u] + b
    <2>1. CASE Deposit(u, a)
      BY <1>1, <2>1 DEF Deposit, TypeOK
    <2>2. CASE Withdraw(u, a)
      BY <1>1, <2>2 DEF Withdraw, SafeTransfer, TypeOK
    <2>3. QED
      BY <2>1, <2>2
  <1>4. SumFunctionOnSet(balances', Accounts) = SumFunctionOnSet(balances, Accounts) + b
    <2>1. /\ SumFunctionOnSet(balances', Accounts)
               = SumFunctionOnSet(balances, Accounts) + balances'[u] - balances[u]
          /\ SumFunctionOnSet(balances, Accounts) \in Int
      BY <1>1, <1>3, EntryChange
    <2> HIDE DEF b
    <2>2. QED
      BY <1>1, <1>2, <1>3, <2>1
  <1>5. SumFunctionOnSet(pendingPayouts', Accounts)
          = SumFunctionOnSet(pendingPayouts, Accounts) + 0
    BY <1>1, <1>2, OwedType
  <1>6. held' - held = b + 0 + (treasuryFees' - treasuryFees)
    BY <1>1, <1>2 DEF TypeOK
  <1>7. \A t \in Tasks : LeftOut(t)' = LeftOut(t)
    BY <1>2, LeftOutSame DEF lifecycle
  <1> HIDE DEF b
  <1>8. QED
    BY <1>2, <1>4, <1>5, <1>6, <1>7, Balanced

LEMMA SettleShortfall ==
  ASSUME ShortfallInv, TypeOK',
         NEW t \in Tasks, NEW u \in Users, NEW w \in Workers, NEW k \in Skills,
         NEW a \in TaskAmounts, NEW n \in Nonces, NEW d \in 0..MaxTime,
         SettleTask(t, u, w, k, a, n, d)
  PROVE  ShortfallIsFromRefunds'
  <1> DEFINE s == Split(w, developers[k], a)
  <1>1. /\ TypeOK /\ u \in Accounts /\ w \in Accounts /\ a \in Nat
        /\ developers[k] \in Accounts \cup {NoAddr}
    BY GatewayAssumption DEF ShortfallInv, SharesInv, TypeOK
  <1>2. s \in TaskSettlement
    BY <1>1, SplitType
  <1>3. /\ s.worker \in Accounts
        /\ s.developer = NoAddr => s.developerShare = 0
        /\ a = s.workerShare + s.developerShare + s.treasuryShare
    BY <1>1, SplitAddsUp
  <1>4. s.workerShare \in Nat /\ s.developerShare \in Nat /\ s.treasuryShare \in Nat
    BY <1>2, SettlementFields
  <1> HIDE DEF s
  <1>5. /\ taskStatus[t] = "None"
        /\ taskStatus' = [taskStatus EXCEPT ![t] = "Settled"]
        /\ settlements' = [settlements EXCEPT ![t] = s]
        /\ balances' = [balances EXCEPT ![u] = @ - a]
        /\ pendingPayouts' = Credited(pendingPayouts, s)
        /\ treasuryFees' = treasuryFees + s.treasuryShare
        /\ held' = held
    BY DEF SettleTask, s
  <1>6. SumFunctionOnSet(balances', Accounts) = SumFunctionOnSet(balances, Accounts) + (-a)
    <2>1. /\ \A x \in Accounts : balances[x] \in Int /\ balances'[x] \in Int
          /\ \A x \in Accounts : x # u => balances'[x] = balances[x]
          /\ balances'[u] = balances[u] - a
      BY <1>1, <1>5 DEF TypeOK
    <2>2. /\ SumFunctionOnSet(balances', Accounts)
               = SumFunctionOnSet(balances, Accounts) + balances'[u] - balances[u]
          /\ SumFunctionOnSet(balances, Accounts) \in Int
      BY <1>1, <2>1, EntryChange
    <2>3. QED
      BY <1>1, <2>1, <2>2
  <1>7. SumFunctionOnSet(pendingPayouts', Accounts)
          = SumFunctionOnSet(pendingPayouts, Accounts) + (s.workerShare + s.developerShare)
    <2>1. pendingPayouts \in [Accounts -> Nat]
      BY <1>1 DEF TypeOK
    <2>2. /\ SumFunctionOnSet(Credited(pendingPayouts, s), Accounts)
               = SumFunctionOnSet(pendingPayouts, Accounts) + s.workerShare + s.developerShare
          /\ SumFunctionOnSet(pendingPayouts, Accounts) \in Nat
      BY <1>1, <1>2, <1>3, <2>1, CreditedSum, OwedType
    <2>3. QED
      BY <1>4, <1>5, <2>2
  <1>8. held' - held = (-a) + (s.workerShare + s.developerShare)
                       + (treasuryFees' - treasuryFees)
    BY <1>1, <1>3, <1>4, <1>5 DEF TypeOK
  <1>9. \A x \in Tasks : LeftOut(x)' = LeftOut(x)
    BY <1>1, <1>5 DEF LeftOut, WasBoth, TypeOK
  <1>10. -a \in Int /\ s.workerShare + s.developerShare \in Int
    BY <1>1, <1>4
  <1>11. QED
    BY <1>6, <1>7, <1>8, <1>9, <1>10, Balanced

LEMMA ClaimShortfall ==
  ASSUME ShortfallInv, TypeOK', NEW t \in Tasks, NEW q \in Accounts,
         ClaimReward(t, q) \/ ClaimDeveloperReward(t, q)
  PROVE  ShortfallIsFromRefunds'
  <1>1. TypeOK /\ EscrowLeavesOnce
    BY DEF ShortfallInv, SharesInv
  <1>2. settlements[t].workerShare \in Nat /\ settlements[t].developerShare \in Nat
    BY <1>1, SettlementFields DEF TypeOK
  <1>3. PICK a \in Nat : /\ pendingPayouts' = [pendingPayouts EXCEPT ![q] = @ - a]
                         /\ held' = held - a
                         /\ UNCHANGED <<balances, treasuryFees, settlements>>
    BY <1>2 DEF ClaimReward, ClaimDeveloperReward, SafeTransfer
  <1>4. SumFunctionOnSet(pendingPayouts', Accounts)
          = SumFunctionOnSet(pendingPayouts, Accounts) + (-a)
    <2>1. /\ \A x \in Accounts : pendingPayouts[x] \in Int /\ pendingPayouts'[x] \in Int
          /\ \A x \in Accounts : x # q => pendingPayouts'[x] = pendingPayouts[x]
          /\ pendingPayouts'[q] = pendingPayouts[q] - a
      BY <1>1, <1>3 DEF TypeOK
    <2>2. /\ SumFunctionOnSet(pendingPayouts', Accounts)
               = SumFunctionOnSet(pendingPayouts, Accounts) + pendingPayouts'[q] - pendingPayouts[q]
          /\ SumFunctionOnSet(pendingPayouts, Accounts) \in Int
      BY <2>1, EntryChange
    <2>3. QED
      BY <1>1, <2>1, <2>2
  <1>5. SumFunctionOnSet(balances', Accounts) = SumFunctionOnSet(balances, Accounts) + 0
    BY <1>1, <1>3, OwedType
  <1>6. held' - held = 0 + (-a) + (treasuryFees' - treasuryFees) /\ -a \in Int
    BY <1>1, <1>3 DEF TypeOK
  <1>7. \A x \in Tasks : LeftOut(x)' = LeftOut(x)
    <2>1. taskStatus[t] # "Refunded"
      BY DEF ClaimReward, ClaimDeveloperReward, NotRefunded
    <2>2. /\ taskStatus'[t] # "Refunded"
          /\ \A x \in Tasks \ {t} : taskStatus'[x] = taskStatus[x]
      BY <1>1, <2>1 DEF ClaimReward, ClaimDeveloperReward, StatusAfterClaim, TypeOK
    <2>3. QED
      BY <1>3, <2>1, <2>2 DEF LeftOut, WasBoth
  <1>8. QED
    BY <1>4, <1>5, <1>6, <1>7, Balanced

LEMMA TreasuryShortfall ==
  ASSUME ShortfallInv, TypeOK', ClaimTreasuryFees
  PROVE  ShortfallIsFromRefunds'
  <1>1. /\ TypeOK /\ UNCHANGED <<balances, pendingPayouts, lifecycle>>
        /\ treasuryFees' = 0 /\ held' = held - treasuryFees
    BY DEF ShortfallInv, SharesInv, ClaimTreasuryFees, SafeTransfer
  <1>2. /\ SumFunctionOnSet(balances', Accounts) = SumFunctionOnSet(balances, Accounts) + 0
        /\ SumFunctionOnSet(pendingPayouts', Accounts)
             = SumFunctionOnSet(pendingPayouts, Accounts) + 0
    BY <1>1, OwedType
  <1>3. held' - held = 0 + 0 + (treasuryFees' - treasuryFees)
    BY <1>1 DEF TypeOK
  <1>4. \A t \in Tasks : LeftOut(t)' = LeftOut(t)
    BY <1>1, LeftOutSame DEF lifecycle
  <1>5. QED
    BY <1>2, <1>3, <1>4, Balanced

(* Of what a refund gives back to the user, the parties' shares and the    *)
(* treasury's come from them as far as they are there; the rest is what    *)
(* its task adds to the shortfall.                                         *)
LEMMA RefundShortfall ==
  ASSUME ShortfallInv, TypeOK', NEW t \in Tasks, NEW u \in Users, RequestRefund(t, u)
  PROVE  ShortfallIsFromRefunds'
  <1> DEFINE s == settlements[t]
             kept == IF s.worker = s.developer THEN s.workerShare ELSE 0
             bal == SumFunctionOnSet(balances, Accounts)
             pend == SumFunctionOnSet(pendingPayouts, Accounts)
  <1>1. TypeOK /\ EscrowLeavesOnce /\ Snapshots /\ PendingMatchesClaims /\ u \in Accounts
    BY GatewayAssumption DEF ShortfallInv, SharesInv
  <1>2. s \in TaskSettlement
    BY <1>1 DEF TypeOK
  <1>3. /\ s.workerShare \in Nat /\ s.developerShare \in Nat /\ s.treasuryShare \in Nat
        /\ s.totalAmount \in Nat /\ kept \in Nat
    BY <1>2, SettlementFields
  <1>4. /\ taskStatus[t] = "Settled"
        /\ t \notin claimedWorker /\ t \notin claimedDev
        /\ taskStatus' = [taskStatus EXCEPT ![t] = "Refunded"]
        /\ balances' = [balances EXCEPT ![u] = @ + s.totalAmount]
        /\ pendingPayouts' = Reverted(pendingPayouts, s)
        /\ treasuryFees' = Unwind(treasuryFees, s.treasuryShare)
        /\ UNCHANGED <<held, settlements>>
    BY DEF RequestRefund, RefundTask, Unclaimed
  <1>5. /\ s.worker \in Accounts
        /\ s.developer = NoAddr => s.developerShare = 0
        /\ s.totalAmount = s.workerShare + s.developerShare + s.treasuryShare
    BY <1>1, <1>4 DEF Snapshots
  <1>6. \A p \in Accounts : pendingPayouts[p] \in Nat /\ pendingPayouts[p] >= Unpaid(p, t)
    <2>1. ASSUME NEW p \in Accounts PROVE pendingPayouts[p] >= Unpaid(p, t)
      <3>1. /\ pendingPayouts[p] \in Nat /\ pendingPayouts[p] >= UnclaimedShares(p)
            /\ UnclaimedShares(p) \in Nat
        BY <1>1, UnclaimedType DEF PendingMatchesClaims, TypeOK
      <3>2. Unpaid(p, t) \in Nat /\ Unpaid(p, t) <= UnclaimedShares(p)
        BY <1>1, UnclaimedType, UnpaidType
      <3>3. QED
        BY <3>1, <3>2
    <2>2. QED
      BY <1>1, <2>1 DEF TypeOK
  <1>7. /\ pendingPayouts[s.worker] >= s.workerShare
        /\ s.developer \in Accounts => pendingPayouts[s.developer] >= s.developerShare
    <2>1. Unpaid(s.worker, t) >= s.workerShare /\ Unpaid(s.developer, t) >= s.developerShare
      BY <1>3, <1>4 DEF Unpaid
    <2>2. Unpaid(s.worker, t) \in Nat /\ Unpaid(s.developer, t) \in Nat
      BY <1>1, UnpaidType
    <2>3. QED
      BY <1>3, <1>5, <1>6, <2>1, <2>2
  <1>8. bal \in Nat /\ pend \in Nat /\ Liabilities \in Nat /\ held \in Nat /\ treasuryFees \in Nat
    BY <1>1, OwedType
  <1>9. SumFunctionOnSet(balances', Accounts) = bal + s.totalAmount
    <2>1. /\ \A x \in Accounts : balances[x] \in Int /\ balances'[x] \in Int
          /\ \A x \in Accounts : x # u => balances'[x] = balances[x]
          /\ balances'[u] = balances[u] + s.totalAmount
      BY <1>1, <1>3, <1>4 DEF TypeOK
    <2>2. SumFunctionOnSet(balances', Accounts) = bal + balances'[u] - balances[u]
      BY <1>1, <2>1, EntryChange
    <2>3. QED
      BY <1>1, <1>3, <1>8, <2>1, <2>2
  <1>10. SumFunctionOnSet(pendingPayouts', Accounts)
           = pend - s.developerShare - (s.workerShare - kept)
    <2>1. pendingPayouts \in [Accounts -> Nat]
      BY <1>1 DEF TypeOK
    <2>2. SumFunctionOnSet(Reverted(pendingPayouts, s), Accounts)
            = pend - s.developerShare - (IF s.worker = s.developer THEN 0 ELSE s.workerShare)
      BY <1>2, <1>5, <1>7, <2>1, RevertedSum
    <2>3. (IF s.worker = s.developer THEN 0 ELSE s.workerShare) = s.workerShare - kept
      BY <1>3
    <2>4. QED
      BY <1>4, <2>2, <2>3
  <1>11. Shortfall' = Shortfall + s.treasuryShare + kept /\ Shortfall \in Nat
    <2> DEFINE f == [x \in Tasks |-> LeftOut(x)]
    <2>1. PICK g : g = [x \in Tasks |-> LeftOut(x)']
      OBVIOUS
    <2>2. LeftOut(t) = 0 /\ LeftOut(t)' = s.treasuryShare + kept
      BY <1>1, <1>4, <1>5 DEF LeftOut, WasBoth, TypeOK
    <2>3. \A x \in Tasks : x # t => LeftOut(x)' = LeftOut(x)
      BY <1>1, <1>4 DEF LeftOut, WasBoth, TypeOK
    <2>4. \A x \in Tasks : LeftOut(x) \in Nat
      BY <1>1, LeftOutType
    <2>5. /\ \A x \in Tasks : f[x] \in Int /\ g[x] \in Int
          /\ \A x \in Tasks : x # t => g[x] = f[x]
          /\ f[t] = 0 /\ g[t] = s.treasuryShare + kept
      BY <1>3, <2>1, <2>2, <2>3, <2>4
    <2>6. IsFiniteSet(Tasks)
      BY GatewayAssumption
    <2>7. Shortfall = SumFunctionOnSet(f, Tasks) /\ Shortfall' = SumFunctionOnSet(g, Tasks)
      BY <2>1 DEF Shortfall
    <2> HIDE DEF f
    <2>8. SumFunctionOnSet(g, Tasks) = SumFunctionOnSet(f, Tasks) + g[t] - f[t]
      <3>1. \A x \in Tasks : f[x] \in Int /\ g[x] \in Int
        BY <2>5
      <3>2. \A x \in Tasks : x # t => g[x] = f[x]
        BY <2>5
      <3>3. QED
        BY <2>6, <3>1, <3>2, SumChange
    <2>9. Shortfall \in Nat
      BY <1>1, ShortfallType
    <2>10. QED
      BY <1>3, <2>5, <2>7, <2>8, <2>9
  <1>12. /\ treasuryFees' \in Nat
         /\ treasuryFees' <= treasuryFees
         /\ treasuryFees <= treasuryFees' + s.treasuryShare
    BY <1>3, <1>4, <1>8 DEF Unwind
  <1>13. /\ Liabilities = bal + pend + treasuryFees
         /\ Liabilities' = (bal + s.totalAmount)
                             + (pend - s.developerShare - (s.workerShare - kept)) + treasuryFees'
    BY <1>9, <1>10 DEF Liabilities
  <1>14. held <= Liabilities /\ Liabilities <= held + Shortfall
    BY DEF ShortfallInv, ShortfallIsFromRefunds, Shortfall
  <1> HIDE DEF s, kept, bal, pend
  <1>15. held <= Liabilities' /\ Liabilities' <= held + Shortfall'
    <2>1. Liabilities' = Liabilities + s.treasuryShare + kept - (treasuryFees - treasuryFees')
      BY <1>3, <1>5, <1>8, <1>12, <1>13
    <2>2. QED
      BY <1>3, <1>8, <1>11, <1>12, <1>14, <2>1
  <1>16. QED
    BY <1>4, <1>15 DEF ShortfallIsFromRefunds, Shortfall

LEMMA NextShortfall == ShortfallInv /\ [Next]_vars => ShortfallIsFromRefunds'
  <1> SUFFICES ASSUME ShortfallInv, [Next]_vars PROVE ShortfallIsFromRefunds'
    OBVIOUS
  <1>1. TypeOK'
    BY NextTypeOK DEF ShortfallInv, SharesInv
  <1>2. ASSUME UNCHANGED <<funds, taskStatus, settlements>> PROVE ShortfallIsFromRefunds'
    <2>1. Shortfall' = Shortfall
      BY <1>2, LeftOutSame, ShortfallSame
    <2>2. Liabilities' = Liabilities /\ held' = held
      BY <1>2 DEF funds, Liabilities
    <2>3. QED
      BY <2>1, <2>2 DEF ShortfallInv, ShortfallIsFromRefunds, Shortfall
  <1>3. CASE UserStep
    BY <1>1, <1>3, UserShortfall DEF UserStep
  <1>4. CASE OwnerStep
    BY <1>2, <1>4 DEF OwnerStep, RegisterDeveloper, SetGateway, lifecycle
  <1>5. CASE OracleStep
    BY <1>1, <1>2, <1>5, RefundShortfall DEF OracleStep, Authorise, IssuePoT, Sign, lifecycle
  <1>6. CASE SettleStep
    BY <1>1, <1>6, SettleShortfall DEF SettleStep
  <1>7. CASE ClaimStep
    BY <1>1, <1>7, ClaimShortfall, TreasuryShortfall DEF ClaimStep
  <1>8. CASE Tick
    BY <1>2, <1>8 DEF Tick, lifecycle
  <1>9. CASE UNCHANGED vars
    BY <1>2, <1>9 DEF vars, lifecycle
  <1>10. QED
    BY <1>3, <1>4, <1>5, <1>6, <1>7, <1>8, <1>9 DEF Next

(* For any users, parties, amounts and order of transactions, what the     *)
(* contract owes is at least what it holds, and exceeds it by no more than *)
(* what refunds have left with the treasury and with parties of two roles. *)
THEOREM ShortfallSafe == Spec => []ShortfallIsFromRefunds
  <1>1. Init => ShortfallIsFromRefunds
    BY InitShortfall
  <1>2. SharesInv /\ ShortfallIsFromRefunds /\ [Next]_vars => ShortfallIsFromRefunds'
    BY NextShortfall DEF ShortfallInv
  <1>3. QED
    BY <1>1, <1>2, SharesInvariant, PTL DEF Spec

-----------------------------------------------------------------------------
(* Refinement of EscrowPromise.                                            *)
LEMMA InitPromise == Init => Promise!Init
  BY DEF Init, Promise!Init, escrowBar, collectedBar

LEMMA BarsUntouched ==
  ASSUME UNCHANGED <<taskStatus, claimedWorker, claimedDev>>
  PROVE  UNCHANGED <<escrowBar, collectedBar>>
  BY DEF escrowBar, collectedBar

LEMMA SettlePromise ==
  ASSUME TypeOK, EscrowLeavesOnce,
         NEW t \in Tasks, NEW u \in Users, NEW w \in Workers, NEW k \in Skills,
         NEW a \in TaskAmounts, NEW n \in Nonces, NEW d \in 0..MaxTime,
         SettleTask(t, u, w, k, a, n, d)
  PROVE  Promise!Hold(t)
  <1>1. /\ taskStatus[t] = "None"
        /\ taskStatus' = [taskStatus EXCEPT ![t] = "Settled"]
        /\ claimedWorker' = claimedWorker /\ claimedDev' = claimedDev
    BY DEF SettleTask
  <1>2. escrowBar[t] = "none" /\ escrowBar' = [escrowBar EXCEPT ![t] = "held"]
    BY <1>1 DEF escrowBar, TypeOK
  <1>3. collectedBar' = collectedBar
    BY <1>1 DEF collectedBar
  <1>4. QED
    BY <1>2, <1>3 DEF Promise!Hold

LEMMA RefundPromise ==
  ASSUME TypeOK, EscrowLeavesOnce, NEW t \in Tasks, NEW u \in Users, RequestRefund(t, u)
  PROVE  Promise!Return(t)
  <1>1. /\ taskStatus[t] = "Settled"
        /\ t \notin claimedWorker /\ t \notin claimedDev
        /\ taskStatus' = [taskStatus EXCEPT ![t] = "Refunded"]
        /\ claimedWorker' = claimedWorker /\ claimedDev' = claimedDev
    BY DEF RequestRefund, RefundTask, Unclaimed
  <1>2. escrowBar[t] = "held" /\ escrowBar' = [escrowBar EXCEPT ![t] = "returned"]
    BY <1>1 DEF escrowBar, TypeOK
  <1>3. collectedBar[t] = {} /\ collectedBar' = collectedBar
    BY <1>1 DEF collectedBar
  <1>4. QED
    BY <1>2, <1>3 DEF Promise!Return

LEMMA ClaimPromise ==
  ASSUME TypeOK, EscrowLeavesOnce, NEW t \in Tasks, NEW p \in Accounts,
         ClaimReward(t, p) \/ ClaimDeveloperReward(t, p)
  PROVE  \E q \in Promise!Party : Promise!Collect(t, q)
  <1>1. taskStatus[t] \in {"Settled", "Claimed"}
    BY GatewayAssumption
    DEF ClaimReward, ClaimDeveloperReward, NotRefunded, EscrowLeavesOnce, NoSettlement,
        TypeOK, TaskStatus
  <1>2. taskStatus' \in [Tasks -> TaskStatus]
        /\ taskStatus'[t] \in {"Settled", "Claimed"}
        /\ \A x \in Tasks \ {t} : taskStatus'[x] = taskStatus[x]
    BY <1>1 DEF ClaimReward, ClaimDeveloperReward, StatusAfterClaim, TypeOK, TaskStatus
  <1>3. escrowBar[t] = "held" /\ escrowBar' = escrowBar
    BY <1>1, <1>2 DEF escrowBar, TypeOK
  <1>4. CASE ClaimReward(t, p)
    <2>1. t \notin claimedWorker /\ claimedWorker' = claimedWorker \cup {t}
          /\ claimedDev' = claimedDev
      BY <1>4 DEF ClaimReward
    <2>2. "worker" \notin collectedBar[t]
          /\ collectedBar' = [collectedBar EXCEPT ![t] = @ \cup {"worker"}]
      BY <2>1 DEF collectedBar
    <2>3. QED
      BY <1>3, <2>2 DEF Promise!Collect, Promise!Party
  <1>5. CASE ClaimDeveloperReward(t, p)
    <2>1. t \notin claimedDev /\ claimedDev' = claimedDev \cup {t}
          /\ claimedWorker' = claimedWorker
      BY <1>5 DEF ClaimDeveloperReward
    <2>2. "developer" \notin collectedBar[t]
          /\ collectedBar' = [collectedBar EXCEPT ![t] = @ \cup {"developer"}]
      BY <2>1 DEF collectedBar
    <2>3. QED
      BY <1>3, <2>2 DEF Promise!Collect, Promise!Party
  <1>6. QED
    BY <1>4, <1>5

LEMMA StepPromise ==
  TypeOK /\ EscrowLeavesOnce /\ [Next]_vars
    => [Promise!Next]_<<escrowBar, collectedBar>>
  <1> SUFFICES ASSUME TypeOK, EscrowLeavesOnce, [Next]_vars
               PROVE  [Promise!Next]_<<escrowBar, collectedBar>>
    OBVIOUS
  <1>1. CASE UserStep
    BY <1>1, BarsUntouched DEF UserStep, Deposit, Withdraw, lifecycle
  <1>2. CASE OwnerStep
    BY <1>2, BarsUntouched DEF OwnerStep, RegisterDeveloper, SetGateway, lifecycle
  <1>3. CASE OracleStep
    BY <1>3, BarsUntouched, RefundPromise
    DEF OracleStep, Authorise, IssuePoT, Sign, lifecycle, Promise!Next
  <1>4. CASE SettleStep
    BY <1>4, SettlePromise DEF SettleStep, Promise!Next
  <1>5. CASE ClaimStep
    BY <1>5, BarsUntouched, ClaimPromise
    DEF ClaimStep, ClaimTreasuryFees, lifecycle, Promise!Next
  <1>6. CASE Tick
    BY <1>6, BarsUntouched DEF Tick, lifecycle
  <1>7. CASE UNCHANGED vars
    BY <1>7, BarsUntouched DEF vars, lifecycle
  <1>8. QED
    BY <1>1, <1>2, <1>3, <1>4, <1>5, <1>6, <1>7 DEF Next

(* The contract implements the one-escrow, one-outcome promise: every      *)
(* transaction is a Hold, a Return, a Collect, or invisible to it.         *)
THEOREM ContractImplementsPromise == Spec => ImplementsPromise
  <1>1. Spec => [](TypeOK /\ EscrowLeavesOnce)
    BY TypeCorrect, EscrowSafe, PTL
  <1>2. QED
    BY <1>1, InitPromise, StepPromise, PTL DEF Spec, ImplementsPromise, Promise!Spec
=============================================================================
