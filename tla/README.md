# A TLA+ model of the AIMS gateway

AIMS is a market for paid agent skills. A consumer asks the gateway to run a
skill; a worker claims the task, executes it and submits the result; the gateway
checks the result, pays the worker out of an escrow in its own books, and charges
the consumer on a settlement contract that splits the price between worker,
developer and treasury. This directory models the parts of that program whose
state several actors change, checks them with TLC and proves the facts that
matter most with TLAPS. Paths are relative to the repository root.

To check: `tlc -config <cfg> <MC module>` for a run, `tlapm <module>` for a
module of proofs. `PROJECT.json` lists the components, the runs, for each property
a mutation of the model that breaks it, the source lines of each definition, the
hazards and the theorems.

## 1. Inventory

### What is modelled

| Component | Source | State it keeps | Operations | What makes it correct |
|---|---|---|---|---|
| Settlement contract | `contracts/AIMSAgentGateway.sol` | deposits, status and snapshot per task, pending payouts per party, treasury fees, claim flags, nonces, gateway address | deposit, withdraw, registerDeveloper, settleTask, refundTask, claimReward, claimDeveloperReward, claimTreasuryFees, setGateway | one task's escrow leaves once; aggregates agree with snapshots; what is owed is held |
| Task broker | `src/gateway/broker.py` | tasks, statuses, results, counter, and their copies in Redis | publish, claim, claim-specific, complete, check_timeouts, set_pot_signature, recovery | one claimant at a time, steps in order, one end; no hold without its task; no lost context after a restart |
| Submit path | `src/gateway/server.py` | locals of each handler between awaits | run, claim, submit (eight awaits) | the claimant is paid, the consumer is charged once, success is paid |
| Worker | `src/worker/worker.py` | the task it works on | claim, execute, submit with retries | a retry harms nobody |
| Canary | `src/gateway/canary.py` | a one-use token per task; a blacklist | record, verify, blacklist | honest work passes |
| Circuit breaker | `src/gateway/circuit_breaker.py` | state, two failure counts, time of the last change; part of it in Redis | record failure and success, can_pass, pause, reset, restart | it degrades in time and isolates for cause only |
| Chain listener, settlement feed | `src/gateway/chain_listener.py`, `src/gateway/server.py` | a cursor, in memory or Redis; a bounded buffer; a position per stream | polls over a chain and in memory, decoding, dispatch, restart; broadcast; stream | no event is passed over unread, none is shown out of order, streams catch up |
| Mock ledger | `src/ledger/mock_counter.py` | balances, holds, stakes, strikes, ratings; copies in Redis | seeds, stake, penalty, freeze and settle, hold and release, rating | no money made or lost, also across crashes |
| Transaction ledger | `src/gateway/ledger.py` | transactions, ids per user, a counter in Redis | record | histories name stored records |
| Billing and commerce engines | `src/gateway/billing.py` | three pools, prices, phase, spend | purchases, seeding, charge_and_settle in four modes, refund | money is conserved, proofs match settlements |
| In-memory contract | `src/chain/contract_client.py` | as the settlement contract, in dictionaries | the same | the same, although nothing is locked |
| Trial gate, proofs of task | `src/gateway/trial.py`, `src/chain/pot.py` | executions per user and skill, passes; one proof per task and party | enforce; generate | one trial each; a proof can be claimed with |
| Task market, vaults, wallet endpoints, licence keys | `src/gateway/server.py`, `src/gateway/licensing.py` | a vault and a key per task, developers and their splits, credit scores, local deposits, wallet history | publish, run, simulated payment, boost, settlement, penalty, upload and registration of skills, integration, deposit, withdraw | a vault holds what was paid in; a published task has its vault; one key per task; a wallet agrees with its history |
| Skill registry and store | `src/skills/registry.py`, `src/gateway/skill_store.py` | a cache of manifests; uploads in Redis and on disk | load on the event loop and in threads, install, upload, start | an upload is served, by this process and the next |
| Accounts and API keys | `src/gateway/database.py`, `src/gateway/server.py` | rows of users and keys, locals of requests, a limiter per spelling of a wallet's address | register, wallet login and link, profile, create and revoke keys, the middleware | an address names one account, a wallet logs in to its own, a revoked key lets nobody in |
| Bounty adapter and sniper | `scripts/bounty_adapter.py`, `scripts/gitcoin_sniper.py` | a cache of postings; ids seen; clones, branches and pull requests on disk and at GitHub | gather from three sources, serve; poll, evaluate, clone, attempt, deliver | one offer per link, one pull request per bounty, none holds up the others |

The behaviours that are hard, and hard to test. `publish_task` gives up its lock
between two critical sections and writes to Redis outside it. A process can die
between any two writes. A worker repeats a submission whose answer it did not
hear, so that duplicates are handled at once, each with eight awaits at which
anything may run. The contracts keep aggregate balances next to per-task
snapshots and unwind the one from the other. The engines read, compare and write
pools and balances in threads without a lock. The breaker and the ledgers keep
numbers in memory and in Redis that are saved at different moments. Endpoints
look something up, hash or await, and act on what they saw. Streams index a buffer
that forgets its beginning. `PROJECT.json` lists each of these at its line, with
the properties that would notice it going wrong.

### How the components interact

```
consumer --run/publish--> server --enforce--> trial gate
                            |--publish_task--> broker --freeze--> mock ledger
worker --claim/submit-----> |--complete_task-> broker
                            |--verify--------> canary, judge --> breaker
                            |--release_escrow> mock ledger
                            |--charge--------> commerce --> billing --> contract
                            |--settle vault--> market: vaults, developers, history
                            |--broadcast-----> settlement feed ----> streams
worker, developer, treasury ----claim with a proof of task----------> contract
contract --events--> chain listener --broadcast--> settlement feed
breaker  --transitions---------------broadcast--> settlement feed
people   --log in, keys, uploads--> server: accounts, registry and store
sniper   --poll--> adapter --> sources;  sniper --> git, GitHub
```

Everything above the contract runs in one asyncio process. A handler is not
interrupted between two awaits; an await hands one operation to a pool of
threads, where operations of several handlers run at the same time.

### What is not modelled

| Component | Source | Why |
|---|---|---|
| Sandbox, in-process worker loop | `src/runtime/sandbox.py` | in the plan (section 7): a second consumer of the broker that releases escrow itself |
| Legacy contract | `contracts/AIMS_Settlement.sol` | in the plan, after the contract that replaced it |
| Audit log and Merkle tree, router | `src/ledger/log.py`, `src/ledger/merkle.py`, `src/gateway/router.py` | in the plan as pure functions |
| Bootstrap and signer of a worker | `src/worker/bootstrap.py`, `src/worker/utils/signer.py` | in the plan for the retries; the rest formats and signs |
| Jail and ranking of skills | `src/skills/registry.py` | only the demonstration `src/main.py` and the router record executions; the gateway jails nothing |
| Nonce manager | `src/chain/nonce_manager.py` | `consume` is a get and a set, so two threads may get one nonce; the contracts pair it with the task, which is charged once, so that nothing depends on it |
| Web3 client | `src/chain/contract_client.py` | forwards to the contract, which is modelled |
| Judge's prompts and remote model | `src/judge/judge_agent.py` | a verdict is a choice |
| Wallets, EIP-712, ABI | `src/chain/` | encoding and hashing |
| Dashboard, CLI, MCP server, web pages, scripts | `src/skills/dashboard_skill.py`, `src/cli/`, `src/client/`, `scripts/` | fixed demonstrations and clients without shared state |

## 2. Modules

`MC<Module>` extends `<Module>` with the model values of its `.cfg` files. Mutants
stand before the definition they replace, and say so.

### EscrowPromise, AgentGateway, AgentGatewayProofs, Sums

`EscrowPromise` is what the contract promises of one task: the escrow is held
once, then either collected by two parties, once each, or returned whole while
nobody has collected.

`AgentGateway` has one action per external function, every `require` a conjunct
of its guard, since a transaction is atomic and a reverted one changes nothing.
A signature is the tuple it recovers to, and `sigs` are those the gateway's key
has made. `Split`, `Unwind`, `Credited` and `Reverted` are the arithmetic. In
`Reverted` both payouts are read before either is written, as in the source.
`held` is what `usdc.balanceOf` answers, to compare it with what is owed. `Sums`
has the lemmas about sums over finite sets that the proofs about money share.

### TaskLifecycle, TaskBroker, TaskBrokerProofs

`TaskLifecycle` is what the broker promises of a task: PENDING, CLAIMED by one
worker, back to PENDING after a pipeline step or a timeout, and one end.

`TaskBroker` is the broker with its lock and its Redis. `publish_task` is the hold,
the number, the insertion and three writes that each serialise first and arrive
later. The other operations keep the lock while they write: their changes to
memory are one step, and what they must write is left in `todo`, one command a
step; the success of a pipeline step writes its context first and advances in a
step of its own. `CrashAndRestart` empties the threads and loads memory from
Redis the way `_load_state` does. `old` are the tasks claimed `CLAIM_TIMEOUT` ago,
which become so at any time. `Recycled` are the writes that
`check_timeouts` owes, in the order it finds the tasks.

### SubmitFlow, SubmitFlowProofs

Workers, requests and handlers between a claim and the settlement. An action is
the code of a handler up to and including one await. An answer may arrive, be
lost or come late, whereupon the worker sends again. The broker is the atomic one
of `TaskLifecycle`, which is sound because `TaskBroker` implements it. A crash
ends every handler, and `cut` notes the tasks it kept a handler from paying. A
result is good, fails the schema or fails the judge, and a skill may or may not pass
the canary token through. The breaker's count may be refused by Redis
(`record_failure` raises): then the request ends in an error 500 before anything is
refunded or completed, and the task stays CLAIMED; `Gate` has both outcomes.

### CircuitBreaker, SettlementFeed, SettlementFeedProofs

The breaker with both stores. An operation changes the memory in one step and leaves
in `todo` what it has still to do: the failure count, the state and its time stamp
are three Redis commands, each a step, before the callback tells the feed. A crash
falls between any two of them, and a restart loads what had arrived, for example a
full count with the state CLOSED. Redis keeps the text `"0"`, quotes included, that
`Storage.set` writes after a success, and `INCR` refuses it: `record_failure`
then raises before it looks at the state. Histories count failures in a row, to say
what the state should be, and (`cuts`) the failures whose recording a crash cut off.

`SettlementFeed` extends it: the breaker's transitions, the chain's events and
whatever else the gateway broadcasts meet in one buffer. The listener reads a
range of blocks, or counts, copies and dispatches a list, and moves its cursor
afterwards; what is left of a round is the set `poll.left`, taken in ascending
order; a restart falls anywhere. With the web3 the repository pins
(`requirements.txt:32`) `_decode_log` raises or returns None for every log of a chain:
the exception is swallowed, nothing is broadcast and the cursor goes on. So what a
chain's log is given to is the decoder (`tried`), and only the in-memory contract's
events are broadcast (`shown`). A stream remembers how much of the buffer
it has seen, and the buffer drops its oldest entries. `shown` and `got` are
histories of what was broadcast and what a stream was given.

### MockLedger

Operations change `mem` in one step and leave `writes` to do; each write is one
Redis command; a crash loads `saved`. `TransactionLedger.record` is three steps on
Redis itself and increments the key `ledger:counter` that the mock ledger saves
its own counter in. Amounts are in thousandths, so that the rounding to cents is
visible; where a float decides between two cents, both are taken.

### Commerce, CommerceProofs

Every amount of money is a cell: a deposit, a party's pending payout, the fees, a
pool, a consumer's spend. The contract's dictionaries and the storage alike are
changed by reading a cell and writing it back, and each is a step, `Get` and `Put`,
with anybody's steps in between: deposits, withdrawals, purchases, seeds, the price of
a pass, the four writes of a settlement (balance, worker, developer, fees) and those
of a refund. The four charging paths are `Metered` and, by `Quote`, trial, subscription
and buyout. A purchase, a settlement and a refund go from cell to cell (`part`), and
what has been taken from one and not yet put into the next is `UnderWay`. `stale` has
the kinds of cells that were overwritten with something computed from an older value,
marked by the write that does so: the lost updates are in the model, of every kind,
and the properties say that nothing else unbalances the books. What is claimed from
the in-memory contract is left out: nothing in the gateway claims.

### SkillRegistry, Market and their proofs

`SkillRegistry` is the cache (`NotLoaded` is Python's `None`), the uploaded
manifests in Redis and the code on disk. Handlers load on the event loop, in one
step; discovery and submissions load in a thread, which reads first and assigns
the cache at its end. `dropped` is a history of what such a load wiped out.

`Market` extends it with the endpoints around a task: publication with its awaits
up to the making of the vault, the simulated payment, boost, settlement and
penalty, the key of a licence, developers with their shares, and the wallet whose
balance is partly local. What the broker, the submissions, the trial gate and the
breaker do to a task have modules of their own; here a task is claimed, given
back, failed or done by actions with their effect on the market. Settlement of a
vault raises half way, as it does in the code (section 6). Each action of the
registry is a step of `Market`, which is shown to implement `SkillRegistry`.

### Accounts, and PeripheryProofs

Rows of `users` and `keys`, and the requests between two statements. A statement
is atomic, since SQLite runs it so; a handler with several is several actions,
with a slow hash in between where the code has one. `linked` is a history of the
wallets an account was ever linked to, and a request carries in `dead` whether the
key it came with had been revoked before it arrived. The limiter is a counter for
each spelling of one wallet's address that starts again with each window: the key of
the counter is the header as it was sent (`src/gateway/server.py:448`), while the
signer is compared in lower case (line 473). Its constant and its comment
(lines 65, 68 and 446) speak of a sliding window per wallet; what holds, and is
checked, is a limit per spelling and fixed window, and a wallet has as many as its
address has spellings.

`PeripheryProofs` has the theorems about the three parts that stand beside the path
of a task, `Accounts`, `MockLedger` and `Bounties`. They share no state; each keeps
the names of its own specification (`Spec`, `BooksSpec`, `HuntSpec`).

### Bounties

The adapter's sources, read one after another, each of which may fail or stop; its
cache; the daemon's labels from one poll to the next; directories and branches on disk,
which outlive it; pull requests. A posting has an id, a source, a link and a value,
`"low"` or `"good"`. A link is the text of an address: two sources may post one link
under two ids, and one source may post it twice. One issue may also have several
links (`http` for `https`, a full stop or a fragment after it), which the code takes
for different bounties; the property is about links, and so is the code. A directory
has the last part of a repository's address for its name and is taken for the
repository whoever made it; the code looks at nothing before it pushes, so the model
leaves open what git and GitHub make of it.

## 3. Runs

| Run | Shows | Bounds, and why they are enough |
|---|---|---|
| gateway_accounting | `TypeOK`, `PendingMatchesClaims`, `ShortfallIsFromRefunds`, `EscrowLeavesOnce`, `ImplementsPromise` | two tasks, so that claims of one meet the refund of the other; a worker who is also a developer; an amount of 23 whose shares both round; a rotated gateway key. Times are 0 and 1, refunds in the window of the same tick |
| broker_serving | `HoldsAccounted`, `ImplementsLifecycle` | two threads meet in every pair of sections; two tasks, pipelines of one and two steps, timeouts at any time |
| broker_restart | `ContextBeforeAdvance` with crashes | two crashes, one during what followed the other; three steps, so that a context may be missing behind another. One thread: contexts and steps are written under the lock |
| submit_safety | `SinglePaidToClaimant`, `ChargedOnce`, `SuccessIsPaid`, `ImplementsLifecycle` | a pipeline and a watermarked task, two workers, two requests at once, two attempts, a crash |
| feed_stream | `DegradesInTime`, `OpenIsEarned`, `NoEventSkipped`, `StreamInOrder`, and under fairness `EventsAreRead`, `StreamsCatchUp` | thresholds of 2 and 2 with up to four failures, so that the count in memory and the one in Redis both matter before each; a buffer of two with up to one entry and two events on top of what the breaker sends, so that it overflows; blocks polled one at a time; one restart, between any two commands; chain and memory |
| ledger_books | `AcknowledgedIsSaved`, `RestartMintsOnlySlashes`, `IndexedIsStored`, `WealthMoves` | six operations: a deposit, two holds, their releases and a penalty fit; one crash; costs above and below the budget, one of them on half a cent |
| commerce_books | `TypeOK`, `BooksBalance`, `PendingIsOwed`, `PotsMatchSnapshots`, `SpendIsCharged` | two threads and two tasks, so that any two operations race between their reads and writes; two further operations reach a paid-for pool, a deposit with a developer registered, or a price of a task set to 40 by the administrator. Only one skill gets a developer (`MCOneDeveloped`): a second one would be another's task |
| bounties_hunt | `OneBountyPerLink`, `OnePullRequest`, and under fairness `EveryoneGetsATurn` | a link that one source lists twice and another once, a second link of a third source, a historical bounty that is worth enough and one that is not; two starts, one change of the listings, two attempts |
| accounts_requests | `EmailsUnique`, `LoginIsOwn`, `LetThrough` | two requests, two wallets with the same first characters, two accounts, three keys with a limit of one; one wallet with two spellings, a limit of one a window |
| accounts_keys | violates `KeysWithinLimit` (finding) | as accounts_requests: two requests and a limit of one key |
| market_books | `VaultsHoldPayments`, `AnsweredTasksHaveVaults`, `OneKeyPerTask`, `WalletMatchesHistory`, `UploadsServed` | two requests for one task, two developers, a shipped and an uploaded skill, one load in a thread, three calls, which fit a payment, a boost and a restart |
| registry_alongside | violates `ServedAlongside` (finding) | one shipped and one uploaded skill |

Bounds that cap counters are constants (`MaxTime`, `MaxHeld`, `MaxTasks`,
`MaxSteps`, `MaxCrashes`, `MaxAttempts`, `MaxFails`, `MaxIds`, `MaxOps`,
`MaxRecords`, `MaxHead`, `MaxSent`, `MaxStarts`, `MaxUsers`, `MaxIssued`,
`MaxLinks`, `MaxLoads`, `MaxChanges`). Deadlock is not checked where the system may
stop: once everything allowed by the bounds is done, there is nothing left to do.

Symmetry is used in safety runs only, on values that no definition tells apart.

`MCApart`, in two instances, keeps parts of a module that share no variable from
being interleaved for nothing: the rate limiter of `Accounts` and the wallet of
`Market` are run in states where the rest of the module is at rest. Neither reads
or writes anything the rest reads or writes, so that no state of the one depends on
the other; the theorems about both modules are about all interleavings.

The runs of what the code defines by a large number use a small one (the breaker's
3 and 6, a buffer of 200, 5 keys, 100 requests in a window); the theorems of
section 4 about the breaker and the accounts hold for every value.

**Fairness.** `SubmitFlow` needs none: `SuccessIsPaid` is an invariant, which says of
every moment that a successful task is paid or has the handler that is about to pay
it, and names the crashes that ended just that handler (`cut`). That the handler goes
on is the event loop's affair; that the hold of a task in `cut` stays frozen is what
the code does.

`SettlementFeed!FairFeedSpec` has weak fairness of the listener's thread (`Listen`),
which loops for as long as the process lives, and of each `Stream`, which the event
loop wakes every two seconds. Events, failures and restarts get none.
`EventsAreRead` excepts a listener whose start failed; `StreamsCatchUp` excepts a
buffer that has dropped entries. Both are what the code does (section 6).

`Bounties!FairHuntSpec` has weak fairness of `RunOnce`: the daemon is one thread, every
command it runs and every request it makes has a timeout. Being started gets none.

## 4. Proofs

| Theorem | For every value of the constants |
|---|---|
| `AgentGatewayProofs!TypeCorrect` | the contract's state is typed; no balance, payout or fee is negative |
| `AgentGatewayProofs!EscrowSafe` | `EscrowLeavesOnce`, also when one address has several roles |
| `AgentGatewayProofs!PendingSafe` | `PendingMatchesClaims`: what is pending for an account is what its settled tasks still owe it |
| `AgentGatewayProofs!ShortfallSafe` | `ShortfallIsFromRefunds`: the contract never holds more than it owes, and what it is short of is at most what refunds of settled tasks left owed; a bound, not the amount |
| `AgentGatewayProofs!ContractImplementsPromise` | the contract implements `EscrowPromise` |
| `TaskBrokerProofs!HoldsSafe` | `HoldsAccounted`, for any threads, workers, tasks and pipelines |
| `TaskBrokerProofs!BrokerImplementsLifecycle` | the broker implements `TaskLifecycle` |
| `TaskBrokerProofs!ContextSafe` | `ContextBeforeAdvance`, across any crashes |
| `SubmitFlowProofs!PaidSafe` | `SinglePaidToClaimant`, for any workers, requests, attempts and crashes |
| `SubmitFlowProofs!ChargedSafe` | `ChargedOnce` |
| `SubmitFlowProofs!PayoutSafe` | `SuccessIsPaid`: no success without its pay or the handler about to pay it, but for `cut` |
| `SubmitFlowProofs!FlowImplementsLifecycle` | the handlers implement `TaskLifecycle` |
| `SettlementFeedProofs!CountersCorrect`, `DegradesSafe`, `OpenSafe` | of the breaker: its counters stay within the thresholds; `DegradesInTime`, `OpenIsEarned`, across restarts and crashes between any two Redis commands |
| `SettlementFeedProofs!BreakerInFeed` | the same of the breaker inside the feed |
| `SettlementFeedProofs!EventsKept`, `StreamsOrdered` | `NoEventSkipped`, `StreamInOrder`, for any clients, buffer and number of blocks |
| `MarketProofs!UploadsSafe` | `UploadsServed` of the registry, for any number of loads at once |
| `MarketProofs!ImplementsRegistry` | the market uses the registry as `SkillRegistry` says |
| `MarketProofs!UploadsServedByMarket` | so that `UploadsServed` holds of the market |
| `MarketProofs!VaultsSafe`, `AnsweredSafe`, `KeysSafe`, `WalletSafe` | `VaultsHoldPayments`, `AnsweredTasksHaveVaults`, `OneKeyPerTask`, `WalletMatchesHistory` |
| `CommerceProofs!TypeSafe`, `ProofsMatch`, `SpendMatches` | `TypeOK`, `PotsMatchSnapshots`, `SpendIsCharged` |
| `CommerceProofs!PendingOwed`, `BooksSafe` | `PendingIsOwed`, `BooksBalance` |
| `PeripheryProofs!EmailsSafe`, `LoginSafe`, `KeysBounded`, `AdmissionSafe` | `EmailsUnique`, `LoginIsOwn`, `KeysNearLimit`, `LetThrough` |
| `PeripheryProofs!AcknowledgedSafe`, `RestartSafe` | `AcknowledgedIsSaved`, `RestartMintsOnlySlashes`, for any operations, rounding and crashes |
| `PeripheryProofs!WealthSafe`, `IndexSafe` | `WealthMoves` (of every step), `IndexedIsStored` |
| `PeripheryProofs!LinksSafe`, `RequestsSafe` | `OneBountyPerLink`, `OnePullRequest` |

Assumed are only the named assumptions on the constants (`GatewayAssumption`,
`BrokerAssumption`, `SubmitAssumption`, `BreakerAssumption`, `FeedAssumption`,
`RegistryAssumption`, `MarketAssumption`, `AccountAssumption`, `CommerceAssumption`,
`LedgerAssumption`, `BountyAssumption`): that the sentinels are not members of the sets
they stand outside of, that thresholds and prices are positive, that bounds are
naturals, that a stake and a slash are whole cents, and that the sets a sum or a
cardinality is taken over are finite: accounts and tasks of the contract; users,
workers, developers, tasks and threads of the commerce engine; users and workers of
the mock ledger; requests at a time.

*Sums.* `SumFunctionOnSet` is a fold in an order that `CHOOSE` decides. That the
order does not matter is proved without induction over data: a finite set has a
smallest subset that is a counterexample (`WFMin`, over its finite subsets). Everything
about money uses four facts: a sum of which one term changes moves by that change
(`SumChange`), equal terms have equal sums (`SumSame`), larger ones a larger one
(`SumAtMost`), and none is nothing (`SumZero`).

*Contract.* `SharesWithinAmount` shows that the two shares never exceed the amount,
so the treasury's is a natural; `Unwind` stops at zero. `EscrowLeavesOnce` is
inductive with `TypeOK`. Actions that leave the lifecycle alone are one lemma;
settle, refund and claims have one each. The refinement has the mapping
`escrowBar`, `collectedBar`, and needs `EscrowLeavesOnce` for the flags that the
mapping takes together.

*What the contract owes.* The terms of the sums come from the snapshots, so
`Snapshots` says that the shares of one add up to its amount and that its parties are
accounts. A settlement, a refund or a claim changes the terms of one task and, by
as much, one party's payout. A refund to a worker who is the developer restores what
it took back first: `Shortfall` adds up those shares (`LeftOut`), and
`ShortfallIsFromRefunds` says that no more than that is missing.

*Holds.* `HoldsAccounted` is not inductive: a thread that has drawn an id could
find it occupied, or two threads could carry one hold. `IInv` adds `Shapes` (types
and labels), `FreshIds` (an id drawn and not yet stored is above nobody's counter,
free, and one thread's only) and `FreshHolds` (the same of holds in flight). The
counter only grows, under the lock, which is what keeps the two critical sections
of `publish_task` together although the lock is given up between them.

*Broker and lifecycle.* `LInv` adds `Exclusion` (a thread that is to advance or to
flush has the lock) and `Advancing` (its task is still CLAIMED with a step left),
so that the step `AdvanceStep` takes is the one `StoreContext` read; `StepsLeft`
makes the last success the one after the last step. `FreshIds` gives `Publish` an
absent id. `CompleteTask` maps to `Succeed` or `Fail`, `CheckTimeouts` to `Recycle`
of all it takes back, and everything that only writes to Redis to a stutter.

*Context across crashes.* A task can be resumed if the context of every step before
its own is in Redis (`Covered`), where contexts stay. `CInv` says so of memory and
Redis (`Kept`) and of everything on its way between them: a dump a thread took
however long ago (`Carried`) and a write that waits under the lock (`Queued`). Contexts
only grow, so a value once covered stays covered.

*Submissions.* `OneSettles`: of the handlers past a settlement's `complete_task` at
most one is for a given task, which is in SUCCESS and not charged yet.
`SingleOwned`: a task of one step keeps its holder once claimed, and every handler
past the look-up of such a task works for that holder. This fails for pipelines,
where the holder changes between steps: that is the divergence of section 6.
`SuccessIsPaid` needs one fact more, `HoldsKept`: a task that was published has its
hold until it is paid, so that the release a handler stands before finds it. A
handler leaves that place by paying or by the crash, which puts its task in `cut`.

*Breaker.* Memory and storage are compared while commands wait in `todo`. `Stores`:
what waits no longer has arrived (the state is the memory's, the count the memory's
or, with a failure still to be stored, one less, unless it is the text of a success).
`Counts`: what the breaker counts bounds what happened in a row; a crash may cut
failures off, hence `streak <= fails + cuts`, and `degraded <= worse`. `Restartable`
says of what a restart would find at any moment what the properties say of memory;
`held` remembers for it what had happened when the state was last stored.

*Feed.* `Polled` is what makes a cursor safe. Over a chain every log up to the cursor,
in memory or saved, was given to the decoder, and one that a poll passes was or is in
`poll.left`. In memory every event is beyond the cursor, in `poll.left`, or shown.
`Rounds` keeps what one kind of poll leaves behind out of the other's. `Streams`: what a
stream was given ascends and lies below `Dropped + seen`, its position among all
entries ever sent. The breaker's invariant is carried along unchanged, since the feed
adds to its steps and takes nothing away.

*Registry and market.* `UploadsServed` is inductive once the cache is known to be a
set of skills or None. In `MarketProofs` the books of a vault (`BooksOf`) are kept by
every action but the making of a vault, which might replace one that was paid;
`Makers` says that the handlers that are to make one refer to tasks without a
vault, each to its own. Every step of `Market` is a step of the registry or leaves
it alone, and the theorem of the one is used for the other.

*Commerce.* `TInv` types the state through what each thread has in hand (`Sound`): it
stands at a place of its job (`Placed`), its shares add up (`Fits`), and what it has
read covers what it will take (`Covered`), so that a deposit or a pool stays a natural
even when an update is lost. `Stage` ties a thread to its task: no snapshot before the
balance is written, no proof before the worker's, the developer's only after it; a
refund has the shares of the snapshot it read. No two threads serve one task, and a
task that no thread has is signed with exactly its snapshot's shares (`Settled`,
`Signed`), unless another developer was registered meanwhile, which puts "developer"
into `stale`; then the developer's proof alone is left open. The last write of a
settlement adds its task to those that count as spent; no other step changes them.

*Money of the commerce engine.* `Held` is what is in cells and `Flow` what threads have
taken out of one cell and not yet put into the next (`UnderWay`). A `Put` moves its
cell and its thread's part by the same amount, because it writes what it read plus
that, and what it read is still there or the kind of cell goes into `stale` for good.
So `Held + Flow` stays what came in less what went out as long as nothing was noted
(`BooksStep`). For one party's payout the same is said with `Moving` and the shares of
the snapshots (`PendingStep`). `MInv` is `IInv` with the two.

*Accounts.* Every action is reduced to its effect on the rows, the keys and the
request (`RequestActions`), and the invariants follow from the effects. `Owners` (an
account's wallet was linked to it) carries `LoginIsOwn`. The limit of keys does not
hold (section 5); what does is that n requests pass it by n - 1 at most
(`KeysNearLimit`): `KeysPromised` counts with the live keys of an account the requests
that have counted and not inserted yet, and keeps their sum below the limit plus n,
by cardinalities. `Limited` says that a spelling has let through no more than it has
counted, and no more than the limit.

*Off-chain books.* `BInv` compares Redis (`saved`) with the books (`mem`) while writes
wait. An entry that waits for no write is the same in both (`Saves`), but for what
slashes did not save: the collateral Redis still has and `mem` has not is the `Gap`,
a whole number of dollars bounded by the slashes (`SavesSlashes`). The writes of
every operation that lower money in Redis come before those that raise it
(`FallsFirst`). That is why no prefix of them is worth too much: one that lowers, or
leaves alone, is bounded by what Redis was worth; one that raises follows the last
that lowers, so that Redis is entry by entry at most `mem` plus the `Gap`. Each
operation has one lemma, which gives the change of each balance with its rounding
(`CentsNear`, `TaxFits`), and `WealthMoves` comes with the same steps. `record()` has
an invariant of its own (`HistoryInv`): an id whose list is to be written is stored.

*Bounties.* `HInv`: what the daemon works on was taken out of the batch and is seen
(`Begun`), so nothing is begun twice in one life; a request leaves a branch, which
survives the daemon and refuses a second one (`Requested`); and the adapter serves a
daemon that is between cycles only (`Turns`), so that its batch is one answer, which
has a link once because of each link's postings one was kept (`Distinct`).

Only model-checked: liveness under fairness (`EventsAreRead`, `StreamsCatchUp`,
`EveryoneGetsATurn`), which the provers do not reach. Every invariant,
action property and refinement of a passing run has its theorem.

## 5. What the repository says and the code does not do

With a run that violates the statement:

- **accounts_keys.** `generate_api_key` counts an account's live keys
  (`src/gateway/database.py:381`), hashes the new one slowly in a thread of the pool and
  then inserts it; nothing holds the count meanwhile. Requests at one time pass the
  limit together, by their number less one. `src/gateway/server.py:3738` says "Max 5
  keys per account.", and the error at `src/gateway/database.py:386` "Maximum ... API
  keys per account".
- **registry_alongside.** `install_skill` makes an empty cache where none is loaded
  and `load_all` takes it for the loaded one (`src/skills/registry.py:312`, line 80).
  `src/gateway/server.py:94` installs the stored uploads at every start: after one,
  or after an upload before anything was looked up, every shipped skill is unknown.
  `src/gateway/skill_store.py:199` says that uploads are served "alongside static
  manifests".

Contained in the model, without a run, because no step shows it:

- **Events of a chain.** `src/gateway/chain_listener.py:3-5` says that the listener
  polls `TaskSettled` and `TaskRefunded` events and dispatches them. With the web3 that
  `requirements.txt:32` pins, `topic.hex()` has no `0x` and equals neither topic
  (lines 283-289), and `to_bytes(hexstr=...)` raises on the `HexBytes` of the data (line
  314). Every log is thus passed over, by the `return None` at line 292 or the exception
  swallowed at 290, and the cursor goes on past it (line 263). `NoEventSkipped` and
  `EventsAreRead` therefore speak of logs given to the decoder where there is a chain,
  and of broadcast events where the contract is in memory.

## 6. Other facts met while modelling

The models contain the behaviour, unless noted; no run states the opposite.

Contract and commerce.

- `refundTask` reads both payouts before it writes either
  (`contracts/AIMSAgentGateway.sol:383`). When worker and developer are one address
  the second write restores what the first took back.
- Trials, subscriptions and buyouts drain a pool and sign proofs
  (`src/gateway/billing.py:785`), but settle nothing in the contract, which refuses a
  claim with them, although `src/chain/pot.py:7` presents a proof as what is claimed
  with.
- The usage count is raised from 0 to 1 and never again (`src/gateway/trial.py:173`),
  while `count == 1` is taken for "this is the trial" (`src/gateway/server.py:1411`):
  every run of a skill is charged as its free trial, and no balance is ever checked.
  A trial is used up even when a later check refuses the task.
- In the second revenue phase a trial's shares are 95 % and 25 % of the price
  (`src/gateway/billing.py:738-749`): the pool pays 120 %.
- A worker's part of a subscription or buyout is `min(0, fee)`
  (`src/gateway/billing.py:736`), although the docstring promises the bandwidth fee.
- The developer is read again after the settlement (`src/gateway/billing.py:342`): if
  another was registered meanwhile, he gets a proof the contract refuses and the
  one it would accept is never signed.
- Balances, payouts, fees and pools are read, added to and written by threads without a
  lock (`src/chain/contract_client.py:218`, 220-227, 318, 349-358, 378-398): of two updates
  at once one is lost. `stale` notes where, and the books are exact but for it.
- One key holds the proof of a task and a party (`src/chain/pot.py:119`): the
  developer's overwrites the worker's when they are one address.

Broker and submissions.

- `publish_task` writes to Redis outside its lock (`src/gateway/broker.py:227`), so
  that a claim made meanwhile is overwritten there and a restart gives the task
  away again; `project_document/KNOWLEDGE.md:552` describes one lock for both.
- The counter is the last write of a publication (`src/gateway/broker.py:229`): after
  a crash before it the id is given twice and the first task's hold forgotten.
- Between `_persist_task` and `_persist_status` of a pipeline step
  (`src/gateway/broker.py:430`) a crash leaves a CLAIMED task at the next step: its
  holder's resubmission then completes a step nobody did.
- The gateway never calls `check_timeouts` (`project_document/KNOWLEDGE.md:435` says it recycles): a
  task whose worker stops stays CLAIMED.
- `submit_task` compares the claimant once and completes the task several awaits
  later by its id (`src/gateway/server.py:1337`). A late duplicate of step 1 completes
  step 2, which another worker has claimed.
- A canary token is good for one use (`src/gateway/canary.py:109`). The second step
  of a watermarked pipeline and an honest worker's concurrent retry are replays:
  the task fails and the worker is blacklisted.
- A FAILED task's hold is not released by `submit_task`
  (`src/gateway/server.py:1279`); `project_document/AGENT_INTEGRATION_GUIDE.md:274` says it is
  refunded.
- `claim_specific_task` compares the score the caller sends
  (`src/gateway/server.py:1474`), never the stored one.
- Two submissions of a poor result at once take the contributors' credit twice.
- If `record_failure` raises (`src/gateway/server.py:1315`), which it does whenever Redis
  refuses the `INCR`, the request ends in an error 500 before anything is refunded,
  penalised or completed: the task stays CLAIMED.
- A crash after a success is stored and before its hold is released leaves the hold
  frozen for good (`cut`); nothing looks for such tasks at a start.

Breaker, listener and feed.

- After one success in Redis mode the breaker's counter is the quoted text that
  `INCR` refuses, so that no failure is counted any more
  (`src/gateway/circuit_breaker.py:161`).
- An emergency pause ends by itself after the cooldown
  (`src/gateway/circuit_breaker.py:205`), although line 9 and
  `src/gateway/server.py:936` speak of a manual reset.
- A stream compares the length of the buffer with what it has seen
  (`src/gateway/server.py:258`): once the buffer is full the two are equal for good
  and the stream shows nothing more.
- A crash between `INCR` and the state (`src/gateway/circuit_breaker.py:161`, 143)
  restores a full count with the state CLOSED: the failure that would have tripped is
  forgotten until the next one. One between the state and its time stamp restores an
  OPEN breaker with an older stamp.
- `_init_web3` is tried once (`src/gateway/chain_listener.py:155`): a node that is away
  at the start is never polled. "Re-polling immediately" (line 269) sleeps first.
- The list of events is measured, then copied (`src/gateway/chain_listener.py:222`): an
  event appended in between is dispatched twice. The commerce engine and the
  listener both broadcast a settlement.

Ledgers.

- `ledger:counter` is used by two classes (`src/ledger/mock_counter.py:253`,
  `src/gateway/ledger.py:26`): after a restart wallet transactions get ids again and
  overwrite each other.
- A slash is not saved until a later operation saves the same entries
  (`src/ledger/mock_counter.py:409`).
- A crash between the writes of a hold and of the counter lets the next hold bury
  it (`src/ledger/mock_counter.py:645`). `total_system_wealth` leaves holds out,
  although its docstring speaks of every USDT (line 298).
- Two first requests of a new wallet both find it poor and both seed it
  (`src/gateway/server.py:2052-2054`; the ledger's seeds may be repeated in
  `MockLedger`).

Market, wallet and registry.

- Settling a vault calls `record` with its arguments in another order
  (`src/gateway/server.py:1765-1780`) and raises after the id is drawn: the worker of a
  funded task is answered 500, and the vault stays funded for good.
- A task can be claimed before its vault exists or is paid, and a vault can be paid
  after its task is over, which was charged as well.
- A withdrawal in Web3 mode checks the sum of two balances and takes from the local
  one, down to zero (`src/gateway/server.py:2425`); nothing is deducted on chain.
- The unified endpoint (`src/gateway/server.py:3149`): `publish_task` lacks a user and
  always fails, `boost_reward` boosts and then fails to build its answer (line
  3200), `query_account` fails, and a refused claim answers with an AttributeError.
- `developer_integrate` of a skill the registry does not know, or before a restart
  in memory mode, never registers the developer, since a second call changes
  nothing.
- A load in a thread overwrites what was installed meanwhile
  (`src/skills/registry.py:138`).

Accounts.

- The "sliding window" of the limiter, per wallet address (`src/gateway/server.py:65`, 68,
  446), is a fixed window per spelling of the header (line 448), while the signer is
  compared in lower case (line 473): a wallet has a limit for each spelling.
- A login whose default address is another account's ends in an error for good
  (`src/gateway/server.py:3612`), and of two profile changes to one address the second
  fails with an uncaught IntegrityError.

Bounties.

- Git accepts no colon in a branch name and every live id has one; the checkout is
  `check=True` and only a timeout is caught (`scripts/gitcoin_sniper.py:744`): the first
  live bounty that gets there ends the daemon.
- Duplicates are found by the text of a link (`scripts/bounty_adapter.py:184-195`), as a
  regular expression cuts it out of a posting (lines 566-573). `http` for `https`, a full
  stop or a fragment after it make two bounties of one issue in one cycle.
- What was seen is forgotten with the process (line 331); the same issue has another
  id in each source, and the duplicate that is dropped may be the one with the value.
- A `git clone` that was killed leaves a directory with a remote, which is pulled
  (`scripts/gitcoin_sniper.py:516-521`); so is the directory of another repository with the
  same name. Nothing is checked before the push; the model leaves its outcome open.
- A failed push or pull request is still reported DELIVERED (line 786), and a
  repository without a test framework passes its tests.
- The directory of a dry run is later taken for the repository (line 516).

## 7. Plan

What is left, in this order.

1. **Proofs about what is modelled**: done but for liveness. What would say more is
   that the atomic broker of `SubmitFlow` and the tasks of `Market` are one.
2. **In-process workers** (`Sandbox`): the second consumer of the broker, composed
   with the atomic broker of `TaskLifecycle`.
3. **Composition of `Market` with `SubmitFlow`**, where a vault's settlement is one
   failing step so far.
4. **Legacy contract** (`LegacySettlement`) against `EscrowPromise`.
5. **Pure algorithms**: the Merkle tree as a recursive function against a
   reference root, the router over small graphs.
