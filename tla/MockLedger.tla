----------------------------- MODULE MockLedger -----------------------------
(***************************************************************************)
(* The gateway's own books: MockLedger (src/ledger/mock_counter.py), which *)
(* holds what users pay in, their escrow holds, the workers' earnings and  *)
(* stakes and the ratings of a skill, and TransactionLedger                *)
(* (src/gateway/ledger.py), the history of wallet transactions.            *)
(*                                                                         *)
(* MockLedger changes its dictionaries under one lock and then, still      *)
(* under the lock, writes each changed entry to Redis with a command of    *)
(* its own; a restart loads what Redis has.  An operation is therefore one *)
(* step on mem that leaves its writes to do, and each write is a step: a   *)
(* crash may fall between any two.  TransactionLedger runs on the event    *)
(* loop, works in Redis directly, and increments the very key              *)
(* "ledger:counter" in which MockLedger saves its own counter.             *)
(*                                                                         *)
(* Amounts are in 0.001 USDT, so that rounding to cents has something to   *)
(* do.  Amounts that lie halfway between two cents are floats a little     *)
(* below or above, and go either way.                                      *)
(***************************************************************************)
EXTENDS Integers, Sequences, FiniteSets, FiniteSetsExt, Functions

CONSTANTS
  Users, Nobody, Workers,
  Seeds,          (* what seed_usdt and seed_dev_usdt are called with       *)
  Budgets,        (* max_budget of a hold, amount of a freeze               *)
  Costs,          (* gas_cost + developer_premium of an execution           *)
  Stake, Slash,   (* stake_amount and the dollar of a slash                 *)
  StrikeLimit,    (* 3 in apply_penalty                                     *)
  Ratings,        (* rating_value, once clamped to 1..5                     *)
  FullRep,        (* a reputation of 1.0, in steps of the 0.1 it loses      *)
  AuditFrom,      (* entries from which outliers are rejected: 5            *)
  HistoryLimit,   (* transactions kept per user: 200                        *)
  MaxIds, MaxOps, MaxRecords, MaxCrashes   (* bounds                        *)

Cent == 10

ASSUME LedgerAssumption ==
  /\ Nobody \notin Users /\ IsFiniteSet(Users) /\ IsFiniteSet(Workers)
  /\ Seeds \subseteq Nat /\ Budgets \subseteq Nat \ {0} /\ Costs \subseteq Nat
  /\ Stake \in Nat \ {0} /\ Slash \in Nat \ {0}
  /\ Stake % Cent = 0 /\ Slash % Cent = 0
  /\ StrikeLimit \in Nat \ {0}
  /\ Ratings \subseteq 1..5 /\ FullRep \in Nat \ {0}
  /\ AuditFrom \in Nat \ {0} /\ HistoryLimit \in Nat \ {0}
  /\ MaxIds \in Nat /\ MaxOps \in Nat /\ MaxRecords \in Nat /\ MaxCrashes \in Nat

VARIABLES
  persistent,     (* storage.is_persistent                                  *)
  mem,            (* the attributes of MockLedger                           *)
  saved,          (* the keys ledger:* in Redis                             *)
  writes,         (* what the operation that has the lock must still save   *)
  txns, index,    (* ledger:transactions and ledger:user_txns               *)
  recording,      (* a record() under way, or NoRecord                       *)
  records,        (* calls of record() begun (bounded by MaxRecords)        *)
  count           (* operations, crashes, and what they may change: history *)

book == <<mem, writes>>
history == <<txns, index, recording, records>>
booksVars == <<persistent, book, saved, history, count>>

Ids == 1..MaxIds
NoHold == [owner |-> Nobody, kind |-> "none", amount |-> 0]
NoRecord == [todo |-> <<>>, id |-> 0, user |-> Nobody]
DefaultScore == 500

EmptyBook ==
  [user |-> [u \in Users |-> 0], dev |-> [w \in Workers |-> 0],
   vault |-> [i \in Ids |-> NoHold], treasury |-> 0, counter |-> 0,
   coll |-> [w \in Workers |-> 0], strikes |-> [w \in Workers |-> 0],
   used |-> [u \in Users |-> FALSE], rep |-> [u \in Users |-> FullRep],
   rated |-> [u \in Users |-> 0], entries |-> <<>>, score |-> DefaultScore]

BooksInit ==
  /\ persistent \in BOOLEAN
  /\ mem = EmptyBook /\ saved = EmptyBook /\ writes = <<>>
  /\ txns = [i \in {} |-> Nobody] /\ index = [u \in Users |-> <<>>]
  /\ recording = NoRecord /\ records = 0
  /\ count = [ops |-> 0, crashes |-> 0, seeded |-> 0, settled |-> 0, slashed |-> 0]

-----------------------------------------------------------------------------
(* The integers nearest to n/d, and an amount rounded to cents.            *)
Nearest(n, d) ==
  LET q == n \div d IN {k \in {q, q + 1} : 2 * (n - d * k) \in -d..d}

Cents(n, d) == {Cent * k : k \in Nearest(n, d * Cent)}

Tax(amount) == Cents(amount, 100)

(* The end of an operation: its writes follow, if anything is persistent.  *)
Save(todo) == writes' = IF persistent THEN todo ELSE <<>>

Operation ==
  /\ writes = <<>> /\ count.ops < MaxOps
  /\ UNCHANGED <<persistent, saved, history>>

Counted(name, n) == count' = [count EXCEPT !.ops = @ + 1, ![name] = @ + n]

Scalars == {"treasury", "counter", "entries", "score"}

(* One Redis command of a _persist_* helper.                               *)
Write ==
  /\ writes # <<>>
  /\ LET f == Head(writes)[1]
         k == Head(writes)[2]
     IN saved' = IF f \in Scalars THEN [saved EXCEPT ![f] = mem[f]]
                                  ELSE [saved EXCEPT ![f][k] = mem[f][k]]
  /\ writes' = Tail(writes)
  /\ UNCHANGED <<persistent, mem, history, count>>

Whole(f) == <<f, f>>

-----------------------------------------------------------------------------
SeedUsdt(u, a) ==
  /\ Operation
  /\ mem' = [mem EXCEPT !.user[u] = @ + a]
  /\ Save(<< <<"user", u>> >>)
  /\ Counted("seeded", a)

SeedDevUsdt(w, a) ==
  /\ Operation
  /\ mem' = [mem EXCEPT !.dev[w] = @ + a]
  /\ Save(<< <<"dev", w>> >>)
  /\ Counted("seeded", a)

RegisterWorker(w) ==
  /\ Operation
  /\ mem.dev[w] >= Stake
  /\ \E left \in Cents(mem.dev[w] - Stake, 1), staked \in Cents(mem.coll[w] + Stake, 1) :
       mem' = [mem EXCEPT !.dev[w] = left, !.coll[w] = staked]
  /\ Save(<< <<"dev", w>>, <<"coll", w>>, <<"strikes", w>> >>)
  /\ Counted("settled", 1)

Slashable(w) == mem.strikes[w] + 1 >= StrikeLimit /\ mem.coll[w] >= Slash

PenaltyWrites(w) == << <<"strikes", w>>, <<"coll", w>>, Whole("treasury") >>

(* apply_penalty.  The branch that slashes returns before it saves.        *)
ApplyPenalty(w) ==
  /\ Operation
  /\ IF Slashable(w)
     THEN /\ \E left \in Cents(mem.coll[w] - Slash, 1) :
               mem' = [mem EXCEPT !.coll[w] = left, !.treasury = @ + Slash, !.strikes[w] = 0]
          /\ writes' = <<>>
          /\ Counted("slashed", 1)
     ELSE /\ mem' = [mem EXCEPT !.strikes[w] = @ + 1]
          /\ Save(PenaltyWrites(w))
          /\ Counted("slashed", 0)

-----------------------------------------------------------------------------
(* Escrow: freeze_usdt and settle_escrow, create_escrow_hold and           *)
(* release_escrow_dynamic.                                                 *)
NextId == mem.counter + 1

HoldWrites(u, i) == << <<"user", u>>, <<"vault", i>>, Whole("counter") >>

Freeze(u, kind, a) ==
  /\ Operation
  /\ mem.user[u] >= a
  /\ NextId \in Ids
  /\ mem' = [mem EXCEPT !.user[u] = @ - a, !.counter = NextId,
               !.vault[NextId] = [owner |-> u, kind |-> kind, amount |-> a]]
  /\ Save(HoldWrites(u, NextId))
  /\ Counted("settled", 0)

FreezeUsdt(u, a) == Freeze(u, "freeze", a)
CreateEscrowHold(u, a) == Freeze(u, "hold", a)

(* Mutant: the hold is read, not popped.                                   *)
HoldKept(i) == mem

Emptied(i) == [mem EXCEPT !.vault[i] = NoHold]

(* What remains of a hold once the cost of the execution is taken.         *)
Unused(a, total) == Cents(a - total, 1)

(* Mutants: the user's refund is not saved; the hold is deleted last.      *)
RefundUnsaved(i, w, u) == << <<"vault", i>>, Whole("treasury"), <<"dev", w>> >>
HoldDeletedLast(i, w, u) == << Whole("treasury"), <<"dev", w>>, <<"user", u>>, <<"vault", i>> >>

PayWrites(i, w, u) == << <<"vault", i>>, Whole("treasury"), <<"dev", w>>, <<"user", u>> >>

SettleEscrow(i, w, success) ==
  LET h == mem.vault[i] IN
  /\ Operation
  /\ h.kind = "freeze"
  /\ IF success
     THEN \E tax \in Tax(h.amount) : \E net \in Cents(h.amount - tax, 1) :
            /\ mem' = [Emptied(i) EXCEPT !.treasury = @ + tax, !.dev[w] = @ + net]
            /\ Save(PayWrites(i, w, h.owner))
     ELSE /\ mem' = [Emptied(i) EXCEPT !.user[h.owner] = @ + h.amount]
          /\ Save(<< <<"vault", i>>, <<"user", h.owner>> >>)
  /\ Counted("settled", 1)

ReleaseEscrowDynamic(i, w, cost, success) ==
  LET h == mem.vault[i]
      total == IF cost < h.amount THEN cost ELSE h.amount
  IN
  /\ Operation
  /\ h.kind = "hold"
  /\ IF success
     THEN \E tax \in Tax(total), back \in Unused(h.amount, total) :
          \E net \in Cents(total - tax, 1) :
            /\ mem' = [Emptied(i) EXCEPT !.treasury = @ + tax, !.dev[w] = @ + net,
                         !.user[h.owner] = @ + back, !.used[h.owner] = TRUE]
            /\ Save(PayWrites(i, w, h.owner) \o << <<"used", h.owner>>, <<"rep", h.owner>> >>)
     ELSE /\ mem' = [Emptied(i) EXCEPT !.user[h.owner] = @ + h.amount]
          /\ Save(<< <<"vault", i>>, <<"user", h.owner>> >>)
  /\ Counted("settled", 1)

-----------------------------------------------------------------------------
(* submit_rating.                                                          *)
SumOver(s, Value(_)) == MapThenSumSet(LAMBDA i : Value(s[i]), DOMAIN s)

(* |rating - mean| > 2.5                                                   *)
Outlier(s, r) ==
  LET off == r * Len(s) - SumOver(s, LAMBDA e : e.rating)
  IN Len(s) >= AuditFrom /\ (2 * off > 5 * Len(s) \/ -2 * off > 5 * Len(s))

Scores(s) ==
  LET weight == SumOver(s, LAMBDA e : e.rep)
  IN IF weight = 0 THEN {DefaultScore}
     ELSE Nearest(100 * SumOver(s, LAMBDA e : e.rep * e.rating), weight)

RatingWrites(u) == << Whole("entries"), Whole("score"), <<"rated", u>> >>

MayRate(u) == mem.used[u]

SubmitRating(u, r) ==
  /\ Operation
  /\ MayRate(u)
  /\ IF Outlier(mem.entries, r)
     THEN /\ mem' = [mem EXCEPT !.rep[u] = IF @ > 0 THEN @ - 1 ELSE 0]
          /\ Save(<< <<"rep", u>> >>)
     ELSE LET s == Append(mem.entries, [user |-> u, rep |-> mem.rep[u], rating |-> r]) IN
          /\ \E score \in Scores(s) :
               mem' = [mem EXCEPT !.entries = s, !.score = score, !.rated[u] = @ + 1]
          /\ Save(RatingWrites(u))
  /\ Counted("settled", 0)

-----------------------------------------------------------------------------
(* TransactionLedger.record: the counter, the transaction, the user's list.*)
(* Mutant: the list is written before the transaction.                     *)
ListFirst == <<"index", "store">>

RecordSteps == <<"store", "index">>

Pending(step) == recording.todo # <<>> /\ Head(recording.todo) = step

StepDone ==
  recording' = IF Len(recording.todo) = 1 THEN NoRecord ELSE [recording EXCEPT !.todo = Tail(@)]

RecordStart(u) ==
  /\ recording = NoRecord /\ records < MaxRecords
  /\ saved.counter + 1 \in Ids
  /\ saved' = [saved EXCEPT !.counter = @ + 1]
  /\ recording' = [todo |-> RecordSteps, id |-> saved'.counter, user |-> u]
  /\ records' = records + 1
  /\ UNCHANGED <<persistent, book, txns, index, count>>

RecordStore ==
  /\ Pending("store")
  /\ txns' = [i \in DOMAIN txns \cup {recording.id} |->
                IF i = recording.id THEN recording.user ELSE txns[i]]
  /\ StepDone
  /\ UNCHANGED <<persistent, book, saved, index, records, count>>

LastOf(s, n) == IF Len(s) <= n THEN s ELSE SubSeq(s, Len(s) - n + 1, Len(s))

RecordIndex ==
  /\ Pending("index")
  /\ index' = [index EXCEPT ![recording.user] = LastOf(Append(@, recording.id), HistoryLimit)]
  /\ StepDone
  /\ UNCHANGED <<persistent, book, saved, txns, records, count>>

(* The process ends between any two steps and another one loads the state. *)
Loaded == saved

Crash ==
  /\ persistent /\ count.crashes < MaxCrashes
  /\ mem' = Loaded
  /\ writes' = <<>>
  /\ recording' = NoRecord
  /\ count' = [count EXCEPT !.crashes = @ + 1]
  /\ UNCHANGED <<persistent, saved, txns, index, records>>

BooksNext ==
  \/ \E u \in Users, a \in Seeds : SeedUsdt(u, a)
  \/ \E w \in Workers, a \in Seeds : SeedDevUsdt(w, a)
  \/ \E w \in Workers : RegisterWorker(w) \/ ApplyPenalty(w)
  \/ \E u \in Users, a \in Budgets : FreezeUsdt(u, a) \/ CreateEscrowHold(u, a)
  \/ \E i \in Ids, w \in Workers, s \in BOOLEAN :
       \/ SettleEscrow(i, w, s)
       \/ \E c \in Costs : ReleaseEscrowDynamic(i, w, c, s)
  \/ \E u \in Users, r \in Ratings : SubmitRating(u, r)
  \/ \E u \in Users : RecordStart(u)
  \/ RecordStore \/ RecordIndex \/ Write \/ Crash

BooksSpec == BooksInit /\ [][BooksNext]_booksVars

-----------------------------------------------------------------------------
(* Properties.                                                             *)
(* All the money in a book; total_system_wealth and what is on hold.       *)
Worth(b) ==
  SumFunctionOnSet(b.user, Users) + SumFunctionOnSet(b.dev, Workers)
  + SumFunctionOnSet(b.coll, Workers) + b.treasury
  + SumFunctionOnSet([i \in Ids |-> b.vault[i].amount], Ids)

(* No operation of the ledger makes or destroys money: but for a deposit,  *)
(* the wealth of the system moves by the rounding of a settlement, a cent  *)
(* at most.  After a crash a hold may get the id of a live one and bury    *)
(* it; the wealth then falls by the hold that is lost.                     *)
Buries == mem'.counter = NextId /\ NextId \in Ids /\ mem.vault[NextId] # NoHold

Conserves ==
  LET moved == Worth(mem') - Worth(mem) - (count'.seeded - count.seeded)
  IN count'.crashes = count.crashes /\ ~Buries => moved \in -Cent..Cent

WealthMoves == [][Conserves]_booksVars

(* What an operation did is in Redis when it returns, except a slash: the  *)
(* strikes, the collateral and the treasury of a slash wait for the next   *)
(* operation that happens to save them.                                    *)
AcknowledgedIsSaved ==
  persistent /\ writes = <<>> =>
    /\ \A f \in {"user", "dev", "vault", "used", "rep", "rated", "entries", "score"} :
         saved[f] = mem[f]
    /\ saved.counter >= mem.counter
    /\ count.slashed = 0 => saved.coll = mem.coll /\ saved.strikes = mem.strikes
                              /\ saved.treasury = mem.treasury
    /\ \A w \in Workers : saved.coll[w] - mem.coll[w] \in 0..Slash * count.slashed

(* Whenever the process ends, what the next one loads is worth no more     *)
(* than was paid in: a crash may lose the money of the operation it cuts   *)
(* short but pays nobody twice, except that of a slash the dollar may be   *)
(* in the treasury and still in the collateral.                            *)
RestartMintsOnlySlashes ==
  Worth(saved) <= count.seeded + Slash * count.slashed + Cent * count.settled

(* A user's history names only transactions that are stored, at whatever   *)
(* step of record() the process ended.                                     *)
IndexedIsStored == \A u \in Users : \A n \in DOMAIN index[u] : index[u][n] \in DOMAIN txns
=============================================================================
