--------------------------- MODULE CommerceProofs ---------------------------
(***************************************************************************)
(* Commerce for any number of users, parties and threads and any finite    *)
(* set of tasks: nothing is ever overdrawn, the proofs of a settled task   *)
(* are for the shares in its snapshot, a consumer's spend is what he was   *)
(* charged, what is pending is what the snapshots owe, and the books       *)
(* balance; each but for what a write of an earlier read overwrote.        *)
(*                                                                         *)
(* Types come first, then how the threads share the tasks, then money.     *)
(***************************************************************************)
EXTENDS Commerce, Sums

Jobs == {"none", "deposit", "withdraw", "seed", "purchase", "settle", "quoted", "refund"}
Parts == {"none", "balance", "pool", "worker", "dev", "fees", "spend"}
Labels == {"free", "get", "put", "grant", "check", "price", "phase", "have", "quote", "pot", "devpot"}
Phases == {"q1", "q2_q5"}

Local == [pc : Labels, job : Jobs, part : Parts, read : Nat, due : Nat, user : Users,
          worker : Workers \cup {NoParty}, dev : Devs \cup {NoParty}, task : Tasks \cup {NoTask},
          mode : Modes, trial : BOOLEAN, source : Pools, price : Nat, phase : Phases,
          ws : Nat, ds : Nat, ts : Nat]
Snap == [st : {"none", "settled", "refunded"}, worker : Workers \cup {NoParty},
         dev : Devs \cup {NoParty}, ws : Nat, ds : Nat, ts : Nat]
Admission == [st : {"absent", "open", "charged"}, user : Users, mode : Modes]

(* The parts of a job.                                                     *)
Placed(q) ==
  \/ q.pc = "free" /\ q.job = "none" /\ q.part = "none"
  \/ q.pc \in {"get", "put"} /\ q.job \in {"deposit", "withdraw"} /\ q.part = "balance"
  \/ q.pc \in {"get", "put"} /\ q.job = "seed" /\ q.part = "pool"
  \/ q.pc \in {"get", "put"} /\ q.job = "purchase" /\ q.part \in {"balance", "pool"}
  \/ q.pc \in {"get", "put"} /\ q.job = "settle" /\ q.part \in {"balance", "worker", "dev", "fees", "spend"}
  \/ q.pc \in {"get", "put"} /\ q.job = "quoted" /\ q.part = "pool"
  \/ q.pc \in {"get", "put"} /\ q.job = "refund" /\ q.part \in {"worker", "dev", "fees", "balance"}
  \/ q.pc = "grant" /\ q.job = "purchase" /\ q.part = "none"
  \/ q.pc = "check" /\ q.job = "settle" /\ q.part = "balance"
  \/ q.pc \in {"price", "phase", "have", "quote"} /\ q.job = "quoted" /\ q.part = "pool"
  \/ q.pc \in {"pot", "devpot"} /\ q.job \in {"settle", "quoted"} /\ q.part = "none"

Serving(q) == q.job \in {"settle", "quoted"}
Tasked(q) == q.job \in {"settle", "quoted", "refund"}

(* The shares make up the cost, and there is none without a party.         *)
AddsUp(s) == s.ws + s.ds + s.ts = Cost /\ (s.dev = NoParty => s.ds = 0)
Sharing(q) == q.job = "refund" \/ (q.job = "settle" /\ q.part \in {"worker", "dev", "fees"})

(* What a thread has read covers what it is about to take; and what it has *)
(* to go by fits its job.                                                  *)
Fits(q) ==
  /\ IF Tasked(q) THEN q.task \in Tasks /\ q.worker \in Workers ELSE q.task = NoTask
  /\ q.job = "purchase" => q.mode \in Passes
  /\ q.job = "settle" => Metered(q)
  /\ q.job = "quoted" => ~Metered(q)
  /\ q.job \in {"settle", "refund"} => q.due = Cost
  /\ Sharing(q) => AddsUp(q)
Covered(q) == q.pc = "put" /\ Takes(q) => q.read >= Amount(q)
Sound(q) == q \in Local /\ Placed(q) /\ Fits(q) /\ Covered(q)

Right(s) ==
  /\ s.worker \in Workers /\ AddsUp(s)
  /\ s.ws = Share(Cost, WorkerBps)
  /\ s.ds = IF s.dev = NoParty THEN 0 ELSE Share(Cost, DeveloperBps)

Books ==
  /\ snap \in [Tasks -> Snap] /\ \A i \in Tasks : snap[i].st = "settled" => Right(snap[i])
  /\ task \in [Tasks -> Admission]
  /\ price \in [Modes -> Nat] /\ phase \in Phases
Locals == thread \in [Threads -> Local] /\ \A t \in Threads : Sound(thread[t])

TInv == TypeOK /\ Books /\ Locals

LEMMA Constants ==
  /\ NoParty \notin Workers \cup Devs /\ NoTask \notin Tasks /\ LoadUser \in Users
  /\ Cost \in Nat /\ Cost > 0 /\ PassPrice \in Nat /\ TaskPrices \subseteq Nat /\ Amounts \subseteq Nat
  BY CommerceAssumption

LEMMA ShareNat ==
  ASSUME NEW x \in Nat, NEW bps \in {WorkerBps, DeveloperBps, 9500}
  PROVE  Share(x, bps) \in Nat
  BY DEF Share, WorkerBps, DeveloperBps

LEMMA SharesWithinCost ==
  ASSUME NEW x \in Nat
  PROVE  Share(x, WorkerBps) + Share(x, DeveloperBps) <= x
  BY DEF Share, WorkerBps, DeveloperBps

LEMMA MaxOfTwo ==
  ASSUME NEW x \in Int, NEW y \in Int
  PROVE  Max({x, y}) = IF x >= y THEN x ELSE y
  BY DEF Max

LEMMA FreeFields ==
  /\ Free \in Local /\ Free.pc = "free" /\ Free.job = "none" /\ Free.part = "none"
  /\ Free.task = NoTask /\ Sound(Free)
  <1>1. Free \in Local /\ Free.pc = "free" /\ Free.job = "none" /\ Free.part = "none" /\ Free.task = NoTask
    BY Constants DEF Free, Local, Labels, Jobs, Parts, Modes, Pools, Phases
  <1> HIDE DEF Free
  <1>2. Placed(Free) /\ Covered(Free) /\ Fits(Free)
    BY <1>1 DEF Placed, Covered, Fits, Tasked, Sharing
  <1>3. QED
    BY <1>1, <1>2 DEF Sound

LEMMA SplitTyped ==
  ASSUME NEW d \in Devs \cup {NoParty}, NEW w \in Workers
  PROVE  /\ Split(d, w) \in Snap /\ Right(Split(d, w)) /\ AddsUp(Split(d, w))
         /\ Split(d, w).st = "settled" /\ Split(d, w).worker = w /\ Split(d, w).dev = d
  <1> DEFINE a == Share(Cost, WorkerBps)
             b == Share(Cost, DeveloperBps)
             c == IF d = NoParty THEN 0 ELSE b
             s == Split(d, w)
  <1>1. a \in Nat /\ b \in Nat /\ a + b <= Cost /\ Cost \in Nat
    BY Constants, ShareNat, SharesWithinCost
  <1>2. s = [st |-> "settled", worker |-> w, dev |-> d, ws |-> a, ds |-> c, ts |-> Cost - c - a]
    BY DEF Split
  <1> HIDE DEF a, b, s
  <1>3. c \in Nat /\ Cost - c - a \in Nat
    BY <1>1
  <1>4. /\ s \in Snap /\ s.st = "settled" /\ s.worker = w /\ s.dev = d
        /\ s.ws = a /\ s.ds = c /\ s.ts = Cost - c - a
    BY <1>1, <1>2, <1>3 DEF Snap
  <1>5. AddsUp(s)
    BY <1>1, <1>3, <1>4 DEF AddsUp
  <1>6. Right(s)
    BY <1>4, <1>5 DEF Right, a, b
  <1>7. QED
    BY <1>4, <1>5, <1>6 DEF s
-----------------------------------------------------------------------------
(* Locals.                                                                 *)

Alike(q, r) ==
  /\ r.job = q.job /\ r.user = q.user /\ r.worker = q.worker /\ r.task = q.task
  /\ r.mode = q.mode /\ r.trial = q.trial /\ r.source = q.source
AlikeInMoney(q, r) == r.due = q.due /\ r.dev = q.dev /\ r.ws = q.ws /\ r.ds = q.ds /\ r.ts = q.ts

LEMMA ToFields ==
  ASSUME NEW q \in Local, NEW k \in Parts
  PROVE  /\ To(q, k) \in Local /\ To(q, k).pc = "get" /\ To(q, k).part = k
         /\ Alike(q, To(q, k)) /\ AlikeInMoney(q, To(q, k))
  BY DEF To, Local, Labels, Alike, AlikeInMoney

LEMMA LeaveFields ==
  ASSUME NEW q \in Local, NEW l \in Labels
  PROVE  /\ Leave(q, l) \in Local /\ Leave(q, l).pc = l /\ Leave(q, l).part = "none"
         /\ Alike(q, Leave(q, l)) /\ AlikeInMoney(q, Leave(q, l))
  BY DEF Leave, Local, Parts, Alike, AlikeInMoney

WithRead(q, l, n) == [q EXCEPT !.pc = l, !.read = n]
WithPrice(q, l, n) == [q EXCEPT !.pc = l, !.price = n]
WithPhase(q, l, f) == [q EXCEPT !.pc = l, !.phase = f]
WithLabel(q, l) == [q EXCEPT !.pc = l]

LEMMA ReadFields ==
  ASSUME NEW q \in Local, NEW l \in Labels, NEW n \in Nat
  PROVE  /\ WithRead(q, l, n) \in Local /\ WithRead(q, l, n).pc = l /\ WithRead(q, l, n).part = q.part /\ WithRead(q, l, n).read = n
         /\ Alike(q, WithRead(q, l, n)) /\ AlikeInMoney(q, WithRead(q, l, n))
  BY DEF WithRead, Local, Alike, AlikeInMoney

LEMMA PriceFields ==
  ASSUME NEW q \in Local, NEW l \in Labels, NEW n \in Nat
  PROVE  /\ WithPrice(q, l, n) \in Local /\ WithPrice(q, l, n).pc = l /\ WithPrice(q, l, n).part = q.part
         /\ Alike(q, WithPrice(q, l, n)) /\ AlikeInMoney(q, WithPrice(q, l, n))
  BY DEF WithPrice, Local, Alike, AlikeInMoney

LEMMA PhaseFields ==
  ASSUME NEW q \in Local, NEW l \in Labels, NEW f \in Phases
  PROVE  /\ WithPhase(q, l, f) \in Local /\ WithPhase(q, l, f).pc = l /\ WithPhase(q, l, f).part = q.part
         /\ Alike(q, WithPhase(q, l, f)) /\ AlikeInMoney(q, WithPhase(q, l, f))
  BY DEF WithPhase, Local, Alike, AlikeInMoney

LEMMA LabelFields ==
  ASSUME NEW q \in Local, NEW l \in Labels
  PROVE  /\ WithLabel(q, l) \in Local /\ WithLabel(q, l).pc = l /\ WithLabel(q, l).part = q.part
         /\ Alike(q, WithLabel(q, l)) /\ AlikeInMoney(q, WithLabel(q, l))
  BY DEF WithLabel, Local, Alike, AlikeInMoney

(* What goes by the same things fits as well.                              *)
LEMMA FitsAlike ==
  ASSUME NEW q, NEW r, Fits(q), Alike(q, r), AlikeInMoney(q, r), Sharing(r) => Sharing(q)
  PROVE  Fits(r)
  BY DEF Fits, Alike, AlikeInMoney, Tasked, Metered, AddsUp

LEMMA CellOf ==
  ASSUME NEW q, Sound(q), q.part # "none"
  PROVE  /\ Cell(q) \in Cells /\ Amount(q) \in Nat
         /\ Cell(q)[1] \in {"balance", "pending", "pool", "fees", "spend"}
         /\ q.part = "spend" <=> Cell(q)[1] = "spend"
         /\ q.part # "spend" => Cell(q) \in Accounts
  <1>1. q \in Local /\ q.part \in Parts \ {"none"} /\ (q.part = "worker" => q.worker \in Workers)
    <2>1. q \in Local /\ q.part \in Parts /\ (q.part = "worker" => q.job \in {"settle", "refund"})
      BY DEF Sound, Local, Placed
    <2>2. QED
      BY <2>1 DEF Sound, Fits, Tasked
  <1>2. /\ q.user \in Users /\ q.source \in Pools /\ q.dev \in Devs \cup {NoParty}
        /\ q.ws \in Nat /\ q.ds \in Nat /\ q.ts \in Nat /\ q.due \in Nat
    BY <1>1 DEF Local
  <1>3. Amount(q) \in Nat
    BY <1>2 DEF Amount
  <1>4. CASE q.part \in {"balance", "spend"}
    BY <1>2, <1>3, <1>4 DEF Cell, Cells, Accounts
  <1>5. CASE q.part = "pool"
    BY <1>2, <1>3, <1>5 DEF Cell, Cells, Accounts
  <1>6. CASE q.part = "worker"
    BY <1>1, <1>2, <1>3, <1>6 DEF Cell, Cells, Accounts, Parties
  <1>7. CASE q.part = "dev"
    BY <1>2, <1>3, <1>7 DEF Cell, Cells, Accounts, Parties, Fees
  <1>8. CASE q.part = "fees"
    BY <1>2, <1>3, <1>8 DEF Cell, Cells, Accounts, Fees
  <1>9. QED
    BY <1>1, <1>4, <1>5, <1>6, <1>7, <1>8 DEF Parts

LEMMA WrittenTyped ==
  ASSUME NEW q, Sound(q), q.pc = "put"
  PROVE  /\ Written(q) \in Nat /\ q.read \in Nat /\ Amount(q) \in Nat /\ q.part # "none"
         /\ Takes(q) => q.read >= Amount(q) /\ Written(q) = q.read - Amount(q)
         /\ Unwinds(q) /\ q.read >= Amount(q) => Written(q) = q.read - Amount(q)
         /\ ~Takes(q) /\ ~Unwinds(q) => Written(q) = q.read + Amount(q)
  <1>1. q.read \in Nat /\ q.part # "none"
    BY DEF Sound, Local, Placed
  <1>2. Amount(q) \in Nat
    BY <1>1, CellOf
  <1> DEFINE n == q.read
             a == Amount(q)
  <1>3. Takes(q) => n >= a
    BY DEF Sound, Covered
  <1>4. Takes(q) => ~Unwinds(q)
    BY DEF Takes, Unwinds
  <1>5. Written(q) = CASE Takes(q) -> n - a [] Unwinds(q) -> Max({0, n - a}) [] OTHER -> n + a
    BY DEF Written
  <1> HIDE DEF n, a
  <1>6. n \in Nat /\ a \in Nat
    BY <1>1, <1>2 DEF n, a
  <1>7. Max({0, n - a}) = IF n >= a THEN n - a ELSE 0
    <2> DEFINE x == n - a
    <2>1. x \in Int /\ (x > 0 => n >= a) /\ (n >= a => x >= 0)
      BY <1>6
    <2> HIDE DEF x
    <2>2. Max({0, x}) = IF 0 >= x THEN 0 ELSE x
      BY <2>1, MaxOfTwo
    <2>3. Max({0, x}) = IF n >= a THEN x ELSE 0
      BY <1>6, <2>1, <2>2
    <2>4. QED
      BY <2>3 DEF x
  <1>8. CASE Takes(q)
    BY <1>1, <1>3, <1>4, <1>5, <1>6, <1>8 DEF n, a
  <1>9. CASE Unwinds(q)
    BY <1>1, <1>4, <1>5, <1>6, <1>7, <1>9 DEF n, a
  <1>10. CASE ~Takes(q) /\ ~Unwinds(q)
    BY <1>1, <1>5, <1>6, <1>10 DEF n, a
  <1>11. QED
    BY <1>8, <1>9, <1>10

LEMMA StoreTyped ==
  ASSUME TypeOK, NEW q, Sound(q), q.pc = "put", Store(q)
  PROVE  /\ money' \in [Cells -> Nat]
         /\ stale' \subseteq {"balance", "pending", "pool", "fees", "spend", "developer"}
  <1>1. /\ Cell(q) \in Cells /\ Written(q) \in Nat
        /\ Cell(q)[1] \in {"balance", "pending", "pool", "fees", "spend"}
    BY CellOf, WrittenTyped
  <1>2. money' = [money EXCEPT ![Cell(q)] = Written(q)] /\ stale' \in {stale, stale \cup {Cell(q)[1]}}
    BY DEF Store
  <1>3. QED
    BY <1>1, <1>2 DEF TypeOK

(* What comes after a part.                                                *)
Done(q) ==
  q.job \in {"deposit", "withdraw", "seed"} \/ <<q.job, q.part>> \in {<<"settle", "spend">>, <<"refund", "balance">>}
OnTo(q, r) ==
  \/ q.job = "purchase" /\ q.part = "balance" /\ r.pc = "get" /\ r.part = "pool"
  \/ q.job = "purchase" /\ q.part = "pool" /\ r.pc = "grant" /\ r.part = "none"
  \/ q.job = "quoted" /\ q.part = "pool" /\ r.pc = "pot" /\ r.part = "none"
  \/ q.job = "settle" /\ q.part = "worker" /\ r.pc = "get" /\ r.part = "dev"
  \/ q.job = "settle" /\ q.part = "dev" /\ r.pc = "get" /\ r.part = "fees"
  \/ q.job = "settle" /\ q.part = "fees" /\ r.pc = "pot" /\ r.part = "none"
  \/ q.job = "refund" /\ q.part = "worker" /\ q.dev # NoParty /\ r.pc = "get" /\ r.part = "dev"
  \/ q.job = "refund" /\ q.part = "worker" /\ q.dev = NoParty /\ r.pc = "get" /\ r.part = "fees"
  \/ q.job = "refund" /\ q.part = "dev" /\ r.pc = "get" /\ r.part = "fees"
Special(q) == <<q.job, q.part>> \in {<<"settle", "balance">>, <<"refund", "fees">>}

LEMMA AfterSound ==
  ASSUME NEW q, Sound(q), q.pc = "put", ~Special(q)
  PROVE  /\ Sound(After(q))
         /\ \/ Done(q) /\ After(q) = Free
            \/ OnTo(q, After(q)) /\ Alike(q, After(q)) /\ AlikeInMoney(q, After(q))
  <1>1. q \in Local /\ Placed(q) /\ Fits(q)
    BY DEF Sound
  <1> DEFINE Goal(r) == Sound(r) /\ OnTo(q, r) /\ Alike(q, r) /\ AlikeInMoney(q, r)
  <1>2. ASSUME NEW k \in Parts, ~Done(q), OnTo(q, To(q, k)) PROVE Goal(To(q, k))
    <2> DEFINE r == To(q, k)
    <2>1. r \in Local /\ r.pc = "get" /\ r.part = k /\ Alike(q, r) /\ AlikeInMoney(q, r) /\ OnTo(q, r)
      BY <1>1, <1>2, ToFields
    <2> HIDE DEF r
    <2>2. Placed(r) /\ (Sharing(r) => Sharing(q))
      BY <2>1 DEF OnTo, Placed, Sharing, Alike
    <2>3. Fits(r) /\ Covered(r)
      BY <1>1, <2>1, <2>2, FitsAlike DEF Covered
    <2>4. QED
      BY <2>1, <2>2, <2>3 DEF Sound, r
  <1>3. ASSUME NEW l \in {"grant", "pot"}, ~Done(q), OnTo(q, Leave(q, l)) PROVE Goal(Leave(q, l))
    <2> DEFINE r == Leave(q, l)
    <2>1. r \in Local /\ r.pc = l /\ r.part = "none" /\ Alike(q, r) /\ AlikeInMoney(q, r) /\ OnTo(q, r)
      BY <1>1, <1>3, LeaveFields DEF Labels
    <2> HIDE DEF r
    <2>2. Placed(r) /\ (Sharing(r) => Sharing(q))
      BY <1>3, <2>1 DEF OnTo, Placed, Sharing, Alike
    <2>3. Fits(r) /\ Covered(r)
      BY <1>1, <1>3, <2>1, <2>2, FitsAlike DEF Covered
    <2>4. QED
      BY <2>1, <2>2, <2>3 DEF Sound, r
  <1>4. CASE Done(q)
    <2>1. After(q) = Free
      BY <1>4 DEF Done, After
    <2>2. QED
      BY <1>4, <2>1, FreeFields
  <1>5. CASE ~Done(q)
    <2> USE <1>5
    <2>0. /\ \A k \in Parts : To(q, k).pc = "get" /\ To(q, k).part = k
          /\ \A l \in {"grant", "pot"} : Leave(q, l).pc = l /\ Leave(q, l).part = "none"
      BY <1>1, ToFields, LeaveFields DEF Labels
    <2> HIDE DEF Goal
    <2>1. CASE q.job = "purchase" /\ q.part = "balance"
      <3>1. After(q) = To(q, "pool") /\ OnTo(q, To(q, "pool"))
        BY <2>0, <2>1 DEF After, OnTo, Parts
      <3>2. QED
        BY <1>2, <3>1 DEF Goal, Parts
    <2>2. CASE q.job = "purchase" /\ q.part = "pool"
      <3>1. After(q) = Leave(q, "grant") /\ OnTo(q, Leave(q, "grant"))
        BY <2>0, <2>2 DEF After, OnTo
      <3>2. QED
        BY <1>3, <3>1 DEF Goal
    <2>3. CASE q.job = "quoted" /\ q.part = "pool"
      <3>1. After(q) = Leave(q, "pot") /\ OnTo(q, Leave(q, "pot"))
        BY <2>0, <2>3 DEF After, OnTo
      <3>2. QED
        BY <1>3, <3>1 DEF Goal
    <2>4. CASE q.job = "settle" /\ q.part = "worker"
      <3>1. After(q) = To(q, "dev") /\ OnTo(q, To(q, "dev"))
        BY <2>0, <2>4 DEF After, OnTo, Parts
      <3>2. QED
        BY <1>2, <3>1 DEF Goal, Parts
    <2>5. CASE q.job = "settle" /\ q.part = "dev"
      <3>1. After(q) = To(q, "fees") /\ OnTo(q, To(q, "fees"))
        BY <2>0, <2>5 DEF After, OnTo, Parts
      <3>2. QED
        BY <1>2, <3>1 DEF Goal, Parts
    <2>6. CASE q.job = "settle" /\ q.part = "fees"
      <3>1. After(q) = Leave(q, "pot") /\ OnTo(q, Leave(q, "pot"))
        BY <2>0, <2>6 DEF After, OnTo
      <3>2. QED
        BY <1>3, <3>1 DEF Goal
    <2>7. CASE q.job = "refund" /\ q.part = "worker" /\ q.dev # NoParty
      <3>1. After(q) = To(q, "dev") /\ OnTo(q, To(q, "dev"))
        BY <2>0, <2>7 DEF After, OnTo, Parts
      <3>2. QED
        BY <1>2, <3>1 DEF Goal, Parts
    <2>8. CASE q.job = "refund" /\ q.part = "worker" /\ q.dev = NoParty
      <3>1. After(q) = To(q, "fees") /\ OnTo(q, To(q, "fees"))
        BY <2>0, <2>8 DEF After, OnTo, Parts
      <3>2. QED
        BY <1>2, <3>1 DEF Goal, Parts
    <2>9. CASE q.job = "refund" /\ q.part = "dev"
      <3>1. After(q) = To(q, "fees") /\ OnTo(q, To(q, "fees"))
        BY <2>0, <2>9 DEF After, OnTo, Parts
      <3>2. QED
        BY <1>2, <3>1 DEF Goal, Parts
    <2>10. QED
      BY <1>1, <2>1, <2>2, <2>3, <2>4, <2>5, <2>6, <2>7, <2>8, <2>9 DEF Placed, Done, Special
  <1>6. QED
    BY <1>4, <1>5

(* A thread that only reads goes on with its part, or gives up what it has *)
(* taken nothing for.                                                      *)
GivesUp(q) ==
  \/ q.job = "quoted"
  \/ <<q.job, q.part>> \in {<<"withdraw", "balance">>, <<"purchase", "balance">>, <<"settle", "balance">>}
Onward(q, r) ==
  /\ q.part # "none"
  /\ \/ r = Free /\ GivesUp(q)
     \/ Alike(q, r) /\ r.part = q.part /\ AlikeInMoney(q, r)
     \/ Alike(q, r) /\ q.job = "quoted"
Reading(t) ==
  Get(t) \/ CheckBalance(t) \/ GetPrice(t) \/ GetPhase(t) \/ GetPoolBalance(t) \/ TakeQuote(t)

LEMMA ReadSound ==
  ASSUME NEW q, Sound(q), q.part # "none", NEW r \in Local, Placed(r),
         Alike(q, r), AlikeInMoney(q, r), r.part = q.part, Covered(r)
  PROVE  Sound(r) /\ Onward(q, r)
  <1>1. Sharing(r) => Sharing(q)
    BY DEF Sharing, Alike
  <1>2. QED
    BY <1>1, FitsAlike DEF Sound, Onward

LEMMA GetStep ==
  ASSUME TInv, NEW t \in Threads, Get(t)
  PROVE  \E r : Sound(r) /\ Becomes(t, r) /\ Onward(thread[t], r)
  <1> DEFINE q == thread[t]
             have == money[Cell(q)]
             put == WithRead(q, "put", have)
             pot == Leave(q, "pot")
  <1>1. Sound(q) /\ q \in Local /\ Placed(q) /\ Fits(q) /\ q.pc = "get"
    BY DEF TInv, Locals, Sound, Get, At
  <1>2. \/ Becomes(t, put) /\ (~Takes(q) \/ Covers(q, have))
        \/ Becomes(t, pot) /\ q.job = "quoted"
        \/ Becomes(t, Free) /\ Takes(q) /\ q.job # "quoted"
    BY DEF Get, WithRead
  <1>3. q.part # "none" /\ have \in Nat
    <2>1. q.part # "none"
      BY <1>1 DEF Placed
    <2>2. QED
      BY <1>1, <2>1, CellOf DEF TInv, TypeOK
  <1> HIDE DEF q, have
  <1>4. /\ put \in Local /\ put.pc = "put" /\ put.part = q.part /\ put.read = have
        /\ Alike(q, put) /\ AlikeInMoney(q, put)
    <2>1. "put" \in Labels /\ q \in Local /\ have \in Nat
      BY <1>1, <1>3 DEF Labels
    <2>2. QED
      BY <2>1, ReadFields
  <1>5. /\ pot \in Local /\ pot.pc = "pot" /\ pot.part = "none" /\ Alike(q, pot) /\ AlikeInMoney(q, pot)
    BY <1>1, LeaveFields DEF Labels
  <1> HIDE DEF put, pot
  <1>6. CASE Becomes(t, put) /\ (~Takes(q) \/ Covers(q, have))
    <2>1. Placed(put)
      BY <1>1, <1>4 DEF Placed, Alike
    <2>2. Takes(put) = Takes(q) /\ Amount(put) = Amount(q)
      BY <1>4 DEF Takes, Amount, Alike, AlikeInMoney
    <2>3. Covered(put)
      BY <1>4, <1>6, <2>2 DEF Covered, Covers
    <2>4. Sound(put) /\ Onward(q, put)
      BY <1>1, <1>3, <1>4, <2>1, <2>3, ReadSound
    <2>5. QED
      BY <1>6, <2>4 DEF q
  <1>7. CASE Becomes(t, pot) /\ q.job = "quoted"
    <2>1. Placed(pot) /\ ~Sharing(pot) /\ Covered(pot)
      BY <1>5, <1>7 DEF Placed, Alike, Sharing, Covered
    <2>2. Sound(pot) /\ Onward(q, pot)
      BY <1>1, <1>3, <1>5, <1>7, <2>1, FitsAlike DEF Sound, Onward
    <2>3. QED
      BY <1>7, <2>2 DEF q
  <1>8. CASE Becomes(t, Free) /\ Takes(q) /\ q.job # "quoted"
    <2>1. GivesUp(q)
      BY <1>8 DEF Takes, GivesUp
    <2>2. QED
      BY <1>3, <1>8, <2>1, FreeFields DEF Onward, q
  <1>9. QED
    BY <1>2, <1>6, <1>7, <1>8

LEMMA QuoteFields ==
  ASSUME NEW q \in Local, NEW d \in Devs \cup {NoParty}
  PROVE  /\ Quote(q, d) \in Local /\ Alike(q, Quote(q, d))
         /\ Quote(q, d).part = q.part /\ Quote(q, d).pc = q.pc /\ Quote(q, d).read = q.read
  <1> DEFINE ws == IF q.trial THEN Share(q.price, WorkerBps) ELSE 0
             ds == IF d = NoParty \/ q.mode = "buyout" THEN 0
                   ELSE Share(q.price, IF q.phase = "q1" THEN DeveloperBps ELSE 9500)
             due == Max({q.price, ws + ds})
  <1>1. q.price \in Nat
    BY DEF Local
  <1>2. ws \in Nat /\ ds \in Nat
    BY <1>1, ShareNat
  <1>3. Quote(q, d) = [q EXCEPT !.dev = d, !.ws = ws, !.ds = ds, !.due = due]
    BY DEF Quote
  <1>4. due \in Nat
    <2> HIDE DEF ws, ds
    <2>1. q.price \in Int /\ ws + ds \in Int
      BY <1>1, <1>2
    <2>2. QED
      BY <1>1, <1>2, <2>1, MaxOfTwo
  <1> HIDE DEF ws, ds, due
  <1>5. Quote(q, d) \in Local
    <2> DEFINE v == [q EXCEPT !.dev = d, !.ws = ws]
    <2>1. Quote(q, d) = [v EXCEPT !.ds = ds, !.due = due]
      BY <1>3
    <2>2. v \in Local
      BY <1>2 DEF Local
    <2> HIDE DEF v
    <2>3. QED
      BY <1>2, <1>4, <2>1, <2>2 DEF Local
  <1>6. Alike(q, Quote(q, d)) /\ Quote(q, d).part = q.part /\ Quote(q, d).pc = q.pc /\ Quote(q, d).read = q.read
    BY <1>3 DEF Local, Alike
  <1>7. QED
    BY <1>5, <1>6

LEMMA QuotedStep ==
  ASSUME TInv, NEW t \in Threads, TakeQuote(t)
  PROVE  \E r : Sound(r) /\ Becomes(t, r) /\ Onward(thread[t], r)
  <1> DEFINE q == thread[t]
             c == Quote(q, developer[q.mode])
             pool == To(c, "pool")
             pot == Leave(c, "pot")
  <1>1. q \in Local /\ Placed(q) /\ Fits(q) /\ q.pc = "quote" /\ q.mode \in Modes
    BY DEF TInv, Locals, Sound, TakeQuote, At, Local
  <1>2. Becomes(t, pool) \/ Becomes(t, pot) \/ Becomes(t, Free)
    BY DEF TakeQuote
  <1>3. c \in Local /\ Alike(q, c)
    BY <1>1, QuoteFields DEF TInv, TypeOK
  <1> HIDE DEF c, q
  <1>4. /\ pool \in Local /\ pool.pc = "get" /\ pool.part = "pool" /\ Alike(c, pool)
        /\ pot \in Local /\ pot.pc = "pot" /\ pot.part = "none" /\ Alike(c, pot)
    BY <1>3, ToFields, LeaveFields DEF Labels, Parts
  <1> HIDE DEF pool, pot
  <1>5. Alike(q, pool) /\ Alike(q, pot)
    BY <1>3, <1>4 DEF Alike
  <1>6. q.job = "quoted" /\ q.part # "none"
    BY <1>1 DEF Placed
  <1>7. ASSUME NEW r \in Local, Alike(q, r), Placed(r), r.pc # "put"
        PROVE  Sound(r) /\ Onward(q, r)
    <2>1. r.job = "quoted" /\ ~Sharing(r)
      BY <1>6, <1>7 DEF Alike, Sharing
    <2>2. Fits(r)
      BY <1>1, <1>6, <1>7, <2>1 DEF Fits, Alike, Tasked, Metered
    <2>3. QED
      BY <1>6, <1>7, <2>2 DEF Sound, Covered, Onward
  <1>8. Placed(pool) /\ Placed(pot)
    BY <1>4, <1>5, <1>6 DEF Placed, Alike
  <1>9. Sound(Free) /\ Onward(q, Free)
    BY <1>6, FreeFields DEF Onward, GivesUp
  <1>10. QED
    BY <1>2, <1>4, <1>5, <1>7, <1>8, <1>9 DEF q

LEMMA ReadingStep ==
  ASSUME TInv, NEW t \in Threads, Reading(t)
  PROVE  /\ UNCHANGED <<money, records, task, net, stale>>
         /\ \E r : Sound(r) /\ Becomes(t, r) /\ Onward(thread[t], r)
  <1> DEFINE q == thread[t]
  <1>0. Sound(q) /\ q \in Local /\ Placed(q)
    BY DEF TInv, Locals, Sound
  <1>1. UNCHANGED <<money, records, task, net, stale>>
    BY DEF Reading, Get, CheckBalance, GetPrice, GetPhase, GetPoolBalance, TakeQuote
  <1>2. CASE Get(t) \/ TakeQuote(t)
    BY <1>1, <1>2, GetStep, QuotedStep
  <1>3. CASE CheckBalance(t)
    <2> DEFINE r == To(q, "balance")
    <2>1. q.pc = "check" /\ (Becomes(t, r) \/ Becomes(t, Free))
      BY <1>3 DEF CheckBalance, At
    <2>2. r \in Local /\ r.pc = "get" /\ r.part = "balance" /\ Alike(q, r) /\ AlikeInMoney(q, r)
      BY <1>0, ToFields DEF Parts
    <2>3. q.job = "settle" /\ q.part = "balance"
      BY <1>0, <2>1 DEF Placed
    <2> HIDE DEF r, q
    <2>4. Placed(r) /\ Covered(r)
      BY <2>2, <2>3 DEF Placed, Covered, Alike
    <2>5. Sound(r) /\ Onward(q, r)
      BY <1>0, <2>2, <2>3, <2>4, ReadSound
    <2>6. Sound(Free) /\ Onward(q, Free)
      BY <2>3, FreeFields DEF Onward, GivesUp
    <2>7. QED
      BY <1>1, <2>1, <2>5, <2>6 DEF q
  <1>4. ASSUME NEW l \in {"phase", "have", "quote"}, q.pc \in {"price", "phase", "have"},
               NEW r \in Local, r.pc = l, r.part = q.part, Alike(q, r), AlikeInMoney(q, r)
        PROVE  Sound(r) /\ Onward(q, r)
    <2> HIDE DEF q
    <2>1. q.job = "quoted" /\ q.part = "pool"
      BY <1>0, <1>4 DEF Placed
    <2>2. Placed(r) /\ Covered(r)
      BY <1>4, <2>1 DEF Placed, Covered, Alike
    <2>3. QED
      BY <1>0, <1>4, <2>1, <2>2, ReadSound
  <1>5. CASE GetPrice(t)
    <2> DEFINE n == price[q.mode]
               r == WithPrice(q, "phase", n)
    <2>1. q.pc = "price" /\ Becomes(t, r)
      BY <1>5 DEF GetPrice, At, WithPrice
    <2>2. n \in Nat
      BY <1>0 DEF TInv, Books, Local
    <2> HIDE DEF q, n
    <2>3. r \in Local /\ r.pc = "phase" /\ r.part = q.part /\ Alike(q, r) /\ AlikeInMoney(q, r)
      BY <1>0, <2>2, PriceFields DEF Labels
    <2> HIDE DEF r
    <2>4. Sound(r) /\ Onward(q, r)
      BY <1>4, <2>1, <2>3
    <2>5. QED
      BY <1>1, <2>1, <2>4 DEF q
  <1>6. CASE GetPhase(t)
    <2> DEFINE r == WithPhase(q, "have", phase)
    <2>1. q.pc = "phase" /\ Becomes(t, r) /\ phase \in Phases
      BY <1>6 DEF GetPhase, At, WithPhase, TInv, Books
    <2> HIDE DEF q
    <2>3. r \in Local /\ r.pc = "have" /\ r.part = q.part /\ Alike(q, r) /\ AlikeInMoney(q, r)
      BY <1>0, <2>1, PhaseFields DEF Labels
    <2> HIDE DEF r
    <2>4. Sound(r) /\ Onward(q, r)
      BY <1>4, <2>1, <2>3
    <2>5. QED
      BY <1>1, <2>1, <2>4 DEF q
  <1>7. CASE GetPoolBalance(t)
    <2> DEFINE n == money[Cell(q)]
               r == WithRead(q, "quote", n)
    <2>1. q.pc = "have" /\ Becomes(t, r)
      BY <1>7 DEF GetPoolBalance, At, WithRead
    <2>2. n \in Nat
      <3>1. q.part # "none"
        BY <1>0, <2>1 DEF Placed
      <3>2. QED
        BY <1>0, <3>1, CellOf DEF TInv, TypeOK
    <2> HIDE DEF q, n
    <2>3. r \in Local /\ r.pc = "quote" /\ r.part = q.part /\ Alike(q, r) /\ AlikeInMoney(q, r)
      BY <1>0, <2>2, ReadFields DEF Labels
    <2> HIDE DEF r
    <2>4. Sound(r) /\ Onward(q, r)
      BY <1>4, <2>1, <2>3
    <2>5. QED
      BY <1>1, <2>1, <2>4 DEF q
  <1>8. QED
    BY <1>2, <1>3, <1>5, <1>6, <1>7 DEF Reading

(* The steps that write.                                                   *)
LEMMA PutStep ==
  ASSUME TInv, NEW t \in Threads, Put(t)
  PROVE  /\ TypeOK' /\ Books'
         /\ Sound(thread[t]) /\ thread[t].pc = "put" /\ ~Special(thread[t])
         /\ \E r : /\ Sound(r) /\ Becomes(t, r) /\ r = After(thread[t])
                   /\ \/ Done(thread[t]) /\ r = Free
                      \/ OnTo(thread[t], r) /\ Alike(thread[t], r) /\ AlikeInMoney(thread[t], r)
  <1> DEFINE q == thread[t]
  <1>1. Sound(q) /\ q.pc = "put" /\ ~Special(q) /\ Store(q) /\ Becomes(t, After(q)) /\ UNCHANGED <<records, task>>
    BY DEF TInv, Locals, Put, At, Special
  <1> HIDE DEF q
  <1>2. TypeOK' /\ Books'
    BY <1>1, StoreTyped DEF TInv, TypeOK, Books, records
  <1>3. QED
    BY <1>1, <1>2, AfterSound DEF q

Settles(q, s, r) ==
  /\ Alike(q, r) /\ r.pc = "get" /\ r.part = "worker" /\ r.due = q.due
  /\ r.dev = s.dev /\ r.ws = s.ws /\ r.ds = s.ds /\ r.ts = s.ts

LEMMA SettlementStep ==
  ASSUME TInv, NEW t \in Threads, PutSettlement(t),
         NEW q, q = thread[t], NEW s, s = Split(developer[q.mode], q.worker)
  PROVE  /\ TypeOK' /\ Books'
         /\ Sound(q) /\ q.pc = "put" /\ q.job = "settle" /\ q.part = "balance"
         /\ s \in Snap /\ s.st = "settled" /\ AddsUp(s) /\ Right(s)
         /\ s.worker = q.worker /\ s.dev = developer[q.mode]
         /\ \E r : Sound(r) /\ Becomes(t, r) /\ Settles(q, s, r)
  <1>1. /\ Sound(q) /\ q \in Local /\ Fits(q) /\ q.pc = "put" /\ q.job = "settle" /\ q.part = "balance"
        /\ Store(q) /\ snap' = [snap EXCEPT ![q.task] = s]
        /\ UNCHANGED <<developer, trial, pass, price, phase, pots, task>>
    BY DEF TInv, Locals, Sound, PutSettlement, At
  <1>2. q.task \in Tasks /\ q.worker \in Workers /\ developer[q.mode] \in Devs \cup {NoParty}
    BY <1>1 DEF Fits, Tasked, TInv, TypeOK, Local
  <1>3. /\ s \in Snap /\ s.st = "settled" /\ AddsUp(s) /\ Right(s)
        /\ s.worker = q.worker /\ s.dev = developer[q.mode]
    BY <1>2, SplitTyped
  <1>4. TypeOK'
    BY <1>1, StoreTyped DEF TInv, TypeOK
  <1>5. Books'
    BY <1>1, <1>3 DEF TInv, Books
  <1> DEFINE v == [q EXCEPT !.dev = s.dev, !.ws = s.ws, !.ds = s.ds, !.ts = s.ts]
             r == To(v, "worker")
  <1>6. Becomes(t, r)
    BY DEF PutSettlement
  <1>7. /\ v \in Local /\ Alike(q, v) /\ v.due = q.due
        /\ v.dev = s.dev /\ v.ws = s.ws /\ v.ds = s.ds /\ v.ts = s.ts
    <2> PICK d, a, b, c : d = s.dev /\ a = s.ws /\ b = s.ds /\ c = s.ts
      OBVIOUS
    <2>1. d \in Devs \cup {NoParty} /\ a \in Nat /\ b \in Nat /\ c \in Nat
      BY <1>3 DEF Snap
    <2>2. v = [q EXCEPT !.dev = d, !.ws = a, !.ds = b, !.ts = c]
      OBVIOUS
    <2> HIDE DEF v
    <2>3. v \in Local /\ Alike(q, v) /\ v.due = q.due /\ v.dev = d /\ v.ws = a /\ v.ds = b /\ v.ts = c
      <3>1. q \in Local
        BY <1>1
      <3>2. v \in Local
        <4> DEFINE y == [q EXCEPT !.dev = d, !.ws = a]
        <4>1. v = [y EXCEPT !.ds = b, !.ts = c]
          BY <2>2
        <4>2. y \in Local
          BY <2>1, <3>1 DEF Local
        <4> HIDE DEF y
        <4>3. QED
          BY <2>1, <4>1, <4>2 DEF Local
      <3>3. Alike(q, v) /\ v.due = q.due
        BY <2>2, <3>1 DEF Local, Alike
      <3>4. v.dev = d /\ v.ws = a /\ v.ds = b /\ v.ts = c
        BY <2>2, <3>1 DEF Local
      <3>5. QED
        BY <3>2, <3>3, <3>4
    <2>4. QED
      BY <2>3
  <1> HIDE DEF v
  <1>8. r \in Local /\ r.pc = "get" /\ r.part = "worker" /\ Alike(v, r) /\ AlikeInMoney(v, r)
    BY <1>7, ToFields DEF Parts
  <1> HIDE DEF r
  <1>9. Settles(q, s, r)
    BY <1>7, <1>8 DEF Settles, Alike, AlikeInMoney
  <1>10. Sound(r)
    <2>1. Placed(r) /\ Covered(r) /\ Tasked(r) /\ Tasked(q)
      BY <1>1, <1>9 DEF Placed, Covered, Settles, Alike, Tasked
    <2>2. AddsUp(r)
      BY <1>3, <1>9 DEF AddsUp, Settles
    <2>3. Fits(r)
      BY <1>1, <1>9, <2>1, <2>2 DEF Fits, Settles, Alike, Metered
    <2>4. QED
      BY <1>8, <2>1, <2>3 DEF Sound
  <1>11. QED
    BY <1>1, <1>3, <1>4, <1>5, <1>6, <1>9, <1>10

LEMMA GrantStep ==
  ASSUME TInv, NEW t \in Threads, Grant(t)
  PROVE  TypeOK' /\ Books' /\ Becomes(t, Free) /\ thread[t].pc = "grant" /\ Sound(thread[t])
  <1> DEFINE q == thread[t]
  <1>1. /\ Sound(q) /\ q \in Local /\ q.pc = "grant" /\ pass' = pass \cup {<<q.user, q.mode>>}
        /\ UNCHANGED <<money, snap, developer, trial, price, phase, pots, task, stale>>
        /\ Becomes(t, Free)
    BY DEF TInv, Locals, Sound, Grant, At
  <1> HIDE DEF q
  <1>2. q.job = "purchase"
    BY <1>1 DEF Sound, Placed
  <1>3. q.user \in Users /\ q.mode \in Passes
    BY <1>1, <1>2 DEF Sound, Fits, Local
  <1>4. pass' \subseteq Users \X Passes
    BY <1>1, <1>3 DEF TInv, TypeOK
  <1>5. TypeOK' /\ Books'
    BY <1>1, <1>4 DEF TInv, TypeOK, Books
  <1>6. QED
    BY <1>1, <1>5 DEF q

LEMMA WorkerPotStep ==
  ASSUME TInv, NEW t \in Threads, WorkerPot(t), NEW q, q = thread[t]
  PROVE  /\ TypeOK' /\ Books' /\ Sound(q) /\ q.pc = "pot" /\ Serving(q)
         /\ \E r : /\ Sound(r) /\ Becomes(t, r) /\ Alike(q, r) /\ AlikeInMoney(q, r)
                   /\ r.pc = "devpot" /\ r.part = "none"
  <1> DEFINE x == IF q.job = "settle" THEN PotOfCost(q) ELSE q.ws
             r == WithLabel(q, "devpot")
  <1>1. /\ Sound(q) /\ q \in Local /\ Fits(q) /\ Placed(q) /\ q.pc = "pot"
        /\ pots' = [pots EXCEPT ![q.task][q.worker] = x] /\ Becomes(t, r)
        /\ UNCHANGED <<money, snap, developer, trial, pass, price, phase, task, stale>>
    BY DEF TInv, Locals, Sound, WorkerPot, At, WithLabel
  <1>2. x \in Nat /\ q.part = "none" /\ Serving(q)
    BY <1>1, Constants, ShareNat DEF PotOfCost, Local, Placed, Serving
  <1> HIDE DEF x
  <1>3. TypeOK' /\ Books'
    BY <1>1, <1>2 DEF TInv, TypeOK, Books
  <1>4. r \in Local /\ r.pc = "devpot" /\ r.part = "none" /\ Alike(q, r) /\ AlikeInMoney(q, r)
    BY <1>1, <1>2, LabelFields DEF Labels
  <1> HIDE DEF r
  <1>5. Placed(r) /\ ~Sharing(r) /\ Covered(r)
    BY <1>2, <1>4 DEF Placed, Sharing, Covered, Alike, Serving
  <1>6. Sound(r)
    BY <1>1, <1>4, <1>5, FitsAlike DEF Sound
  <1>7. QED
    BY <1>1, <1>2, <1>3, <1>4, <1>6

LEMMA DeveloperPotStep ==
  ASSUME TInv, NEW t \in Threads, DeveloperPot(t), NEW q, q = thread[t]
  PROVE  /\ TypeOK' /\ Books' /\ Sound(q) /\ q.pc = "devpot" /\ Serving(q)
         /\ \E r : /\ Sound(r) /\ Becomes(t, r)
                   /\ IF q.job = "settle"
                      THEN Alike(q, r) /\ AlikeInMoney(q, r) /\ r.pc = "get" /\ r.part = "spend"
                      ELSE r = Free
  <1> DEFINE d == IF q.job = "settle" THEN developer[q.mode] ELSE q.dev
             ds == IF q.job = "settle" THEN Share(Cost, DeveloperBps) ELSE q.ds
             r == To(q, "spend")
  <1>1. /\ Sound(q) /\ q \in Local /\ Fits(q) /\ Placed(q) /\ q.pc = "devpot"
        /\ pots' = pots \/ pots' = [pots EXCEPT ![q.task][d] = ds]
        /\ Becomes(t, IF Metered(q) THEN r ELSE Free)
        /\ UNCHANGED <<money, snap, developer, trial, pass, price, phase, task, stale>>
    BY DEF TInv, Locals, Sound, DeveloperPot, At
  <1>2. ds \in Nat /\ q.part = "none" /\ Serving(q)
    BY <1>1, Constants, ShareNat DEF Local, Placed, Serving
  <1> HIDE DEF d, ds
  <1>3. TypeOK' /\ Books'
    <2> PICK old : old = pots
      OBVIOUS
    <2>1. old \in [Tasks -> [Parties -> Nat \cup {NoPot}]] /\ (pots' = old \/ pots' = [old EXCEPT ![q.task][d] = ds])
      BY <1>1 DEF TInv, TypeOK
    <2>2. pots' \in [Tasks -> [Parties -> Nat \cup {NoPot}]]
      BY <1>2, <2>1
    <2>3. QED
      BY <1>1, <2>2 DEF TInv, TypeOK, Books
  <1>4. r \in Local /\ r.pc = "get" /\ r.part = "spend" /\ Alike(q, r) /\ AlikeInMoney(q, r)
    BY <1>1, <1>2, ToFields DEF Parts
  <1> HIDE DEF r
  <1>5. CASE q.job = "settle"
    <2>1. Placed(r) /\ ~Sharing(r) /\ Covered(r) /\ Metered(q)
      BY <1>1, <1>4, <1>5 DEF Placed, Sharing, Covered, Alike, Fits
    <2>2. Sound(r)
      BY <1>1, <1>4, <2>1, FitsAlike DEF Sound
    <2>3. QED
      BY <1>1, <1>2, <1>3, <1>4, <1>5, <2>1, <2>2
  <1>6. CASE q.job # "settle"
    <2>1. ~Metered(q)
      BY <1>1, <1>2, <1>6 DEF Serving, Fits
    <2>2. QED
      BY <1>1, <1>2, <1>3, <1>6, <2>1, FreeFields
  <1>7. QED
    BY <1>5, <1>6

LEMMA RefundedStep ==
  ASSUME TInv, NEW t \in Threads, PutRefund(t), NEW q, q = thread[t]
  PROVE  /\ TypeOK' /\ Books'
         /\ Sound(q) /\ q.pc = "put" /\ q.job = "refund" /\ q.part = "fees"
         /\ \E r : /\ Sound(r) /\ Becomes(t, r) /\ Alike(q, r) /\ AlikeInMoney(q, r)
                   /\ r.pc = "get" /\ r.part = "balance"
  <1> DEFINE r == To(q, "balance")
  <1>1. /\ Sound(q) /\ q \in Local /\ Fits(q) /\ Placed(q) /\ q.pc = "put" /\ q.job = "refund" /\ q.part = "fees"
        /\ Store(q) /\ snap' = [snap EXCEPT ![q.task].st = "refunded"] /\ Becomes(t, r)
        /\ UNCHANGED <<developer, trial, pass, price, phase, pots, task>>
    BY DEF TInv, Locals, Sound, PutRefund, At
  <1>2. q.task \in Tasks
    BY <1>1 DEF Fits, Tasked
  <1>3. TypeOK'
    BY <1>1, StoreTyped DEF TInv, TypeOK
  <1>4. Books'
    <2>1. snap' \in [Tasks -> Snap]
      <3>1. [snap[q.task] EXCEPT !.st = "refunded"] \in Snap
        BY <1>2 DEF TInv, Books, Snap
      <3>2. QED
        BY <1>1, <3>1 DEF TInv, Books
    <2>2. ASSUME NEW i \in Tasks, snap'[i].st = "settled" PROVE Right(snap'[i])
      <3>1. snap'[i] = snap[i]
        BY <1>1, <2>2 DEF TInv, Books, Snap
      <3>2. QED
        BY <2>2, <3>1 DEF TInv, Books
    <2>3. QED
      BY <1>1, <2>1, <2>2 DEF TInv, Books
  <1>5. r \in Local /\ r.pc = "get" /\ r.part = "balance" /\ Alike(q, r) /\ AlikeInMoney(q, r)
    BY <1>1, ToFields DEF Parts
  <1> HIDE DEF r
  <1>6. Placed(r) /\ Sharing(q) /\ Covered(r)
    BY <1>1, <1>5 DEF Placed, Sharing, Covered, Alike
  <1>7. Sound(r)
    BY <1>1, <1>5, <1>6, FitsAlike DEF Sound
  <1>8. QED
    BY <1>1, <1>3, <1>4, <1>5, <1>7

(* A free thread, or the event loop, begins.                               *)
Beginning(t) ==
  \/ \E x \in Amounts : SeedPlgPool(t, x) \/ \E u \in Users : Deposit(t, u, x) \/ Withdraw(t, u, x)
  \/ \E u \in Users, m \in Passes : Purchase(t, u, m)

LEMMA BeginningStep ==
  ASSUME TInv, NEW t \in Threads, Beginning(t)
  PROVE  /\ UNCHANGED <<money, records, task, net, stale>> /\ thread[t].pc = "free"
         /\ LoopIdle
         /\ \E r : /\ Sound(r) /\ Becomes(t, r) /\ r.pc = "get" /\ ~Tasked(r)
                   /\ r.job = "purchase" => r.part = "balance"
  <1> DEFINE Goal == \E r : /\ Sound(r) /\ Becomes(t, r) /\ r.pc = "get" /\ ~Tasked(r)
                            /\ r.job = "purchase" => r.part = "balance"
  <1>1. /\ UNCHANGED <<money, records, task, net, stale>> /\ thread[t].pc = "free" /\ LoopIdle
    BY DEF Beginning, SeedPlgPool, Deposit, Withdraw, Begins, Purchase, At, Operation
  <1>2. ASSUME NEW u \in Users, NEW x \in Nat, NEW l \in {"deposit", "withdraw", "seed"},
               Becomes(t, To([Free EXCEPT !.job = l, !.user = u, !.due = x],
                             IF l = "seed" THEN "pool" ELSE "balance"))
        PROVE  Goal
    <2> DEFINE v == [Free EXCEPT !.job = l, !.user = u, !.due = x]
               k == IF l = "seed" THEN "pool" ELSE "balance"
               r == To(v, k)
    <2>1. v \in Local /\ v.job = l /\ v.task = NoTask
      BY FreeFields DEF Local, Jobs
    <2> HIDE DEF v
    <2>2. k \in Parts
      BY DEF Parts
    <2>3. r \in Local /\ r.pc = "get" /\ r.part = k /\ r.job = l /\ r.task = NoTask
      BY <2>1, <2>2, ToFields DEF Alike
    <2>4. Becomes(t, r)
      BY <1>2 DEF v
    <2> HIDE DEF r
    <2>5. Placed(r) /\ ~Tasked(r) /\ Covered(r) /\ ~Sharing(r) /\ r.job # "purchase"
      BY <2>3 DEF Placed, Tasked, Covered, Sharing
    <2>6. Fits(r)
      BY <2>3, <2>5 DEF Fits, Tasked
    <2>7. QED
      BY <2>3, <2>4, <2>5, <2>6 DEF Sound
  <1>3. ASSUME NEW u \in Users, NEW m \in Passes, Purchase(t, u, m) PROVE Goal
    <2> DEFINE v == [Free EXCEPT !.job = "purchase", !.user = u, !.mode = m, !.source = m, !.due = PassPrice]
               r == To(v, "balance")
    <2>1. v \in Local /\ v.job = "purchase" /\ v.task = NoTask /\ v.mode = m
      BY FreeFields, Constants DEF Local, Jobs, Passes, Modes, Pools
    <2>2. Becomes(t, r)
      BY <1>3 DEF Purchase
    <2> HIDE DEF v
    <2>3. r \in Local /\ r.pc = "get" /\ r.part = "balance" /\ r.job = "purchase" /\ r.task = NoTask /\ r.mode = m
      BY <2>1, ToFields DEF Alike, Parts
    <2> HIDE DEF r
    <2>4. Placed(r) /\ ~Tasked(r) /\ Covered(r) /\ ~Sharing(r)
      BY <2>3 DEF Placed, Tasked, Covered, Sharing
    <2>5. Fits(r)
      BY <2>3, <2>4 DEF Fits, Tasked
    <2>6. QED
      BY <2>2, <2>3, <2>4, <2>5 DEF Sound
  <1>4. ASSUME NEW x \in Amounts, NEW u \in Users, Deposit(t, u, x) \/ Withdraw(t, u, x) PROVE Goal
    BY <1>2, <1>4, Constants DEF Deposit, Withdraw, Begins
  <1>5. ASSUME NEW x \in Amounts, SeedPlgPool(t, x) PROVE Goal
    BY <1>2, <1>5, Constants DEF SeedPlgPool, Begins
  <1>6. QED
    BY <1>1, <1>3, <1>4, <1>5 DEF Beginning

LEMMA ChargeStep ==
  ASSUME TInv, NEW t \in Threads, NEW i \in Tasks, NEW w \in Workers, Charge(t, i, w)
  PROVE  /\ TypeOK' /\ Books' /\ UNCHANGED <<money, records, net, stale>>
         /\ thread[t].pc = "free" /\ task[i].st = "open"
         /\ task' = [task EXCEPT ![i].st = "charged"]
         /\ \E r : /\ Sound(r) /\ Becomes(t, r) /\ Serving(r) /\ r.pc \in {"check", "price"}
                   /\ r.task = i /\ r.user = task[i].user
  <1> DEFINE u == task[i].user
             m == task[i].mode
             free == trial[u][m] = 1
             metered == m = "pay_per_task" /\ ~free
             q == [Free EXCEPT !.user = u, !.worker = w, !.task = i, !.mode = m, !.trial = free]
             a == [q EXCEPT !.pc = "check", !.job = "settle", !.part = "balance", !.due = Cost]
             b == [q EXCEPT !.pc = "price", !.job = "quoted", !.part = "pool",
                            !.source = IF m \in Passes /\ ~free THEN m ELSE "plg"]
  <1>1. /\ UNCHANGED <<money, records, net, stale>> /\ thread[t].pc = "free" /\ task[i].st = "open"
        /\ task' = [task EXCEPT ![i].st = "charged"]
    BY DEF Charge, At
  <1>2. Becomes(t, IF metered THEN a ELSE b)
    BY DEF Charge
  <1>3. u \in Users /\ m \in Modes /\ free \in BOOLEAN
    BY DEF TInv, Books, Admission
  <1>4. TypeOK' /\ Books'
    <2>1. [task[i] EXCEPT !.st = "charged"] \in Admission
      BY DEF TInv, Books, Admission
    <2>2. task' \in [Tasks -> Admission]
      BY <1>1, <2>1 DEF TInv, Books
    <2>3. QED
      BY <1>1, <2>2 DEF TInv, TypeOK, Books, records
  <1> HIDE DEF u, m, free
  <1>5. q \in Local /\ q.user = u /\ q.worker = w /\ q.task = i /\ q.mode = m /\ q.trial = free
    BY <1>3, FreeFields DEF Local
  <1> HIDE DEF q
  <1>6. /\ a \in Local /\ a.pc = "check" /\ a.job = "settle" /\ a.part = "balance" /\ a.due = Cost
        /\ a.user = u /\ a.worker = w /\ a.task = i /\ a.mode = m /\ a.trial = free
    BY <1>5, Constants DEF Local, Labels, Jobs, Parts
  <1>7. /\ b \in Local /\ b.pc = "price" /\ b.job = "quoted" /\ b.part = "pool"
        /\ b.user = u /\ b.worker = w /\ b.task = i /\ b.mode = m /\ b.trial = free
    <2>1. (IF m \in Passes /\ ~free THEN m ELSE "plg") \in Pools
      BY DEF Passes, Pools
    <2> DEFINE p == IF m \in Passes /\ ~free THEN m ELSE "plg"
    <2> HIDE DEF p
    <2>2. b = [q EXCEPT !.pc = "price", !.job = "quoted", !.part = "pool", !.source = p] /\ p \in Pools
      BY <2>1 DEF p
    <2> HIDE DEF b
    <2>3. b \in Local
      <3> DEFINE y == [q EXCEPT !.pc = "price", !.job = "quoted"]
      <3>1. b = [y EXCEPT !.part = "pool", !.source = p]
        BY <2>2
      <3>2. y \in Local
        BY <1>5 DEF Local, Labels, Jobs
      <3> HIDE DEF y
      <3>3. p \in Pools /\ "pool" \in Parts
        BY <2>2 DEF Parts
      <3>4. QED
        BY <3>1, <3>2, <3>3 DEF Local
    <2>4. b.pc = "price" /\ b.job = "quoted" /\ b.part = "pool"
      BY <1>5, <2>2 DEF Local
    <2>5. b.user = u /\ b.worker = w /\ b.task = i /\ b.mode = m /\ b.trial = free
      BY <1>5, <2>2 DEF Local
    <2>6. QED
      BY <2>3, <2>4, <2>5
  <1> HIDE DEF a, b
  <1>8. CASE metered
    <2>1. Placed(a) /\ Covered(a) /\ ~Sharing(a) /\ Serving(a) /\ Tasked(a) /\ Metered(a)
      BY <1>6, <1>8 DEF Placed, Covered, Sharing, Serving, Tasked, Metered
    <2>2. Sound(a)
      BY <1>6, <2>1 DEF Sound, Fits
    <2>3. QED
      BY <1>1, <1>2, <1>4, <1>6, <1>8, <2>1, <2>2 DEF u
  <1>9. CASE ~metered
    <2>1. Placed(b) /\ Covered(b) /\ ~Sharing(b) /\ Serving(b) /\ Tasked(b) /\ ~Metered(b)
      BY <1>7, <1>9 DEF Placed, Covered, Sharing, Serving, Tasked, Metered
    <2>2. Sound(b)
      BY <1>7, <2>1 DEF Sound, Fits
    <2>3. QED
      BY <1>1, <1>2, <1>4, <1>7, <1>9, <2>1, <2>2 DEF u
  <1>10. QED
    BY <1>8, <1>9

LEMMA RefundStep ==
  ASSUME TInv, NEW t \in Threads, NEW i \in Tasks, RefundTask(t, i)
  PROVE  /\ UNCHANGED <<money, records, task, net, stale>> /\ thread[t].pc = "free" /\ LoopIdle
         /\ snap[i].st = "settled"
         /\ \E r : /\ Sound(r) /\ Becomes(t, r) /\ r.pc = "get" /\ r.job = "refund" /\ r.part = "worker"
                   /\ r.task = i /\ r.worker = snap[i].worker /\ r.dev = snap[i].dev
                   /\ r.ws = snap[i].ws /\ r.ds = snap[i].ds
  <1> DEFINE s == snap[i]
             u == task[i].user
             v == [Free EXCEPT !.job = "refund", !.task = i, !.user = u, !.due = Cost,
                      !.worker = s.worker, !.dev = s.dev, !.ws = s.ws, !.ds = s.ds, !.ts = s.ts]
             r == To(v, "worker")
  <1>1. /\ UNCHANGED <<money, records, task, net, stale>> /\ thread[t].pc = "free" /\ LoopIdle
        /\ s.st = "settled" /\ Becomes(t, r)
    BY DEF RefundTask, At
  <1>2. /\ s.worker \in Workers /\ s.dev \in Devs \cup {NoParty}
        /\ s.ws \in Nat /\ s.ds \in Nat /\ s.ts \in Nat /\ AddsUp(s) /\ u \in Users
    BY <1>1 DEF TInv, Books, Snap, Admission, Right
  <1> HIDE DEF s, u
  <1>3. /\ v \in Local /\ v.job = "refund" /\ v.task = i /\ v.due = Cost /\ v.worker = s.worker
        /\ v.dev = s.dev /\ v.ws = s.ws /\ v.ds = s.ds /\ v.ts = s.ts
    BY <1>2, FreeFields, Constants DEF Local, Jobs
  <1> HIDE DEF v
  <1>4. /\ r \in Local /\ r.pc = "get" /\ r.part = "worker" /\ r.job = "refund" /\ r.task = i /\ r.due = Cost
        /\ r.worker = s.worker /\ r.dev = s.dev /\ r.ws = s.ws /\ r.ds = s.ds /\ r.ts = s.ts
    BY <1>3, ToFields DEF Alike, AlikeInMoney, Parts
  <1> HIDE DEF r
  <1>5. Placed(r) /\ Covered(r) /\ Tasked(r) /\ AddsUp(r)
    BY <1>2, <1>4 DEF Placed, Covered, Tasked, AddsUp
  <1>6. Sound(r)
    BY <1>2, <1>4, <1>5 DEF Sound, Fits
  <1>7. QED
    BY <1>1, <1>4, <1>6 DEF s

(* What the event loop does at once.                                       *)
AtOnce ==
  \/ \E i \in Tasks, m \in Modes : Setup(i, m) \/ \E u \in Users : Run(i, u, m)
  \/ \E m \in Modes : \/ \E d \in Devs : RegisterDeveloper(m, d)
                      \/ \E x \in TaskPrices : SetSkillPricing(m, x)
  \/ SetRevenuePhase
  \/ \E u \in Users : Expire(u)

LEMMA AtOnceStep ==
  ASSUME TInv, AtOnce
  PROVE  /\ TypeOK' /\ Books' /\ UNCHANGED <<money, snap, pots, thread, net>>
         /\ \A i \in Tasks : \/ task'[i] = task[i]
                             \/ task[i].st = "absent" /\ task'[i].st = "open"
         /\ \A m \in Modes : developer'[m] # developer[m] /\ Signing(m) => "developer" \in stale'
         /\ stale' \in {stale, stale \cup {"developer"}}
  <1> DEFINE Kept == UNCHANGED <<money, snap, pots, thread, net>>
             Published == \A i \in Tasks : \/ task'[i] = task[i]
                                           \/ task[i].st = "absent" /\ task'[i].st = "open"
             Registered == \A m \in Modes : developer'[m] # developer[m] /\ Signing(m) => "developer" \in stale'
             Marked == stale' \in {stale, stale \cup {"developer"}}
             Goal == TypeOK' /\ Books' /\ Kept /\ Published /\ Registered /\ Marked
  <1> USE DEF TInv
  <1>1. ASSUME NEW i \in Tasks, NEW m \in Modes, NEW u \in Users, Admitted(i, u, m),
               \/ UNCHANGED trial
               \/ trial[u][m] = 0 /\ trial' = [trial EXCEPT ![u][m] = @ + 1]
        PROVE  Goal
    <2>1. /\ task' = [task EXCEPT ![i] = [st |-> "open", user |-> u, mode |-> m]] /\ task[i].st = "absent"
          /\ UNCHANGED <<money, snap, developer, pass, price, phase, pots, thread, net, stale>>
      BY <1>1 DEF Admitted
    <2>2. [st |-> "open", user |-> u, mode |-> m] \in Admission
      BY DEF Admission
    <2>3. task' \in [Tasks -> Admission] /\ Published
      BY <2>1, <2>2 DEF Books
    <2>4. trial' \in [Users -> [Modes -> 0..1]]
      <3>1. CASE trial' = trial
        BY <3>1 DEF TypeOK
      <3>2. CASE trial[u][m] = 0 /\ trial' = [trial EXCEPT ![u][m] = @ + 1]
        <4>1. trial' = [trial EXCEPT ![u] = [trial[u] EXCEPT ![m] = 1]]
          BY <3>2
        <4>2. QED
          BY <4>1 DEF TypeOK
      <3>3. QED
        BY <1>1, <3>1, <3>2
    <2>5. TypeOK' /\ Books'
      BY <2>1, <2>3, <2>4 DEF TypeOK, Books
    <2>6. QED
      BY <2>1, <2>3, <2>5
  <1>2. ASSUME NEW i \in Tasks, NEW m \in Modes, Setup(i, m) PROVE Goal
    BY <1>1, <1>2, Constants DEF Setup
  <1>3. ASSUME NEW i \in Tasks, NEW m \in Modes, NEW u \in Users, Run(i, u, m) PROVE Goal
    BY <1>1, <1>3 DEF Run
  <1>4. ASSUME NEW m \in Modes, NEW d \in Devs, RegisterDeveloper(m, d) PROVE Goal
    <2>1. /\ UNCHANGED <<money, snap, trial, pass, price, phase, pots, task, thread, net>>
          /\ developer' = [developer EXCEPT ![m] = d] /\ Marked
          /\ Signing(m) /\ d # developer[m] => "developer" \in stale'
      BY <1>4 DEF RegisterDeveloper
    <2>2. Registered
      BY <2>1 DEF TypeOK
    <2>3. TypeOK' /\ Books'
      BY <2>1 DEF TypeOK, Books
    <2>4. QED
      BY <2>1, <2>2, <2>3
  <1>5. ASSUME NEW m \in Modes, NEW x \in TaskPrices, SetSkillPricing(m, x) PROVE Goal
    BY <1>5, Constants DEF SetSkillPricing, TypeOK, Books
  <1>6. CASE SetRevenuePhase
    BY <1>6 DEF SetRevenuePhase, TypeOK, Books, Phases
  <1>7. ASSUME NEW u \in Users, Expire(u) PROVE Goal
    BY <1>7 DEF Expire, TypeOK, Books
  <1>8. QED
    BY <1>2, <1>3, <1>4, <1>5, <1>6, <1>7 DEF AtOnce

(* What a step does is that of one thread, or at once.                     *)
Threaded(t) ==
  \/ Reading(t) \/ Put(t) \/ PutSettlement(t) \/ Grant(t) \/ WorkerPot(t) \/ DeveloperPot(t) \/ PutRefund(t)
  \/ Beginning(t) \/ \E i \in Tasks : RefundTask(t, i) \/ \E w \in Workers : Charge(t, i, w)

LEMMA NextIsThreaded == Next => AtOnce \/ \E t \in Threads : Threaded(t)
  BY DEF Next, Step, AtOnce, Threaded, Reading, Beginning

LEMMA Unchanged ==
  ASSUME TypeOK, Books, UNCHANGED <<money, records, task, stale>>
  PROVE  TypeOK' /\ Books'
  BY DEF TypeOK, Books, records

LEMMA ThreadedStep ==
  ASSUME TInv, NEW t \in Threads, Threaded(t)
  PROVE  TypeOK' /\ Books' /\ \E r : Sound(r) /\ Becomes(t, r)
  <1>1. CASE Reading(t)
    BY <1>1, ReadingStep, Unchanged DEF TInv
  <1>2. CASE Put(t)
    BY <1>2, PutStep
  <1>3. CASE PutSettlement(t)
    BY <1>3, SettlementStep
  <1>4. CASE Grant(t)
    BY <1>4, GrantStep, FreeFields
  <1>5. CASE WorkerPot(t)
    BY <1>5, WorkerPotStep
  <1>6. CASE DeveloperPot(t)
    BY <1>6, DeveloperPotStep
  <1>7. CASE PutRefund(t)
    BY <1>7, RefundedStep
  <1>8. CASE Beginning(t)
    BY <1>8, BeginningStep, Unchanged DEF TInv
  <1>9. ASSUME NEW i \in Tasks, RefundTask(t, i)
        PROVE  TypeOK' /\ Books' /\ \E r : Sound(r) /\ Becomes(t, r)
    BY <1>9, RefundStep, Unchanged DEF TInv
  <1>10. ASSUME NEW i \in Tasks, NEW w \in Workers, Charge(t, i, w)
         PROVE  TypeOK' /\ Books' /\ \E r : Sound(r) /\ Becomes(t, r)
    BY <1>10, ChargeStep
  <1>11. QED
    BY <1>1, <1>2, <1>3, <1>4, <1>5, <1>6, <1>7, <1>8, <1>9, <1>10 DEF Threaded

LEMMA NextTInv ==
  ASSUME TInv, [Next]_vars
  PROVE  TInv'
  <1>1. CASE AtOnce
    BY <1>1, AtOnceStep DEF TInv, Locals
  <1>2. ASSUME NEW t \in Threads, Threaded(t) PROVE TInv'
    <2>1. TypeOK' /\ Books' /\ \E r : Sound(r) /\ Becomes(t, r)
      BY <1>2, ThreadedStep
    <2>2. PICK r : Sound(r) /\ Becomes(t, r)
      BY <2>1
    <2>3. Locals'
      BY <2>2 DEF TInv, Locals, Becomes, Sound
    <2>4. QED
      BY <2>1, <2>3 DEF TInv
  <1>3. CASE UNCHANGED vars
    BY <1>3, Unchanged DEF TInv, Locals, vars
  <1>4. QED
    BY <1>1, <1>2, <1>3, NextIsThreaded

LEMMA InitTInv == Init => TInv
  <1> SUFFICES ASSUME Init PROVE TInv
    OBVIOUS
  <1>1. NoSnap \in Snap /\ NoAdmission \in Admission /\ NoPot \in Nat \cup {NoPot} /\ NoSnap.st = "none"
    BY Constants DEF NoSnap, Snap, NoAdmission, Admission, Modes
  <1>2. TypeOK /\ Books
    BY <1>1, Constants DEF Init, TypeOK, Books, Phases
  <1>3. Locals
    BY FreeFields DEF Init, Locals
  <1>4. QED
    BY <1>2, <1>3 DEF TInv

(* For any number of users, parties, tasks and threads, neither a deposit  *)
(* nor a pool is ever overdrawn, a write of what was read before included. *)
THEOREM TypeSafe == Spec => []TypeOK
  <1>1. TInv => TypeOK
    BY DEF TInv
  <1>2. QED
    BY <1>1, InitTInv, NextTInv, PTL DEF Spec
-----------------------------------------------------------------------------
(* How threads share the tasks.                                            *)

Empty(p) == \A x \in Parties : p[x] = NoPot

(* The proofs p of a settled task are those of its snapshot s; marked is 1 *)
(* if a developer was registered in between.                             *)
Signed(s, p, marked) ==
  s.worker \notin Devs =>
    /\ p[s.worker] = s.ws
    /\ marked = 0 => \A x \in Parties \ {s.worker} : p[x] = IF x = s.dev /\ s.ds > 0 THEN s.ds ELSE NoPot

(* Where a thread q is with a task that has the snapshot s, the proofs p   *)
(* and the admission a; d is its skill's developer.                        *)
ServingStage(q, s, p, a, d, marked) ==
  /\ a.st = "charged" /\ a.user = q.user
  /\ s.st # "none" <=> q.job = "settle" /\ q.part # "balance"
  /\ q.job = "settle" =>
       /\ q.part # "spend" /\ q.pc # "devpot" => Empty(p)
       /\ q.part # "balance" => s.worker = q.worker /\ Right(s)
       /\ q.part \notin {"balance", "spend"} /\ marked = 0 => s.dev = d
       /\ q.pc = "devpot" => \A x \in Parties : p[x] = IF x = s.worker THEN s.ws ELSE NoPot
       /\ q.part = "spend" => Signed(s, p, marked)
RefundStage(q, s) ==
  q.part # "balance" =>
    s.st = "settled" /\ s.worker = q.worker /\ s.dev = q.dev /\ s.ws = q.ws /\ s.ds = q.ds
Stage(q, s, p, a, d, marked) ==
  /\ Serving(q) => ServingStage(q, s, p, a, d, marked)
  /\ q.job = "refund" => RefundStage(q, s)

Mark == IF "developer" \in stale THEN 1 ELSE 0
Staged(t) ==
  Stage(thread[t], snap[thread[t].task], pots[thread[t].task], task[thread[t].task],
        developer[thread[t].mode], Mark)
Settled(i) ==
  /\ task[i].st # "charged" => snap[i].st = "none" /\ Empty(pots[i])
  /\ snap[i].st # "none" /\ ~Busy(i) => Signed(snap[i], pots[i], Mark)

SInv ==
  /\ \A t \in Threads : Staged(t)
  /\ \A t, u \in Threads : Serving(thread[t]) /\ Serving(thread[u]) /\ thread[t].task = thread[u].task => t = u
  /\ \A t, u \in Threads : thread[t].job \in LoopJobs /\ thread[u].job \in LoopJobs => t = u
  /\ \A i \in Tasks : Settled(i)

(* The tasks whose cost has been recorded with their user's spend.         *)
Charged(u) == {i \in Tasks : task[i].user = u /\ snap[i].st # "none" /\ ~Busy(i)}

(* A refund changes nothing else of a snapshot.                            *)
Refunded(s, z) ==
  /\ s.st # "none" /\ z.st # "none"
  /\ z.worker = s.worker /\ z.dev = s.dev /\ z.ws = s.ws /\ z.ds = s.ds /\ z.ts = s.ts

LEMMA BusyServes ==
  ASSUME TInv, NEW i \in Tasks
  PROVE  Busy(i) <=> \E t \in Threads : Serving(thread[t]) /\ thread[t].task = i
  <1>1. ASSUME NEW t \in Threads, thread[t].task = i
        PROVE  Serving(thread[t]) <=> thread[t].job # "refund"
    <2>1. Fits(thread[t])
      BY DEF TInv, Locals, Sound
    <2>2. Tasked(thread[t])
      BY <1>1, <2>1, Constants DEF Fits
    <2>3. QED
      BY <2>2 DEF Tasked, Serving
  <1>2. QED
    BY <1>1 DEF Busy

LEMMA BusyServesNext ==
  ASSUME TInv', NEW i \in Tasks
  PROVE  Busy(i)' <=> \E t \in Threads : Serving(thread'[t]) /\ thread'[t].task = i
  <1>1. ASSUME NEW t \in Threads, thread'[t].task = i
        PROVE  Serving(thread'[t]) <=> thread'[t].job # "refund"
    <2>1. Fits(thread'[t])
      BY DEF TInv, Locals, Sound
    <2>2. Tasked(thread'[t])
      BY <1>1, <2>1, Constants DEF Fits
    <2>3. QED
      BY <2>2 DEF Tasked, Serving
  <1>2. QED
    BY <1>1 DEF Busy

LEMMA StageRefunded ==
  ASSUME NEW q, NEW s, NEW z, NEW p, NEW a, NEW d, NEW marked,
         Refunded(s, z), Serving(q), Stage(q, s, p, a, d, marked)
  PROVE  Stage(q, z, p, a, d, marked)
  <1>1. q.job # "refund"
    BY DEF Serving
  <1>2. Signed(s, p, marked) => Signed(z, p, marked)
    BY DEF Signed, Refunded
  <1>3. Right(s) => Right(z)
    BY DEF Right, AddsUp, Refunded
  <1>4. QED
    BY <1>1, <1>2, <1>3 DEF Stage, ServingStage, Refunded

(* A thread q goes on as r and leaves the others' tasks alone.             *)
Shares(t, q, r) ==
  /\ Becomes(t, r) /\ q = thread[t]
  /\ UNCHANGED <<task, developer>> /\ Mark' = Mark
  /\ \A j \in Tasks : j # q.task => snap'[j] = snap[j] /\ pots'[j] = pots[j]
  /\ q.task \in Tasks =>
       IF Serving(q) THEN snap'[q.task] = snap[q.task] \/ snap[q.task].st = "none"
       ELSE /\ pots'[q.task] = pots[q.task]
            /\ snap'[q.task] = snap[q.task] \/ (q.job = "refund" /\ Refunded(snap[q.task], snap'[q.task]))
  /\ Serving(r) => Serving(q) /\ r.task = q.task
  /\ r.job \in LoopJobs => q.job \in LoopJobs \/ LoopIdle

LEMMA SharesBusy ==
  ASSUME TInv, TInv', NEW t \in Threads, NEW q, NEW r, Shares(t, q, r)
  PROVE  /\ thread' = [thread EXCEPT ![t] = r] /\ q = thread[t] /\ thread'[t] = r
         /\ \A u \in Threads : u # t => thread'[u] = thread[u]
         /\ Serving(q) => q.task \in Tasks /\ Busy(q.task)
         /\ \A j \in Tasks : IF j = q.task /\ Serving(q) THEN Serving(r) => Busy(j)'
                             ELSE Busy(j)' <=> Busy(j)
  <1>1. /\ thread' = [thread EXCEPT ![t] = r] /\ q = thread[t] /\ thread'[t] = r
        /\ \A u \in Threads : u # t => thread'[u] = thread[u]
    BY DEF Shares, Becomes, TInv, Locals
  <1>2. Serving(q) => q.task \in Tasks
    <2>1. Fits(q)
      BY <1>1 DEF TInv, Locals, Sound
    <2>2. QED
      BY <2>1 DEF Fits, Tasked, Serving
  <1>3. Serving(q) => Busy(q.task)
    BY <1>1, <1>2, BusyServes
  <1>4. ASSUME NEW j \in Tasks, j = q.task, Serving(r) PROVE Busy(j)'
    BY <1>1, <1>4, BusyServesNext DEF Shares
  <1>5. ASSUME NEW j \in Tasks, ~(j = q.task /\ Serving(q)) PROVE Busy(j)' <=> Busy(j)
    <2>1. ASSUME NEW u \in Threads
          PROVE  Serving(thread'[u]) /\ thread'[u].task = j <=> Serving(thread[u]) /\ thread[u].task = j
      BY <1>1, <1>5 DEF Shares
    <2>2. QED
      BY <2>1, BusyServes, BusyServesNext
  <1>6. QED
    BY <1>1, <1>2, <1>3, <1>4, <1>5

LEMMA SharesSInv ==
  ASSUME TInv, TInv', SInv, NEW t \in Threads, NEW q, NEW r, Shares(t, q, r),
         Stage(r, snap'[r.task], pots'[r.task], task[r.task], developer[r.mode], Mark),
         Serving(q) /\ ~Serving(r) =>
           snap'[q.task].st = "none" \/ Signed(snap'[q.task], pots'[q.task], Mark)
  PROVE  SInv'
  <1> DEFINE i == q.task
  <1>1. /\ thread' = [thread EXCEPT ![t] = r] /\ q = thread[t] /\ thread'[t] = r
        /\ \A u \in Threads : u # t => thread'[u] = thread[u]
        /\ task' = task /\ developer' = developer /\ Mark' = Mark
        /\ \A j \in Tasks : IF j = i /\ Serving(q) THEN Serving(r) => Busy(j)' ELSE Busy(j)' <=> Busy(j)
    BY SharesBusy DEF Shares
  <1>3. ASSUME NEW u \in Threads PROVE Staged(u)'
    <2> DEFINE v == thread[u]
               j == v.task
    <2>1. CASE u = t
      BY <1>1, <2>1 DEF Staged
    <2>2. CASE u # t
      <3>1. thread'[u] = v /\ Stage(v, snap[j], pots[j], task[j], developer[v.mode], Mark)
        BY <1>1, <2>2 DEF SInv, Staged
      <3>2. SUFFICES Stage(v, snap'[j], pots'[j], task[j], developer[v.mode], Mark)
        BY <1>1, <3>1 DEF Staged
      <3>3. (Serving(v) \/ v.job = "refund") => j \in Tasks
        <4>1. Fits(v)
          BY DEF TInv, Locals, Sound
        <4>2. QED
          BY <4>1 DEF Fits, Tasked, Serving
      <3>4. CASE Serving(v) /\ j # i
        BY <3>1, <3>3, <3>4 DEF Shares
      <3>5. CASE Serving(v) /\ j = i
        <4>1. ~Serving(q)
          BY <1>1, <2>2, <3>5 DEF SInv
        <4>2. pots'[j] = pots[j] /\ (snap'[j] = snap[j] \/ Refunded(snap[j], snap'[j]))
          BY <3>3, <3>5, <4>1 DEF Shares
        <4> HIDE DEF v, j, i
        <4>3. QED
          BY <3>1, <3>5, <4>2, StageRefunded
      <3>6. CASE v.job = "refund" /\ j # i
        BY <3>1, <3>3, <3>6 DEF Shares
      <3>7. CASE v.job = "refund" /\ j = i
        <4>1. q.job # "refund"
          BY <1>1, <2>2, <3>7 DEF SInv, LoopJobs
        <4>2. snap'[j] = snap[j] \/ snap[j].st = "none"
          BY <3>3, <3>7, <4>1 DEF Shares
        <4>3. ~Serving(v) /\ RefundStage(v, snap[j])
          BY <3>1, <3>7 DEF Serving, Stage
        <4>4. RefundStage(v, snap'[j])
          BY <4>2, <4>3 DEF RefundStage
        <4>5. QED
          BY <4>3, <4>4 DEF Stage
      <3>8. CASE ~Serving(v) /\ v.job # "refund"
        BY <3>8 DEF Stage
      <3>9. QED
        BY <3>4, <3>5, <3>6, <3>7, <3>8
    <2>3. QED
      BY <2>1, <2>2
  <1>4. ASSUME NEW u \in Threads, NEW v \in Threads, Serving(thread'[u]), Serving(thread'[v]),
               thread'[u].task = thread'[v].task
        PROVE  u = v
    BY <1>1, <1>4 DEF SInv, Shares
  <1>5. ASSUME NEW u \in Threads, NEW v \in Threads, thread'[u].job \in LoopJobs, thread'[v].job \in LoopJobs
        PROVE  u = v
    BY <1>1, <1>5 DEF SInv, Shares, LoopIdle
  <1>6. ASSUME NEW j \in Tasks PROVE Settled(j)'
    <2>1. CASE j # i
      <3>1. snap'[j] = snap[j] /\ pots'[j] = pots[j] /\ Settled(j)
        BY <2>1 DEF Shares, SInv
      <3>2. QED
        BY <1>1, <2>1, <3>1 DEF Settled
    <2>2. CASE j = i /\ Serving(q)
      <3>1. task[i].st = "charged"
        BY <1>1 , <2>2 DEF SInv, Staged, Stage, ServingStage
      <3>2. QED
        BY <1>1, <2>2, <3>1 DEF Settled
    <2>3. CASE j = i /\ ~Serving(q)
      <3>1. pots'[i] = pots[i] /\ (snap'[i] = snap[i] \/ Refunded(snap[i], snap'[i])) /\ Settled(i)
        BY <2>3 DEF Shares, SInv
      <3>2. Busy(i)' <=> Busy(i)
        BY <1>1, <2>3
      <3>3. CASE snap'[i] = snap[i]
        BY <1>1, <2>3, <3>1, <3>2, <3>3 DEF Settled
      <3>4. CASE Refunded(snap[i], snap'[i])
        <4>1. Signed(snap[i], pots[i], Mark) => Signed(snap'[i], pots[i], Mark)
          BY <3>4 DEF Refunded, Signed
        <4>2. snap[i].st # "none" /\ snap'[i].st # "none"
          BY <3>4 DEF Refunded
        <4>3. QED
          BY <1>1, <2>3, <3>1, <3>2, <4>1, <4>2 DEF Settled
      <3>5. QED
        BY <3>1, <3>3, <3>4
    <2>4. QED
      BY <2>1, <2>2, <2>3
  <1>7. QED
    BY <1>3, <1>4, <1>5, <1>6 DEF SInv

LEMMA SharesCharged ==
  ASSUME TInv, TInv', NEW t \in Threads, NEW q, NEW r, Shares(t, q, r),
         Serving(q) /\ ~Serving(r) => snap'[q.task].st = "none"
  PROVE  \A u : Charged(u)' = Charged(u)
  <1> DEFINE i == q.task
             Over(j) == snap[j].st # "none" /\ ~Busy(j)
  <1>1. /\ task' = task /\ (Serving(q) => i \in Tasks /\ Busy(i))
        /\ \A j \in Tasks : IF j = i /\ Serving(q) THEN Serving(r) => Busy(j)' ELSE Busy(j)' <=> Busy(j)
    BY SharesBusy DEF Shares
  <1>2. ASSUME NEW j \in Tasks PROVE Over(j)' <=> Over(j)
    <2>1. CASE j = i /\ Serving(q)
      BY <1>1, <2>1
    <2>2. CASE ~(j = i /\ Serving(q))
      BY <1>1, <2>2 DEF Shares, Refunded
    <2>3. QED
      BY <2>1, <2>2
  <1>3. QED
    BY <1>1, <1>2 DEF Charged

LEMMA StoreKeeps ==
  ASSUME TInv, NEW q, Sound(q), q.pc = "put", Store(q)
  PROVE  /\ Mark' = Mark
         /\ \A c \in Cells : c # Cell(q) => money'[c] = money[c]
         /\ money'[Cell(q)] = Written(q) /\ Cell(q) \in Cells
         /\ stale \subseteq stale'
         /\ q.part # "spend" => \A u \in Users : money'[<<"spend", u>>] = money[<<"spend", u>>]
  <1>1. /\ Cell(q) \in Cells /\ Cell(q)[1] # "developer"
        /\ q.part # "spend" => Cell(q)[1] # "spend"
    BY CellOf, WrittenTyped
  <1>2. /\ money' = [money EXCEPT ![Cell(q)] = Written(q)]
        /\ stale' = stale \/ stale' = stale \cup {Cell(q)[1]}
    BY DEF Store
  <1>3. Mark' = Mark
    BY <1>1, <1>2 DEF Mark
  <1>4. money \in [Cells -> Nat]
    BY DEF TInv, TypeOK
  <1>5. \A u \in Users : <<"spend", u>> \in Cells
    BY DEF Cells
  <1>6. q.part # "spend" => \A u \in Users : <<"spend", u>> # Cell(q)
    BY <1>1
  <1>7. QED
    BY <1>1, <1>2, <1>3, <1>4, <1>5, <1>6

(* No task is charged for and no spend recorded.                           *)
Uncharged ==
  /\ \A u : Charged(u)' = Charged(u)
  /\ \A u \in Users : money'[<<"spend", u>>] = money[<<"spend", u>>]
  /\ "spend" \in stale => "spend" \in stale'

LEMMA ReadingShares ==
  ASSUME TInv, TInv', SInv, NEW t \in Threads, Reading(t)
  PROVE  SInv' /\ Uncharged
  <1> DEFINE q == thread[t]
             i == q.task
             st(x) == Stage(x, snap[i], pots[i], task[i], developer[x.mode], Mark)
  <1>1. UNCHANGED <<money, records, task, net, stale>>
    BY ReadingStep
  <1>2. PICK r : Sound(r) /\ Becomes(t, r) /\ Onward(q, r)
    BY ReadingStep
  <1>3. Sound(q) /\ st(q)
    BY DEF TInv, Locals, SInv, Staged
  <1> HIDE DEF q
  <1>4. CASE r = Free /\ GivesUp(q)
    <2>1. ~Serving(r) /\ r.job = "none"
      BY <1>4, FreeFields DEF Serving
    <2>2. Serving(q) => snap[i].st = "none"
      BY <1>3, <1>4 DEF Stage, ServingStage, GivesUp, Serving
    <2>3. Shares(t, q, r)
      BY <1>1, <1>2, <2>1 DEF Shares, records, Mark, LoopJobs, q
    <2>4. Stage(r, snap'[r.task], pots'[r.task], task[r.task], developer[r.mode], Mark)
      BY <2>1 DEF Stage
    <2>5. snap' = snap
      BY <1>1 DEF records
    <2>6. QED
      BY <1>1, <2>1, <2>2, <2>3, <2>4, <2>5, SharesSInv, SharesCharged DEF Uncharged
  <1>5. CASE Alike(q, r)
    <2>1. Shares(t, q, r) /\ (Serving(q) <=> Serving(r)) /\ r.mode = q.mode /\ r.task = i
      BY <1>1, <1>2, <1>5 DEF Shares, records, Mark, Alike, Serving, q
    <2>2. q.part # "none" /\ q.pc # "devpot"
      BY <1>2, <1>3 DEF Onward, Sound, Placed
    <2>3. st(r)
      <3>1. CASE q.job = "quoted"
        BY <1>3, <1>5, <3>1 DEF Stage, ServingStage, Alike, Serving
      <3>2. CASE r.part = q.part /\ AlikeInMoney(q, r)
        <4>1. r.pc # "devpot"
          BY <1>2, <2>2, <3>2 DEF Sound, Placed
        <4>2. QED
          BY <1>3, <1>5, <2>2, <3>2, <4>1 DEF Stage, ServingStage, RefundStage, Alike, AlikeInMoney, Serving
      <3>3. CASE r = Free /\ GivesUp(q)
        BY <3>3, FreeFields DEF Stage, Serving
      <3>4. QED
        BY <1>2, <3>1, <3>2, <3>3 DEF Onward
    <2>4. Stage(r, snap'[r.task], pots'[r.task], task[r.task], developer[r.mode], Mark)
      BY <1>1, <2>1, <2>3 DEF records
    <2>5. QED
      BY <1>1, <2>1, <2>4, SharesSInv, SharesCharged DEF Uncharged
  <1>6. QED
    BY <1>2, <1>4, <1>5 DEF Onward

LEMMA PutShares ==
  ASSUME TInv, TInv', SInv, NEW t \in Threads, Put(t), thread[t].part # "spend"
  PROVE  SInv' /\ Uncharged
  <1> DEFINE q == thread[t]
             i == q.task
             st(x) == Stage(x, snap[i], pots[i], task[i], developer[x.mode], Mark)
  <1>1. /\ Store(q) /\ UNCHANGED <<records, task>> /\ Sound(q) /\ q.pc = "put" /\ ~Special(q)
        /\ st(q)
    BY PutStep DEF Put, SInv, Staged
  <1>2. PICK r : /\ Sound(r) /\ Becomes(t, r)
                 /\ \/ Done(q) /\ r = Free
                    \/ OnTo(q, r) /\ Alike(q, r) /\ AlikeInMoney(q, r)
    BY PutStep
  <1>3. /\ Mark' = Mark /\ stale \subseteq stale'
        /\ \A u \in Users : money'[<<"spend", u>>] = money[<<"spend", u>>]
    BY <1>1, StoreKeeps
  <1>4. snap' = snap /\ pots' = pots /\ task' = task /\ developer' = developer
    BY <1>1 DEF records
  <1>5. q.part # "spend" /\ q = thread[t]
    OBVIOUS
  <1> HIDE DEF q
  <1>6. CASE Done(q) /\ r = Free
    <2>1. ~Serving(r) /\ r.job = "none" /\ ~Serving(q)
      BY <1>5, <1>6, FreeFields DEF Serving, Done
    <2>2. Shares(t, q, r)
      BY <1>2, <1>3, <1>4, <1>5, <2>1 DEF Shares, LoopJobs
    <2>3. Stage(r, snap'[r.task], pots'[r.task], task[r.task], developer[r.mode], Mark)
      BY <2>1 DEF Stage
    <2>4. QED
      BY <1>3, <2>1, <2>2, <2>3, SharesSInv, SharesCharged DEF Uncharged
  <1>7. CASE OnTo(q, r) /\ Alike(q, r) /\ AlikeInMoney(q, r)
    <2>1. (Serving(q) <=> Serving(r)) /\ r.mode = q.mode /\ r.task = i /\ r.job = q.job
      BY <1>7 DEF Alike, Serving
    <2>2. Shares(t, q, r)
      BY <1>2, <1>3, <1>4, <1>5, <2>1 DEF Shares
    <2>3. st(r)
      <3>1. CASE q.job = "quoted"
        BY <1>1, <1>7, <2>1, <3>1 DEF Stage, ServingStage, Alike, Serving
      <3>2. CASE q.job = "settle"
        <4>1. /\ r.pc # "devpot" /\ r.part \notin {"balance", "spend"}
              /\ q.pc # "devpot" /\ q.part \notin {"balance", "spend"}
          BY <1>1, <1>7, <3>2 DEF OnTo
        <4>2. QED
          BY <1>1, <1>7, <2>1, <3>2, <4>1 DEF Stage, ServingStage, Alike, Serving
      <3>3. CASE q.job = "refund"
        <4>1. q.part # "balance" /\ ~Serving(r)
          BY <1>7, <2>1, <3>3 DEF OnTo, Serving
        <4>2. QED
          BY <1>1, <1>7, <2>1, <3>3, <4>1 DEF Stage, RefundStage, Alike, AlikeInMoney
      <3>4. CASE q.job \notin {"quoted", "settle", "refund"}
        BY <2>1, <3>4 DEF Stage, Serving
      <3>5. QED
        BY <3>1, <3>2, <3>3, <3>4
    <2>4. Stage(r, snap'[r.task], pots'[r.task], task[r.task], developer[r.mode], Mark)
      BY <1>4, <2>1, <2>3
    <2>5. QED
      BY <1>3, <2>1, <2>2, <2>4, SharesSInv, SharesCharged DEF Uncharged
  <1>8. QED
    BY <1>2, <1>6, <1>7

(* When the cost has been recorded the task is charged.                    *)
LEMMA SpendShares ==
  ASSUME TInv, TInv', SInv, NEW t \in Threads, Put(t), thread[t].part = "spend",
         NEW q, q = thread[t]
  PROVE  /\ SInv' /\ q.user \in Users /\ q.task \in Tasks
         /\ \A u \in Users : Charged(u)' = IF u = q.user THEN Charged(u) \cup {q.task} ELSE Charged(u)
         /\ q.task \notin Charged(q.user)
         /\ \A u \in Users : u # q.user => money'[<<"spend", u>>] = money[<<"spend", u>>]
         /\ money'[<<"spend", q.user>>] = q.read + Cost
         /\ "spend" \notin stale' => "spend" \notin stale /\ q.read = money[<<"spend", q.user>>]
  <1> DEFINE i == q.task
  <1>1. /\ Store(q) /\ UNCHANGED <<records, task>> /\ Sound(q) /\ q.pc = "put"
        /\ Stage(q, snap[i], pots[i], task[i], developer[q.mode], Mark)
        /\ Becomes(t, After(q))
    BY PutStep DEF Put, SInv, Staged
  <1>2. q.job = "settle" /\ q.part = "spend" /\ q.due = Cost /\ i \in Tasks /\ q.user \in Users
    BY <1>1 DEF Sound, Placed, Fits, Tasked, Local
  <1>3. Becomes(t, Free)
    BY <1>1, <1>2 DEF After
  <1>4. /\ snap[i].st # "none" /\ Signed(snap[i], pots[i], Mark)
        /\ task[i].user = q.user
    BY <1>1, <1>2 DEF Stage, ServingStage, Serving
  <1>5. snap' = snap /\ pots' = pots /\ task' = task /\ developer' = developer /\ Mark' = Mark
    BY <1>1, StoreKeeps DEF records
  <1>6. Serving(q) /\ ~Serving(Free) /\ Free.job = "none"
    BY <1>2, FreeFields DEF Serving
  <1>7. Shares(t, q, Free)
    BY <1>3, <1>5, <1>6 DEF Shares, LoopJobs
  <1>8. SInv'
    <2>1. Stage(Free, snap'[Free.task], pots'[Free.task], task[Free.task], developer[Free.mode], Mark)
      BY <1>6 DEF Stage
    <2> PICK r : r = Free
      OBVIOUS
    <2>2. Stage(r, snap'[r.task], pots'[r.task], task[r.task], developer[r.mode], Mark)
      BY <2>1
    <2>3. Signed(snap'[q.task], pots'[q.task], Mark) /\ Shares(t, q, r)
      BY <1>4, <1>5, <1>7
    <2>4. QED
      BY <2>2, <2>3, SharesSInv
  <1>9. ~Busy(i)' /\ Busy(i) /\ \A j \in Tasks : j # i => (Busy(j)' <=> Busy(j))
    <2>1. \A j \in Tasks : j # i => (Busy(j)' <=> Busy(j))
      BY <1>7, SharesBusy
    <2>2. Busy(i) /\ thread'[t] = Free /\ \A u \in Threads : u # t => thread'[u] = thread[u]
      BY <1>6, <1>7, SharesBusy
    <2>3. ASSUME NEW u \in Threads, Serving(thread'[u]), thread'[u].task = i PROVE FALSE
      <3>1. u # t /\ Serving(thread[u]) /\ thread[u].task = i
        BY <1>6, <2>2, <2>3
      <3>2. QED
        BY <1>6, <3>1 DEF SInv
    <2>4. QED
      BY <1>2, <2>1, <2>2, <2>3, BusyServesNext
  <1>10. \A u \in Users : Charged(u)' = IF u = q.user THEN Charged(u) \cup {i} ELSE Charged(u)
    BY <1>2, <1>4, <1>5, <1>9 DEF Charged
  <1>11. i \notin Charged(q.user)
    BY <1>9 DEF Charged
  <1>12. Cell(q) = <<"spend", q.user>> /\ Written(q) = q.read + Cost
    <2>1. Cell(q) = <<"spend", q.user>>
      BY <1>2 DEF Cell
    <2>2. Amount(q) = Cost /\ ~Takes(q) /\ ~Unwinds(q)
      BY <1>2 DEF Amount, Takes, Unwinds
    <2>3. QED
      BY <1>1, <2>1, <2>2, WrittenTyped
  <1>13. \A u \in Users : u # q.user => money'[<<"spend", u>>] = money[<<"spend", u>>]
    <2>1. ASSUME NEW u \in Users, u # q.user PROVE <<"spend", u>> \in Cells /\ <<"spend", u>> # Cell(q)
      BY <1>12, <2>1 DEF Cells
    <2>2. QED
      BY <1>1, <2>1, StoreKeeps
  <1>14. "spend" \notin stale' => "spend" \notin stale /\ q.read = money[<<"spend", q.user>>]
    BY <1>1, <1>12 DEF Store, Stale
  <1>15. QED
    BY <1>1, <1>2, <1>8, <1>10, <1>11, <1>12, <1>13, <1>14, StoreKeeps

LEMMA SettlementShares ==
  ASSUME TInv, TInv', SInv, NEW t \in Threads, PutSettlement(t)
  PROVE  SInv' /\ Uncharged
  <1> DEFINE q == thread[t]
             i == q.task
             s == Split(developer[q.mode], q.worker)
  <1>1. /\ Store(q) /\ snap' = [snap EXCEPT ![i] = s]
        /\ UNCHANGED <<developer, pots, task>>
        /\ Stage(q, snap[i], pots[i], task[i], developer[q.mode], Mark)
    BY DEF PutSettlement, SInv, Staged
  <1> HIDE DEF q, s
  <1>2. /\ Sound(q) /\ q.pc = "put" /\ q.job = "settle" /\ q.part = "balance"
        /\ s.st = "settled" /\ Right(s) /\ s.worker = q.worker /\ s.dev = developer[q.mode]
    BY SettlementStep DEF q, s
  <1>3. PICK r : Sound(r) /\ Becomes(t, r) /\ Settles(q, s, r)
    BY SettlementStep DEF q, s
  <1>4. i \in Tasks /\ Serving(q) /\ Serving(r) /\ r.task = i /\ r.mode = q.mode /\ r.user = q.user
        /\ r.job = "settle" /\ r.part = "worker" /\ r.pc = "get" /\ r.worker = q.worker
    BY <1>2, <1>3 DEF Sound, Fits, Tasked, Serving, Settles, Alike
  <1>5. /\ snap'[i] = s /\ \A j \in Tasks : j # i => snap'[j] = snap[j]
        /\ pots' = pots /\ task' = task /\ developer' = developer
    BY <1>1, <1>4 DEF TInv, Books
  <1>6. /\ Mark' = Mark /\ stale \subseteq stale'
        /\ \A u \in Users : money'[<<"spend", u>>] = money[<<"spend", u>>]
    BY <1>1, <1>2, StoreKeeps
  <1>7. snap[i].st = "none" /\ Empty(pots[i]) /\ task[i].st = "charged" /\ task[i].user = q.user
    BY <1>1, <1>2, <1>4 DEF Stage, ServingStage
  <1>8. Shares(t, q, r)
    BY <1>3, <1>4, <1>5, <1>6, <1>7 DEF Shares, LoopJobs, q
  <1>9. Stage(r, s, pots[i], task[i], developer[r.mode], Mark)
    BY <1>2, <1>4, <1>7 DEF Stage, ServingStage
  <1>10. Stage(r, snap'[r.task], pots'[r.task], task[r.task], developer[r.mode], Mark)
    BY <1>4, <1>5, <1>9
  <1>11. QED
    BY <1>4, <1>6, <1>8, <1>10, SharesSInv, SharesCharged DEF Uncharged

LEMMA GrantShares ==
  ASSUME TInv, TInv', SInv, NEW t \in Threads, Grant(t)
  PROVE  SInv' /\ Uncharged
  <1> PICK q, r : q = thread[t] /\ r = Free
    OBVIOUS
  <1>1. /\ Becomes(t, r) /\ q.pc = "grant" /\ Sound(q)
        /\ UNCHANGED <<money, snap, developer, pots, task, stale>>
    BY GrantStep DEF Grant
  <1>2. ~Serving(q) /\ ~Serving(r) /\ r.job = "none"
    BY <1>1, FreeFields DEF Serving, Sound, Placed
  <1>3. Shares(t, q, r)
    BY <1>1, <1>2 DEF Shares, LoopJobs, Mark
  <1>4. Stage(r, snap'[r.task], pots'[r.task], task[r.task], developer[r.mode], Mark)
    BY <1>2 DEF Stage
  <1>5. QED
    BY <1>1, <1>2, <1>3, <1>4, SharesSInv, SharesCharged DEF Uncharged

LEMMA WorkerPotShares ==
  ASSUME TInv, TInv', SInv, NEW t \in Threads, WorkerPot(t)
  PROVE  SInv' /\ Uncharged
  <1> PICK q, i, x : q = thread[t] /\ i = q.task /\ x = IF q.job = "settle" THEN PotOfCost(q) ELSE q.ws
    OBVIOUS
  <1>1. /\ pots' = [pots EXCEPT ![i][q.worker] = x]
        /\ UNCHANGED <<money, snap, developer, task, stale>>
        /\ Stage(q, snap[i], pots[i], task[i], developer[q.mode], Mark)
    BY DEF WorkerPot, SInv, Staged
  <1>2. Sound(q) /\ q.pc = "pot" /\ Serving(q)
    BY WorkerPotStep
  <1>3. PICK r : /\ Sound(r) /\ Becomes(t, r) /\ Alike(q, r) /\ AlikeInMoney(q, r)
                 /\ r.pc = "devpot" /\ r.part = "none"
    BY WorkerPotStep
  <1>4. /\ i \in Tasks /\ q.worker \in Workers /\ q.part = "none" /\ Serving(r) /\ r.job = q.job
        /\ r.task = i /\ r.mode = q.mode /\ r.user = q.user /\ r.worker = q.worker
        /\ r.job \notin LoopJobs
    BY <1>2, <1>3 DEF Sound, Placed, Fits, Tasked, Serving, Alike, LoopJobs
  <1>5. /\ \A j \in Tasks : j # i => pots'[j] = pots[j]
        /\ pots'[i] = [pots[i] EXCEPT ![q.worker] = x]
        /\ pots[i] \in [Parties -> Nat \cup {NoPot}]
    BY <1>1, <1>4 DEF TInv, TypeOK
  <1>6. Shares(t, q, r)
    BY <1>1, <1>2, <1>3, <1>4, <1>5 DEF Shares, Mark
  <1>7. Stage(r, snap[i], pots'[i], task[i], developer[r.mode], Mark)
    <2>1. CASE q.job = "quoted"
      BY <1>1, <1>2, <1>4, <2>1 DEF Stage, ServingStage
    <2>2. CASE q.job = "settle"
      <3>1. /\ Empty(pots[i]) /\ Right(snap[i]) /\ snap[i].worker = q.worker
            /\ x = snap[i].ws
        BY <1>1, <1>2, <1>4, <2>2 DEF Stage, ServingStage, Right, PotOfCost
      <3>2. \A y \in Parties : pots'[i][y] = IF y = snap[i].worker THEN snap[i].ws ELSE NoPot
        BY <1>4, <1>5, <3>1 DEF Empty, Parties
      <3>3. QED
        BY <1>1, <1>2, <1>3, <1>4, <2>2, <3>1, <3>2 DEF Stage, ServingStage
    <2>3. QED
      BY <1>2, <2>1, <2>2 DEF Serving
  <1>8. Stage(r, snap'[r.task], pots'[r.task], task[r.task], developer[r.mode], Mark)
    BY <1>1, <1>4, <1>7
  <1>9. QED
    BY <1>1, <1>4, <1>6, <1>8, SharesSInv, SharesCharged DEF Uncharged

LEMMA DeveloperPotShares ==
  ASSUME TInv, TInv', SInv, NEW t \in Threads, DeveloperPot(t)
  PROVE  SInv' /\ Uncharged
  <1> PICK q, i, d, ds : /\ q = thread[t] /\ i = q.task
                         /\ d = IF q.job = "settle" THEN developer[q.mode] ELSE q.dev
                         /\ ds = IF q.job = "settle" THEN Share(Cost, DeveloperBps) ELSE q.ds
    OBVIOUS
  <1>1. /\ pots' = IF d = NoParty \/ ds = 0 THEN pots ELSE [pots EXCEPT ![i][d] = ds]
        /\ UNCHANGED <<money, snap, developer, task, stale>>
        /\ Stage(q, snap[i], pots[i], task[i], developer[q.mode], Mark)
    BY DEF DeveloperPot, SInv, Staged
  <1>2. Sound(q) /\ q.pc = "devpot" /\ Serving(q)
    BY DeveloperPotStep
  <1>3. PICK r : /\ Sound(r) /\ Becomes(t, r)
                 /\ IF q.job = "settle"
                    THEN Alike(q, r) /\ AlikeInMoney(q, r) /\ r.pc = "get" /\ r.part = "spend"
                    ELSE r = Free
    BY DeveloperPotStep
  <1>4. i \in Tasks /\ q.part = "none" /\ q.job \in {"settle", "quoted"} /\ q.mode \in Modes
    BY <1>2 DEF Sound, Placed, Fits, Tasked, Serving, Local
  <1>5. /\ \A j \in Tasks : j # i => pots'[j] = pots[j]
        /\ pots'[i] = IF d = NoParty \/ ds = 0 THEN pots[i] ELSE [pots[i] EXCEPT ![d] = ds]
        /\ pots[i] \in [Parties -> Nat \cup {NoPot}]
    BY <1>1, <1>4 DEF TInv, TypeOK
  <1>6. CASE q.job = "quoted"
    <2>1. ~Serving(r) /\ r.job = "none" /\ snap'[i].st = "none"
      BY <1>1, <1>2, <1>3, <1>6, FreeFields DEF Serving, Stage, ServingStage
    <2>2. Shares(t, q, r)
      BY <1>1, <1>2, <1>3, <1>5, <2>1 DEF Shares, Mark, LoopJobs
    <2>3. Stage(r, snap'[r.task], pots'[r.task], task[r.task], developer[r.mode], Mark)
      BY <2>1 DEF Stage
    <2>4. QED
      BY <1>1, <2>1, <2>2, <2>3, SharesSInv, SharesCharged DEF Uncharged
  <1>7. CASE q.job = "settle"
    <2>1. /\ Serving(r) /\ r.job = "settle" /\ r.task = i /\ r.mode = q.mode /\ r.user = q.user
          /\ r.worker = q.worker /\ r.part = "spend" /\ r.pc = "get" /\ r.job \notin LoopJobs
      BY <1>3, <1>7 DEF Serving, Alike, LoopJobs
    <2>2. Shares(t, q, r)
      BY <1>1, <1>2, <1>3, <1>5, <2>1 DEF Shares, Mark
    <2>3. /\ Right(snap[i]) /\ snap[i].worker = q.worker /\ (Mark = 0 => snap[i].dev = d)
          /\ \A x \in Parties : pots[i][x] = IF x = snap[i].worker THEN snap[i].ws ELSE NoPot
      BY <1>1, <1>2, <1>4, <1>7 DEF Stage, ServingStage
    <2>4. d \in Devs \cup {NoParty} /\ ds = Share(Cost, DeveloperBps) /\ ds \in Nat
      BY <1>4, <1>7, ShareNat, Constants DEF TInv, TypeOK
    <2>5. Signed(snap[i], pots'[i], Mark)
      <3> SUFFICES ASSUME snap[i].worker \notin Devs
                   PROVE  /\ pots'[i][snap[i].worker] = snap[i].ws
                          /\ Mark = 0 => \A x \in Parties \ {snap[i].worker} :
                               pots'[i][x] = IF x = snap[i].dev /\ snap[i].ds > 0 THEN snap[i].ds ELSE NoPot
        BY DEF Signed
      <3>1. pots'[i][snap[i].worker] = snap[i].ws
        BY <1>5, <2>3, <2>4 DEF Right, Parties
      <3>2. ASSUME Mark = 0, NEW x \in Parties \ {snap[i].worker}
            PROVE  pots'[i][x] = IF x = snap[i].dev /\ snap[i].ds > 0 THEN snap[i].ds ELSE NoPot
        <4>1. snap[i].dev = d /\ snap[i].ds = IF d = NoParty THEN 0 ELSE ds
          BY <2>3, <2>4, <3>2 DEF Right
        <4>2. pots[i][x] = NoPot
          BY <2>3, <3>2
        <4>3. CASE d = NoParty \/ ds = 0
          BY <1>5, <2>4, <4>1, <4>2, <4>3
        <4>4. CASE ~(d = NoParty \/ ds = 0)
          BY <1>5, <2>4, <3>2, <4>1, <4>2, <4>4
        <4>5. QED
          BY <4>3, <4>4
      <3>3. QED
        BY <3>1, <3>2
    <2>6. Stage(r, snap[i], pots'[i], task[i], developer[r.mode], Mark)
      BY <1>1, <1>2, <1>4, <1>7, <2>1, <2>3, <2>5 DEF Stage, ServingStage
    <2>7. Stage(r, snap'[r.task], pots'[r.task], task[r.task], developer[r.mode], Mark)
      BY <1>1, <2>1, <2>6
    <2>8. QED
      BY <1>1, <2>1, <2>2, <2>7, SharesSInv, SharesCharged DEF Uncharged
  <1>8. QED
    BY <1>4, <1>6, <1>7

LEMMA RefundedShares ==
  ASSUME TInv, TInv', SInv, NEW t \in Threads, PutRefund(t)
  PROVE  SInv' /\ Uncharged
  <1> PICK q, i : q = thread[t] /\ i = q.task
    OBVIOUS
  <1>1. /\ Store(q) /\ snap' = [snap EXCEPT ![i].st = "refunded"]
        /\ UNCHANGED <<developer, pots, task>>
        /\ Stage(q, snap[i], pots[i], task[i], developer[q.mode], Mark)
    BY DEF PutRefund, SInv, Staged
  <1>2. Sound(q) /\ q.pc = "put" /\ q.job = "refund" /\ q.part = "fees"
    BY RefundedStep
  <1>3. PICK r : Sound(r) /\ Becomes(t, r) /\ Alike(q, r) /\ r.part = "balance"
    BY RefundedStep
  <1>4. i \in Tasks /\ r.job = "refund" /\ ~Serving(q) /\ ~Serving(r) /\ q.job \in LoopJobs
    BY <1>2, <1>3 DEF Sound, Fits, Tasked, Serving, Alike, LoopJobs
  <1>5. Mark' = Mark /\ stale \subseteq stale' /\ \A u \in Users : money'[<<"spend", u>>] = money[<<"spend", u>>]
    BY <1>1, <1>2, StoreKeeps
  <1>6. /\ \A j \in Tasks : j # i => snap'[j] = snap[j]
        /\ Refunded(snap[i], snap'[i])
    <2>1. snap[i].st = "settled" /\ snap[i] \in Snap
      BY <1>1, <1>2, <1>4 DEF Stage, RefundStage, TInv, Books
    <2>2. snap'[i] = [snap[i] EXCEPT !.st = "refunded"] /\ \A j \in Tasks : j # i => snap'[j] = snap[j]
      BY <1>1, <1>4 DEF TInv, Books
    <2>3. QED
      BY <2>1, <2>2 DEF Refunded, Snap
  <1>7. Shares(t, q, r)
    BY <1>1, <1>2, <1>3, <1>4, <1>5, <1>6 DEF Shares
  <1>8. Stage(r, snap'[r.task], pots'[r.task], task[r.task], developer[r.mode], Mark)
    BY <1>3, <1>4 DEF Stage, RefundStage
  <1>9. QED
    BY <1>4, <1>5, <1>7, <1>8, SharesSInv, SharesCharged DEF Uncharged

LEMMA BeginningShares ==
  ASSUME TInv, TInv', SInv, NEW t \in Threads,
         Beginning(t) \/ \E i \in Tasks : RefundTask(t, i)
  PROVE  SInv' /\ Uncharged
  <1> PICK q : q = thread[t]
    OBVIOUS
  <1>1. /\ UNCHANGED <<money, records, task, net, stale>> /\ q.pc = "free" /\ LoopIdle
    BY BeginningStep, RefundStep
  <1>2. ASSUME NEW r, Becomes(t, r), ~Serving(r), r.job = "refund" => RefundStage(r, snap[r.task])
        PROVE  SInv' /\ Uncharged
    <2>1. ~Serving(q)
      BY <1>1 DEF TInv, Locals, Sound, Placed, Serving
    <2>2. snap' = snap /\ pots' = pots /\ task' = task /\ developer' = developer /\ Mark' = Mark
      BY <1>1 DEF records, Mark
    <2>3. Shares(t, q, r)
      BY <1>1, <1>2, <2>1, <2>2 DEF Shares
    <2>4. Stage(r, snap'[r.task], pots'[r.task], task[r.task], developer[r.mode], Mark)
      BY <1>2, <2>2 DEF Stage
    <2>5. QED
      BY <1>1, <2>1, <2>3, <2>4, SharesSInv, SharesCharged DEF Uncharged
  <1>3. CASE Beginning(t)
    <2>1. PICK r : Becomes(t, r) /\ ~Tasked(r)
      BY <1>3, BeginningStep
    <2>2. ~Serving(r) /\ r.job # "refund"
      BY <2>1 DEF Tasked, Serving
    <2>3. QED
      BY <1>2, <2>1, <2>2
  <1>4. ASSUME NEW i \in Tasks, RefundTask(t, i) PROVE SInv' /\ Uncharged
    <2>1. PICK r : /\ Becomes(t, r) /\ r.job = "refund" /\ r.task = i
                   /\ r.worker = snap[i].worker /\ r.dev = snap[i].dev
                   /\ r.ws = snap[i].ws /\ r.ds = snap[i].ds
      BY <1>4, RefundStep
    <2>2. snap[i].st = "settled"
      BY <1>4, RefundStep
    <2>3. ~Serving(r) /\ RefundStage(r, snap[r.task])
      BY <2>1, <2>2 DEF Serving, RefundStage
    <2>4. QED
      BY <1>2, <2>1, <2>3
  <1>5. QED
    BY <1>3, <1>4

LEMMA ChargeShares ==
  ASSUME TInv, TInv', SInv, NEW t \in Threads, NEW i \in Tasks, NEW w \in Workers, Charge(t, i, w)
  PROVE  SInv' /\ Uncharged
  <1>1. /\ UNCHANGED <<money, records, net, stale>> /\ thread[t].pc = "free" /\ task[i].st = "open"
        /\ task' = [task EXCEPT ![i].st = "charged"]
    BY ChargeStep
  <1>2. PICK r : /\ Sound(r) /\ Becomes(t, r) /\ Serving(r) /\ r.pc \in {"check", "price"}
                 /\ r.task = i /\ r.user = task[i].user
    BY ChargeStep
  <1>3. /\ snap' = snap /\ pots' = pots /\ developer' = developer /\ Mark' = Mark
        /\ thread'[t] = r /\ \A u \in Threads : u # t => thread'[u] = thread[u]
        /\ task'[i].st = "charged" /\ task'[i].user = task[i].user
        /\ \A j \in Tasks : j # i => task'[j] = task[j]
    <2>1. task[i] \in Admission
      BY DEF TInv, Books
    <2>2. task'[i] = [task[i] EXCEPT !.st = "charged"] /\ \A j \in Tasks : j # i => task'[j] = task[j]
      BY <1>1 DEF TInv, Books
    <2>3. QED
      BY <1>1, <1>2, <2>1, <2>2 DEF records, Mark, Becomes, TInv, Locals, Admission
  <1>4. snap[i].st = "none" /\ Empty(pots[i])
    BY <1>1 DEF SInv, Settled
  <1>5. \A u \in Threads : Serving(thread[u]) => thread[u].task # i /\ thread[u].task \in Tasks
    <2>1. ASSUME NEW u \in Threads, Serving(thread[u])
          PROVE  thread[u].task # i /\ thread[u].task \in Tasks
      <3>1. task[thread[u].task].st = "charged"
        BY <2>1 DEF SInv, Staged, Stage, ServingStage
      <3>2. Fits(thread[u])
        BY DEF TInv, Locals, Sound
      <3>3. QED
        BY <1>1, <2>1, <3>1, <3>2 DEF Fits, Tasked, Serving
    <2>2. QED
      BY <2>1
  <1>6. ~Serving(thread[t]) /\ r.job \notin LoopJobs
    <2>1. Placed(thread[t])
      BY DEF TInv, Locals, Sound
    <2>2. QED
      BY <1>1, <1>2, <2>1 DEF Placed, Serving, LoopJobs
  <1>7. \A j \in Tasks : j # i => (Busy(j)' <=> Busy(j))
    <2>1. ASSUME NEW j \in Tasks, j # i, NEW u \in Threads
          PROVE  Serving(thread'[u]) /\ thread'[u].task = j <=> Serving(thread[u]) /\ thread[u].task = j
      BY <1>2, <1>3, <1>6, <2>1
    <2>2. QED
      BY <2>1, BusyServes, BusyServesNext
  <1>8. ASSUME NEW u \in Threads PROVE Staged(u)'
    <2>1. CASE u = t
      <3>1. r.job = "settle" => r.part = "balance" /\ r.pc = "check"
        BY <1>2 DEF Sound, Placed
      <3>2. Stage(r, snap[i], pots[i], task'[i], developer[r.mode], Mark)
        BY <1>2, <1>3, <1>4, <3>1 DEF Stage, ServingStage, Serving
      <3>3. QED
        BY <1>2, <1>3, <2>1, <3>2 DEF Staged
    <2>2. CASE u # t
      <3> PICK v, j : v = thread[u] /\ j = v.task
        OBVIOUS
      <3>1. thread'[u] = v /\ Stage(v, snap[j], pots[j], task[j], developer[v.mode], Mark)
        BY <1>3, <2>2 DEF SInv, Staged
      <3>2. Stage(v, snap[j], pots[j], task'[j], developer[v.mode], Mark)
        <4>1. CASE Serving(v)
          BY <1>3, <1>5, <3>1, <4>1
        <4>2. CASE ~Serving(v)
          BY <3>1, <4>2 DEF Stage
        <4>3. QED
          BY <4>1, <4>2
      <3>3. QED
        BY <1>3, <3>1, <3>2 DEF Staged
    <2>3. QED
      BY <2>1, <2>2
  <1>9. ASSUME NEW u \in Threads, NEW v \in Threads, Serving(thread'[u]), Serving(thread'[v]),
               thread'[u].task = thread'[v].task
        PROVE  u = v
    BY <1>2, <1>3, <1>5, <1>9 DEF SInv
  <1>10. ASSUME NEW u \in Threads, NEW v \in Threads, thread'[u].job \in LoopJobs, thread'[v].job \in LoopJobs
         PROVE  u = v
    BY <1>3, <1>6, <1>10 DEF SInv
  <1>11. ASSUME NEW j \in Tasks PROVE Settled(j)'
    <2>1. CASE j = i
      BY <1>3, <1>4, <2>1 DEF Settled
    <2>2. CASE j # i
      BY <1>3, <1>7, <2>2 DEF SInv, Settled
    <2>3. QED
      BY <2>1, <2>2
  <1>12. SInv'
    BY <1>8, <1>9, <1>10, <1>11 DEF SInv
  <1>13. \A u : Charged(u)' = Charged(u)
    BY <1>3, <1>4, <1>7 DEF Charged
  <1>14. QED
    BY <1>1, <1>12, <1>13 DEF Uncharged

(* A mark only takes away from what is demanded.                           *)
LEMMA StageMarked ==
  ASSUME NEW q, NEW s, NEW p, NEW a, NEW d, NEW marked, Stage(q, s, p, a, d, marked)
  PROVE  Stage(q, s, p, a, d, 1)
  BY DEF Stage, ServingStage, Signed

LEMMA AtOnceShares ==
  ASSUME TInv, TInv', SInv, AtOnce
  PROVE  SInv' /\ Uncharged
  <1>1. /\ UNCHANGED <<money, snap, pots, thread>>
        /\ \A i \in Tasks : \/ task'[i] = task[i]
                            \/ task[i].st = "absent" /\ task'[i].st = "open"
        /\ \A m \in Modes : developer'[m] # developer[m] /\ Signing(m) => "developer" \in stale'
        /\ stale' \in {stale, stale \cup {"developer"}}
    BY AtOnceStep
  <1>2. Mark \in {0, 1} /\ Mark' \in {Mark, 1} /\ \A i \in Tasks : Busy(i)' <=> Busy(i)
    BY <1>1 DEF Mark, Busy
  <1>3. ASSUME NEW t \in Threads, Serving(thread[t])
        PROVE  thread[t].task \in Tasks /\ task'[thread[t].task] = task[thread[t].task]
    <2>1. task[thread[t].task].st = "charged"
      BY <1>3 DEF SInv, Staged, Stage, ServingStage
    <2>2. Fits(thread[t])
      BY DEF TInv, Locals, Sound
    <2>3. thread[t].task \in Tasks
      BY <1>3, <2>2 DEF Fits, Tasked, Serving
    <2>4. QED
      BY <1>1, <2>1, <2>3
  <1>4. ASSUME NEW t \in Threads PROVE Staged(t)'
    <2> PICK q, i : q = thread[t] /\ i = q.task
      OBVIOUS
    <2>1. Stage(q, snap[i], pots[i], task[i], developer[q.mode], Mark) /\ thread'[t] = q
      BY <1>1 DEF SInv, Staged
    <2>2. SUFFICES Stage(q, snap[i], pots[i], task'[i], developer'[q.mode], Mark')
      BY <1>1, <2>1 DEF Staged
    <2>3. CASE Serving(q)
      <3>1. task'[i] = task[i] /\ q.mode \in Modes /\ q.job # "refund"
        <4>1. q \in Local
          BY DEF TInv, Locals
        <4>2. QED
          BY <1>3, <2>3, <4>1 DEF Local, Serving
      <3>2. CASE Mark' = 1
        <4>1. ASSUME NEW a, NEW d, NEW e, Stage(q, snap[i], pots[i], a, d, 1)
              PROVE  Stage(q, snap[i], pots[i], a, e, 1)
          BY <4>1 DEF Stage, ServingStage
        <4>2. QED
          BY <2>1, <3>1, <3>2, <4>1, StageMarked
      <3>3. CASE Mark' # 1
        <4>1. Mark' = Mark /\ "developer" \notin stale'
          BY <1>2, <3>3 DEF Mark
        <4>2. CASE developer'[q.mode] = developer[q.mode]
          BY <2>1, <3>1, <4>1, <4>2
        <4>3. CASE developer'[q.mode] # developer[q.mode]
          <5>1. ~Signing(q.mode)
            BY <1>1, <3>1, <4>1, <4>3
          <5>2. ~(q.job = "settle" /\ q.part \notin {"balance", "spend"})
            BY <5>1 DEF Signing
          <5> PICK d, e : d = developer[q.mode] /\ e = developer'[q.mode]
            OBVIOUS
          <5>3. Stage(q, snap[i], pots[i], task[i], e, Mark)
            BY <2>1, <2>3, <3>1, <5>2 DEF Stage, ServingStage
          <5>4. QED
            BY <3>1, <4>1, <5>3
        <4>4. QED
          BY <4>2, <4>3
      <3>4. QED
        BY <3>2, <3>3
    <2>4. CASE ~Serving(q)
      BY <2>1, <2>4 DEF Stage
    <2>5. QED
      BY <2>3, <2>4
  <1>5. ASSUME NEW i \in Tasks PROVE Settled(i)'
    <2>1. task'[i].st # "charged" => task[i].st # "charged"
      BY <1>1
    <2>2. Signed(snap[i], pots[i], Mark) => Signed(snap[i], pots[i], Mark')
      BY <1>2 DEF Signed
    <2>3. QED
      BY <1>1, <1>2, <2>1, <2>2 DEF SInv, Settled
  <1>6. SInv'
    BY <1>1, <1>4, <1>5 DEF SInv
  <1>7. \A u : Charged(u)' = Charged(u)
    <2>1. ASSUME NEW i \in Tasks, snap[i].st # "none" PROVE task'[i] = task[i]
      BY <1>1, <2>1 DEF SInv, Settled
    <2>2. QED
      BY <1>1, <1>2, <2>1 DEF Charged
  <1>8. QED
    BY <1>1, <1>6, <1>7 DEF Uncharged

-----------------------------------------------------------------------------
IInv == TInv /\ SInv /\ SpendIsCharged

LEMMA SpendSums ==
  ASSUME TInv, TInv', SInv, SpendIsCharged, NEW t \in Threads, Put(t), thread[t].part = "spend"
  PROVE  SpendIsCharged'
  <1> PICK q : q = thread[t]
    OBVIOUS
  <1>1. /\ q.user \in Users /\ q.task \in Tasks
        /\ \A u \in Users : Charged(u)' = IF u = q.user THEN Charged(u) \cup {q.task} ELSE Charged(u)
        /\ q.task \notin Charged(q.user)
        /\ \A u \in Users : u # q.user => money'[<<"spend", u>>] = money[<<"spend", u>>]
        /\ money'[<<"spend", q.user>>] = q.read + Cost
        /\ "spend" \notin stale' => "spend" \notin stale /\ q.read = money[<<"spend", q.user>>]
    BY SpendShares
  <1>2. SUFFICES ASSUME "spend" \notin stale', NEW u \in Users
                 PROVE  money'[<<"spend", u>>] = Cost * Cardinality(Charged(u)')
    BY DEF SpendIsCharged, Charged
  <1>3. \A v \in Users : money[<<"spend", v>>] = Cost * Cardinality(Charged(v))
    BY <1>1, <1>2 DEF SpendIsCharged, Charged
  <1>4. CASE u # q.user
    BY <1>1, <1>3, <1>4
  <1>5. CASE u = q.user
    <2>1. IsFiniteSet(Charged(u))
      <3>1. Charged(u) \subseteq Tasks
        BY DEF Charged
      <3>2. QED
        BY <3>1, FS_Subset, CommerceAssumption
    <2>2. /\ Cardinality(Charged(u) \cup {q.task}) = Cardinality(Charged(u)) + 1
          /\ Cardinality(Charged(u)) \in Nat
      BY <1>1, <1>5, <2>1, FS_AddElement, FS_CardinalityType
    <2> PICK n, m : n = Cardinality(Charged(u)) /\ m = Cardinality(Charged(u)')
      OBVIOUS
    <2>3. n \in Nat /\ m = n + 1 /\ money'[<<"spend", u>>] = Cost * n + Cost
      BY <1>1, <1>2, <1>3, <1>5, <2>2
    <2>4. Cost * m = Cost * n + Cost
      BY <2>3, Constants
    <2>5. QED
      BY <2>3, <2>4
  <1>6. QED
    BY <1>4, <1>5

LEMMA NextIInv ==
  ASSUME IInv, [Next]_vars
  PROVE  IInv'
  <1>1. TInv /\ TInv' /\ SInv /\ SpendIsCharged
    BY NextTInv DEF IInv
  <1>2. ASSUME SInv', Uncharged PROVE IInv'
    <2>1. "spend" \notin stale' => "spend" \notin stale
      BY <1>2 DEF Uncharged
    <2>2. \A u \in Users : Charged(u)' = Charged(u) /\ money'[<<"spend", u>>] = money[<<"spend", u>>]
      BY <1>2 DEF Uncharged
    <2>3. SpendIsCharged <=> ("spend" \notin stale => \A u \in Users : money[<<"spend", u>>] = Cost * Cardinality(Charged(u)))
      BY DEF SpendIsCharged, Charged
    <2>4. SpendIsCharged' <=> ("spend" \notin stale' => \A u \in Users : money'[<<"spend", u>>] = Cost * Cardinality(Charged(u)'))
      BY DEF SpendIsCharged, Charged
    <2>5. QED
      BY <1>1, <1>2, <2>1, <2>2, <2>3, <2>4 DEF IInv
  <1>3. CASE AtOnce
    BY <1>1, <1>2, <1>3, AtOnceShares
  <1>4. ASSUME NEW t \in Threads, Threaded(t) PROVE IInv'
    <2>1. CASE Put(t) /\ thread[t].part = "spend"
      BY <1>1, <2>1, SpendShares, SpendSums DEF IInv
    <2>2. CASE Put(t) /\ thread[t].part # "spend"
      BY <1>1, <1>2, <2>2, PutShares
    <2>3. CASE Reading(t)
      BY <1>1, <1>2, <2>3, ReadingShares
    <2>4. CASE PutSettlement(t)
      BY <1>1, <1>2, <2>4, SettlementShares
    <2>5. CASE Grant(t)
      BY <1>1, <1>2, <2>5, GrantShares
    <2>6. CASE WorkerPot(t)
      BY <1>1, <1>2, <2>6, WorkerPotShares
    <2>7. CASE DeveloperPot(t)
      BY <1>1, <1>2, <2>7, DeveloperPotShares
    <2>8. CASE PutRefund(t)
      BY <1>1, <1>2, <2>8, RefundedShares
    <2>9. CASE Beginning(t) \/ \E i \in Tasks : RefundTask(t, i)
      BY <1>1, <1>2, <2>9, BeginningShares
    <2>10. ASSUME NEW i \in Tasks, NEW w \in Workers, Charge(t, i, w) PROVE IInv'
      BY <1>1, <1>2, <2>10, ChargeShares
    <2>11. QED
      BY <1>4, <2>1, <2>2, <2>3, <2>4, <2>5, <2>6, <2>7, <2>8, <2>9, <2>10 DEF Threaded
  <1>5. CASE UNCHANGED vars
    <2>1. UNCHANGED <<money, snap, developer, pots, task, thread, stale>>
      BY <1>5 DEF vars, records
    <2>2. SInv'
      BY <1>1, <2>1 DEF SInv, Staged, Settled, Busy, Mark
    <2>3. Uncharged
      BY <2>1 DEF Uncharged, Charged, Busy
    <2>4. QED
      BY <1>2, <2>2, <2>3
  <1>6. QED
    BY <1>3, <1>4, <1>5, NextIsThreaded

LEMMA InitIInv == Init => IInv
  <1> SUFFICES ASSUME Init PROVE IInv
    OBVIOUS
  <1>1. TInv
    BY InitTInv
  <1>2. \A t \in Threads : thread[t] = Free
    BY DEF Init
  <1>3. \A i \in Tasks : snap[i].st = "none" /\ Empty(pots[i])
    BY DEF Init, NoSnap, Empty
  <1>4. SInv
    BY <1>2, <1>3, FreeFields DEF SInv, Staged, Stage, Settled, Serving, LoopJobs
  <1>5. SpendIsCharged
    <2>1. ASSUME NEW u \in Users PROVE Charged(u) = {} /\ money[<<"spend", u>>] = 0
      BY <1>3 DEF Charged, Init, Cells
    <2>2. Cardinality({}) = 0 /\ Cost * 0 = 0
      BY FS_EmptySet, Constants
    <2>3. \A u \in Users : money[<<"spend", u>>] = Cost * Cardinality(Charged(u))
      BY <2>1, <2>2
    <2>4. QED
      BY <2>3 DEF SpendIsCharged, Charged
  <1>6. QED
    BY <1>1, <1>4, <1>5 DEF IInv

(* Once its settlement is over, a task's worker holds a proof for exactly  *)
(* the share in the contract's snapshot, and nobody else one but its       *)
(* developer, for exactly his, if no other was registered between the      *)
(* snapshot and the proofs; for any number of threads.                     *)
THEOREM ProofsMatch == Spec => []PotsMatchSnapshots
  <1>1. ASSUME IInv PROVE PotsMatchSnapshots
    <2>1. ASSUME NEW i \in Tasks, snap[i].st # "none", ~Busy(i), snap[i].worker \notin Devs
          PROVE  /\ pots[i][snap[i].worker] = snap[i].ws
                 /\ "developer" \notin stale =>
                      \A p \in Parties \ {snap[i].worker} :
                        pots[i][p] = IF p = snap[i].dev /\ snap[i].ds > 0 THEN snap[i].ds ELSE NoPot
      BY <1>1, <2>1 DEF IInv, SInv, Settled, Signed, Mark
    <2>2. QED
      BY <2>1 DEF PotsMatchSnapshots
  <1>2. QED
    BY <1>1, InitIInv, NextIInv, PTL DEF Spec

(* A consumer's recorded spend is the cost of the tasks that were settled  *)
(* from his deposit, unless two threads recorded at once.                  *)
THEOREM SpendMatches == Spec => []SpendIsCharged
  <1>1. IInv => SpendIsCharged
    BY DEF IInv
  <1>2. QED
    BY <1>1, InitIInv, NextIInv, PTL DEF Spec
-----------------------------------------------------------------------------
(* Money.  Unless it was stale, a write changes a cell by its amount.      *)

Delta(q) == IF Takes(q) \/ Unwinds(q) THEN -Amount(q) ELSE Amount(q)

LEMMA StoreMoves ==
  ASSUME TInv, NEW q, Sound(q), q.pc = "put", Store(q)
  PROVE  /\ Cell(q) \in Cells /\ stale \subseteq stale' /\ Delta(q) \in Int
         /\ \A c \in Cells : c # Cell(q) => money'[c] = money[c]
         /\ Cell(q)[1] \notin stale' => money'[Cell(q)] = money[Cell(q)] + Delta(q)
  <1>1. Cell(q) \in Cells /\ stale \subseteq stale' /\ \A c \in Cells : c # Cell(q) => money'[c] = money[c]
    BY StoreKeeps
  <1>2. /\ Written(q) \in Nat /\ q.read \in Nat /\ Amount(q) \in Nat
        /\ Takes(q) => q.read >= Amount(q) /\ Written(q) = q.read - Amount(q)
        /\ Unwinds(q) /\ q.read >= Amount(q) => Written(q) = q.read - Amount(q)
        /\ ~Takes(q) /\ ~Unwinds(q) => Written(q) = q.read + Amount(q)
    BY WrittenTyped
  <1>3. ASSUME Cell(q)[1] \notin stale'
        PROVE  money'[Cell(q)] = money[Cell(q)] + Delta(q)
    <2>1. ~Stale(q)
      BY <1>3 DEF Store
    <2>2. q.read = money[Cell(q)] /\ (Unwinds(q) => ~(q.read < Amount(q)))
      BY <2>1 DEF Stale
    <2> PICK a, n, w : a = Amount(q) /\ n = q.read /\ w = Written(q)
      OBVIOUS
    <2>3. a \in Nat /\ n \in Nat /\ (Unwinds(q) => n >= a)
      BY <1>2, <2>2
    <2>4. w = n + Delta(q)
      <3>1. CASE Takes(q)
        BY <1>2, <2>3, <3>1 DEF Delta
      <3>2. CASE Unwinds(q)
        BY <1>2, <2>3, <3>2 DEF Delta
      <3>3. CASE ~Takes(q) /\ ~Unwinds(q)
        BY <1>2, <2>3, <3>3 DEF Delta
      <3>4. QED
        BY <3>1, <3>2, <3>3
    <2>5. QED
      BY <2>2, <2>4, StoreKeeps
  <1>4. QED
    BY <1>1, <1>2, <1>3 DEF Delta

LEMMA UnderWayTyped == ASSUME NEW q \in Local PROVE UnderWay(q) \in Nat
  BY DEF Local, UnderWay

LEMMA UnderWayAlike ==
  ASSUME NEW q, NEW r, Alike(q, r), r.part = q.part, AlikeInMoney(q, r)
  PROVE  UnderWay(r) = UnderWay(q)
  BY DEF Alike, AlikeInMoney, UnderWay

LEMMA NothingUnderWay ==
  ASSUME NEW q, q.job \in {"none", "deposit", "withdraw", "seed", "quoted"} \/ q.part \in {"none", "spend"}
                \/ <<q.job, q.part>> \in {<<"purchase", "balance">>, <<"settle", "balance">>, <<"refund", "worker">>}
  PROVE  UnderWay(q) = 0
  BY DEF UnderWay

(* What a write adds to or takes from its cell is what it takes from or    *)
(* adds to what is under way, and what it brings.                          *)
LEMMA PutUnderWay ==
  ASSUME NEW q, Sound(q), q.pc = "put", ~Special(q), NEW r,
         \/ Done(q) /\ r = Free
         \/ OnTo(q, r) /\ Alike(q, r) /\ AlikeInMoney(q, r)
  PROVE  /\ Brings(q) \in Int
         /\ (IF q.part = "spend" THEN 0 ELSE Delta(q)) + UnderWay(r) - UnderWay(q) = Brings(q)
  <1>1. q \in Local /\ Placed(q) /\ Fits(q)
    BY DEF Sound
  <1>2. q.due \in Nat /\ q.ws \in Nat /\ q.ds \in Nat /\ q.ts \in Nat
    BY <1>1 DEF Local
  <1>3. UnderWay(Free) = 0
    BY FreeFields, NothingUnderWay
  <1> HIDE DEF Free
  <1>4. CASE q.job \in {"deposit", "withdraw", "seed"}
    <2>1. r = Free /\ q.part \in {"balance", "pool"} /\ (q.job # "seed" => q.part = "balance")
      BY <1>1, <1>4 DEF OnTo, Placed
    <2>2. Amount(q) = q.due /\ UnderWay(q) = 0 /\ UnderWay(r) = 0 /\ ~Unwinds(q) /\ (Takes(q) <=> q.job = "withdraw")
      BY <1>3, <1>4, <2>1 DEF Amount, UnderWay, Unwinds, Takes
    <2>3. QED
      BY <1>2, <1>4, <2>1, <2>2 DEF Delta, Brings
  <1>5. CASE q.job = "purchase" /\ q.part = "balance"
    <2>1. r.job = "purchase" /\ r.part = "pool" /\ r.due = q.due
      BY <1>5 DEF OnTo, Done, Alike, AlikeInMoney
    <2>2. Amount(q) = q.due /\ UnderWay(q) = 0 /\ UnderWay(r) = q.due /\ Takes(q) /\ Brings(q) = 0
      BY <1>5, <2>1 DEF Amount, UnderWay, Takes, Brings
    <2>3. QED
      BY <1>2, <1>5, <2>2 DEF Delta
  <1>6. CASE q.job = "purchase" /\ q.part = "pool"
    <2>1. r.job = "purchase" /\ r.part = "none"
      BY <1>6 DEF OnTo, Done, Alike
    <2>2. Amount(q) = q.due /\ UnderWay(q) = q.due /\ UnderWay(r) = 0 /\ ~Takes(q) /\ ~Unwinds(q) /\ Brings(q) = 0
      BY <1>6, <2>1 DEF Amount, UnderWay, Takes, Unwinds, Brings
    <2>3. QED
      BY <1>2, <1>6, <2>2 DEF Delta
  <1>7. CASE q.job = "quoted"
    <2>1. q.part = "pool" /\ r.job = "quoted"
      BY <1>1, <1>7 DEF OnTo, Done, Alike, Placed
    <2>2. Amount(q) = q.due /\ UnderWay(q) = 0 /\ UnderWay(r) = 0 /\ Takes(q) /\ Brings(q) = -q.due
      BY <1>7, <2>1 DEF Amount, UnderWay, Takes, Brings
    <2>3. QED
      BY <1>2, <2>1, <2>2 DEF Delta
  <1>8. CASE q.job = "settle" /\ q.part = "spend"
    <2>1. r = Free
      BY <1>8 DEF OnTo
    <2>2. UnderWay(q) = 0 /\ UnderWay(r) = 0 /\ Brings(q) = 0
      BY <1>3, <1>8, <2>1 DEF UnderWay, Brings
    <2>3. QED
      BY <1>8, <2>2
  <1>9. CASE q.job = "settle" /\ q.part # "spend"
    <2>1. q.part \in {"worker", "dev", "fees"} /\ OnTo(q, r) /\ Alike(q, r) /\ AlikeInMoney(q, r)
      BY <1>1, <1>9 DEF Placed, Special, Done
    <2>2. r.job = "settle" /\ r.ds = q.ds /\ r.ts = q.ts /\ ~Takes(q) /\ ~Unwinds(q) /\ Brings(q) = 0
      BY <1>9, <2>1 DEF Alike, AlikeInMoney, Takes, Unwinds, Brings
    <2>3. CASE q.part = "worker"
      <3>1. r.part = "dev"
        BY <1>9, <2>1, <2>3 DEF OnTo
      <3>2. Amount(q) = q.ws /\ UnderWay(q) = q.ws + q.ds + q.ts /\ UnderWay(r) = q.ds + q.ts
        BY <1>9, <2>2, <2>3, <3>1 DEF Amount, UnderWay
      <3>3. QED
        BY <1>2, <2>2, <2>3, <3>2 DEF Delta
    <2>4. CASE q.part = "dev"
      <3>1. r.part = "fees"
        BY <1>9, <2>1, <2>4 DEF OnTo
      <3>2. Amount(q) = q.ds /\ UnderWay(q) = q.ds + q.ts /\ UnderWay(r) = q.ts
        BY <1>9, <2>2, <2>4, <3>1 DEF Amount, UnderWay
      <3>3. QED
        BY <1>2, <2>2, <2>4, <3>2 DEF Delta
    <2>5. CASE q.part = "fees"
      <3>1. r.part = "none"
        BY <1>9, <2>1, <2>5 DEF OnTo
      <3>2. Amount(q) = q.ts /\ UnderWay(q) = q.ts /\ UnderWay(r) = 0
        BY <1>9, <2>2, <2>5, <3>1 DEF Amount, UnderWay
      <3>3. QED
        BY <1>2, <2>2, <2>5, <3>2 DEF Delta
    <2>6. QED
      BY <2>1, <2>3, <2>4, <2>5
  <1>10. CASE q.job = "refund" /\ q.part = "balance"
    <2>1. r = Free
      BY <1>10 DEF OnTo
    <2>2. Amount(q) = q.due /\ UnderWay(q) = q.due /\ UnderWay(r) = 0 /\ ~Takes(q) /\ ~Unwinds(q) /\ Brings(q) = 0
      BY <1>3, <1>10, <2>1 DEF Amount, UnderWay, Takes, Unwinds, Brings
    <2>3. QED
      BY <1>2, <1>10, <2>2 DEF Delta
  <1>11. CASE q.job = "refund" /\ q.part # "balance"
    <2>1. q.part \in {"worker", "dev"} /\ OnTo(q, r) /\ Alike(q, r) /\ AlikeInMoney(q, r) /\ AddsUp(q)
      BY <1>1, <1>11 DEF Placed, Special, Done, Fits, Sharing
    <2>2. r.job = "refund" /\ r.ws = q.ws /\ r.ds = q.ds /\ Unwinds(q) /\ Brings(q) = 0
      BY <1>11, <2>1 DEF Alike, AlikeInMoney, Unwinds, Brings
    <2>3. CASE q.part = "worker" /\ q.dev # NoParty
      <3>1. r.part = "dev"
        BY <1>11, <2>1, <2>3 DEF OnTo
      <3>2. Amount(q) = q.ws /\ UnderWay(q) = 0 /\ UnderWay(r) = q.ws
        BY <1>11, <2>2, <2>3, <3>1 DEF Amount, UnderWay
      <3>3. QED
        BY <1>2, <2>2, <2>3, <3>2 DEF Delta
    <2>4. CASE q.part = "worker" /\ q.dev = NoParty
      <3>1. r.part = "fees" /\ q.ds = 0
        BY <1>11, <2>1, <2>4 DEF OnTo, AddsUp
      <3>2. Amount(q) = q.ws /\ UnderWay(q) = 0 /\ UnderWay(r) = q.ws + q.ds
        BY <1>11, <2>2, <2>4, <3>1 DEF Amount, UnderWay
      <3>3. QED
        BY <1>2, <2>2, <2>4, <3>1, <3>2 DEF Delta
    <2>5. CASE q.part = "dev"
      <3>1. r.part = "fees"
        BY <1>11, <2>1, <2>5 DEF OnTo
      <3>2. Amount(q) = q.ds /\ UnderWay(q) = q.ws /\ UnderWay(r) = q.ws + q.ds
        BY <1>11, <2>2, <2>5, <3>1 DEF Amount, UnderWay
      <3>3. QED
        BY <1>2, <2>2, <2>5, <3>2 DEF Delta
    <2>6. QED
      BY <2>1, <2>3, <2>4, <2>5
  <1>12. QED
    BY <1>1, <1>4, <1>5, <1>6, <1>7, <1>8, <1>9, <1>10, <1>11 DEF Placed

Overwritten == stale \cap {"balance", "pending", "pool", "fees"}
Held == SumFunctionOnSet(money, Accounts)
Flow == SumFunctionOnSet([t \in Threads |-> UnderWay(thread[t])], Threads)

LEMMA FiniteConstants == IsFiniteSet(Threads) /\ IsFiniteSet(Tasks) /\ IsFiniteSet(Accounts)
  <1>1. IsFiniteSet(Users) /\ IsFiniteSet(Parties) /\ IsFiniteSet(Threads) /\ IsFiniteSet(Tasks)
    BY CommerceAssumption, FS_Union DEF Parties
  <1>2. IsFiniteSet({"balance"}) /\ IsFiniteSet({"pending"}) /\ IsFiniteSet({"pool"}) /\ IsFiniteSet({Fees})
    BY FS_Singleton
  <1>3. IsFiniteSet(Pools)
    <2>1. IsFiniteSet({"plg"} \cup {"subscription"} \cup {"buyout"})
      BY FS_Singleton, FS_Union
    <2>2. Pools = {"plg"} \cup {"subscription"} \cup {"buyout"}
      BY DEF Pools
    <2>3. QED
      BY <2>1, <2>2
  <1>4. IsFiniteSet({"balance"} \X Users) /\ IsFiniteSet({"pending"} \X Parties) /\ IsFiniteSet({"pool"} \X Pools)
    BY <1>1, <1>2, <1>3, FS_Product
  <1>5. IsFiniteSet(({"balance"} \X Users) \cup ({"pending"} \X Parties))
    BY <1>4, FS_Union
  <1>6. IsFiniteSet(({"balance"} \X Users) \cup ({"pending"} \X Parties) \cup ({"pool"} \X Pools))
    BY <1>4, <1>5, FS_Union
  <1>7. QED
    BY <1>1, <1>2, <1>6, FS_Union DEF Accounts

LEMMA FlowMoves ==
  ASSUME TInv, NEW t \in Threads, NEW q, q = thread[t], NEW r \in Local, Becomes(t, r)
  PROVE  Flow' = Flow + UnderWay(r) - UnderWay(q) /\ Flow \in Int
  <1> DEFINE f == [x \in Threads |-> UnderWay(thread[x])]
             g == [x \in Threads |-> UnderWay(thread'[x])]
  <1>1. thread'[t] = r /\ \A u \in Threads : u # t => thread'[u] = thread[u]
    BY DEF Becomes, TInv, Locals
  <1>2. \A x \in Threads : thread[x] \in Local /\ thread'[x] \in Local
    BY <1>1 DEF TInv, Locals
  <1>3. /\ \A x \in Threads : f[x] \in Int /\ g[x] \in Int
        /\ \A x \in Threads : x # t => g[x] = f[x]
        /\ f[t] = UnderWay(q) /\ g[t] = UnderWay(r)
    BY <1>1, <1>2, UnderWayTyped
  <1>4. Flow = SumFunctionOnSet(f, Threads) /\ Flow' = SumFunctionOnSet(g, Threads)
    BY DEF Flow
  <1> HIDE DEF f, g
  <1>5. SumFunctionOnSet(g, Threads) = SumFunctionOnSet(f, Threads) + g[t] - f[t]
    BY <1>3, FiniteConstants, SumChange
  <1>6. SumFunctionOnSet(f, Threads) \in Int
    BY <1>3, FiniteConstants, SumRemoves
  <1>7. QED
    BY <1>3, <1>4, <1>5, <1>6

LEMMA HeldMoves ==
  ASSUME TypeOK, TypeOK', NEW c \in Cells, \A x \in Cells : x # c => money'[x] = money[x]
  PROVE  Held \in Int /\ Held' = IF c \in Accounts THEN Held + money'[c] - money[c] ELSE Held
  <1>1. /\ \A x \in Accounts : money[x] \in Int /\ money'[x] \in Int
        /\ \A x \in Accounts : x # c => money'[x] = money[x]
    BY DEF TypeOK, Cells
  <1> PICK f, g : f = money /\ g = money'
    OBVIOUS
  <1>2. /\ \A x \in Accounts : f[x] \in Int /\ g[x] \in Int
        /\ \A x \in Accounts : x # c => g[x] = f[x]
    BY <1>1
  <1>3. Held = SumFunctionOnSet(f, Accounts) /\ Held' = SumFunctionOnSet(g, Accounts)
    BY DEF Held
  <1>4. SumFunctionOnSet(f, Accounts) \in Int
    BY <1>2, FiniteConstants, SumRemoves
  <1>5. c \in Accounts => SumFunctionOnSet(g, Accounts) = SumFunctionOnSet(f, Accounts) + g[c] - f[c]
    BY <1>2, FiniteConstants, SumChange
  <1>6. c \notin Accounts => SumFunctionOnSet(g, Accounts) = SumFunctionOnSet(f, Accounts)
    BY <1>2, FiniteConstants, SumSame
  <1>7. QED
    BY <1>3, <1>4, <1>5, <1>6

(* What is due to party p and is moving.                                   *)
Drift(p) == SumFunctionOnSet([t \in Threads |-> Moving(thread[t], p)], Threads)
Owing(p) == SumFunctionOnSet([i \in Tasks |-> Due(snap[i], p)], Tasks)

LEMMA MovingTyped == ASSUME NEW q \in Local, NEW p PROVE Moving(q, p) \in Nat
  <1>1. q.ws \in Nat /\ q.ds \in Nat
    BY DEF Local
  <1>2. QED
    BY <1>1 DEF Moving

LEMMA DueTyped == ASSUME NEW s \in Snap, NEW p PROVE Due(s, p) \in Nat
  <1>1. s.ws \in Nat /\ s.ds \in Nat
    BY DEF Snap
  <1>2. QED
    BY <1>1 DEF Due

LEMMA DriftMoves ==
  ASSUME TInv, NEW t \in Threads, NEW q, q = thread[t], NEW r \in Local, Becomes(t, r), NEW p \in Parties
  PROVE  Drift(p)' = Drift(p) + Moving(r, p) - Moving(q, p) /\ Drift(p) \in Int
  <1> DEFINE f == [x \in Threads |-> Moving(thread[x], p)]
             g == [x \in Threads |-> Moving(thread'[x], p)]
  <1>1. thread'[t] = r /\ \A u \in Threads : u # t => thread'[u] = thread[u]
    BY DEF Becomes, TInv, Locals
  <1>2. \A x \in Threads : thread[x] \in Local /\ thread'[x] \in Local
    BY <1>1 DEF TInv, Locals
  <1>3. /\ \A x \in Threads : f[x] \in Int /\ g[x] \in Int
        /\ \A x \in Threads : x # t => g[x] = f[x]
        /\ f[t] = Moving(q, p) /\ g[t] = Moving(r, p)
    BY <1>1, <1>2, MovingTyped
  <1>4. Drift(p) = SumFunctionOnSet(f, Threads) /\ Drift(p)' = SumFunctionOnSet(g, Threads)
    BY DEF Drift
  <1> HIDE DEF f, g
  <1>5. SumFunctionOnSet(g, Threads) = SumFunctionOnSet(f, Threads) + g[t] - f[t]
    BY <1>3, FiniteConstants, SumChange
  <1>6. SumFunctionOnSet(f, Threads) \in Int
    BY <1>3, FiniteConstants, SumRemoves
  <1>7. QED
    BY <1>3, <1>4, <1>5, <1>6

LEMMA OwingMoves ==
  ASSUME Books, Books', NEW i \in Tasks, \A j \in Tasks : j # i => snap'[j] = snap[j], NEW p \in Parties
  PROVE  Owing(p)' = Owing(p) + Due(snap'[i], p) - Due(snap[i], p) /\ Owing(p) \in Int
  <1> DEFINE f == [x \in Tasks |-> Due(snap[x], p)]
             g == [x \in Tasks |-> Due(snap'[x], p)]
  <1>1. \A x \in Tasks : snap[x] \in Snap /\ snap'[x] \in Snap
    BY DEF Books
  <1>2. /\ \A x \in Tasks : f[x] \in Int /\ g[x] \in Int
        /\ \A x \in Tasks : x # i => g[x] = f[x]
        /\ f[i] = Due(snap[i], p) /\ g[i] = Due(snap'[i], p)
    BY <1>1, DueTyped
  <1>3. Owing(p) = SumFunctionOnSet(f, Tasks) /\ Owing(p)' = SumFunctionOnSet(g, Tasks)
    BY DEF Owing
  <1> HIDE DEF f, g
  <1>4. SumFunctionOnSet(g, Tasks) = SumFunctionOnSet(f, Tasks) + g[i] - f[i]
    BY <1>2, FiniteConstants, SumChange
  <1>5. SumFunctionOnSet(f, Tasks) \in Int
    BY <1>2, FiniteConstants, SumRemoves
  <1>6. QED
    BY <1>2, <1>3, <1>4, <1>5

LEMMA BooksStep ==
  ASSUME TInv, TInv', net \in Int, BooksBalance, stale \subseteq stale',
         NEW t \in Threads, NEW q, q = thread[t], NEW r \in Local, Becomes(t, r),
         NEW c \in Cells, \A x \in Cells : x # c => money'[x] = money[x],
         NEW d \in Int, c \notin Accounts => d = 0,
         c \in Accounts /\ c[1] \notin stale' => money'[c] = money[c] + d,
         NEW e \in Int, net' = net + e, d + UnderWay(r) - UnderWay(q) = e
  PROVE  net' \in Int /\ BooksBalance'
  <1>1. BooksBalance <=> (Overwritten = {} => Held + Flow = net)
    BY DEF BooksBalance, Overwritten, Held, Flow
  <1>2. BooksBalance' <=> (Overwritten' = {} => Held' + Flow' = net')
    BY DEF BooksBalance, Overwritten, Held, Flow
  <1>3. SUFFICES ASSUME Overwritten' = {} PROVE Held' + Flow' = net'
    BY <1>2
  <1>4. Held + Flow = net
    BY <1>1, <1>3 DEF Overwritten
  <1>5. c \in Accounts => c[1] \notin stale'
    BY <1>3 DEF Overwritten, Accounts, Fees
  <1>6. Flow' = Flow + UnderWay(r) - UnderWay(q) /\ Flow \in Int
    BY FlowMoves
  <1>7. Held \in Int /\ Held' = IF c \in Accounts THEN Held + money'[c] - money[c] ELSE Held
    BY HeldMoves DEF TInv
  <1>8. Held' = Held + d
    <2>1. money[c] \in Int
      BY DEF TInv, TypeOK
    <2>2. CASE c \in Accounts
      BY <1>5, <1>7, <2>1, <2>2
    <2>3. CASE c \notin Accounts
      BY <1>7, <2>3
    <2>4. QED
      BY <2>2, <2>3
  <1>9. UnderWay(r) \in Int /\ UnderWay(q) \in Int
    BY UnderWayTyped DEF TInv, Locals
  <1> PICK h, f, n, a, b : h = Held /\ f = Flow /\ n = net /\ a = UnderWay(r) /\ b = UnderWay(q)
    OBVIOUS
  <1>10. h \in Int /\ f \in Int /\ a \in Int /\ b \in Int /\ h + f = n /\ d + a - b = e
    BY <1>4, <1>6, <1>7, <1>9
  <1>11. (h + d) + (f + a - b) = n + e
    BY <1>10
  <1>12. QED
    BY <1>6, <1>8, <1>11

LEMMA PendingStep ==
  ASSUME TInv, TInv', PendingIsOwed, stale \subseteq stale',
         NEW t \in Threads, NEW q, q = thread[t], NEW r \in Local, Becomes(t, r),
         NEW i \in Tasks, \A j \in Tasks : j # i => snap'[j] = snap[j],
         \A p \in Parties : "pending" \notin stale' =>
           money'[<<"pending", p>>] + Moving(r, p) + Due(snap[i], p)
             = money[<<"pending", p>>] + Moving(q, p) + Due(snap'[i], p)
  PROVE  PendingIsOwed'
  <1>1. PendingIsOwed <=> ("pending" \notin stale => \A p \in Parties : money[<<"pending", p>>] + Drift(p) = Owing(p))
    BY DEF PendingIsOwed, Drift, Owing
  <1>2. PendingIsOwed' <=> ("pending" \notin stale' =>
                              \A p \in Parties : money'[<<"pending", p>>] + Drift(p)' = Owing(p)')
    BY DEF PendingIsOwed, Drift, Owing
  <1>3. SUFFICES ASSUME "pending" \notin stale', NEW p \in Parties
                 PROVE  money'[<<"pending", p>>] + Drift(p)' = Owing(p)'
    BY <1>2
  <1>4. money[<<"pending", p>>] + Drift(p) = Owing(p)
    BY <1>1, <1>3
  <1>5. Drift(p)' = Drift(p) + Moving(r, p) - Moving(q, p) /\ Drift(p) \in Int
    BY DriftMoves
  <1>6. Owing(p)' = Owing(p) + Due(snap'[i], p) - Due(snap[i], p) /\ Owing(p) \in Int
    BY OwingMoves DEF TInv
  <1>7. /\ money[<<"pending", p>>] \in Int /\ money'[<<"pending", p>>] \in Int
        /\ Moving(r, p) \in Int /\ Moving(q, p) \in Int
        /\ Due(snap[i], p) \in Int /\ Due(snap'[i], p) \in Int
    <2>1. <<"pending", p>> \in Cells /\ snap[i] \in Snap /\ snap'[i] \in Snap /\ q \in Local
      BY DEF Cells, Accounts, TInv, Books, Locals
    <2>2. money[<<"pending", p>>] \in Int /\ money'[<<"pending", p>>] \in Int
      BY <2>1 DEF TInv, TypeOK
    <2>3. QED
      BY <2>1, <2>2, MovingTyped, DueTyped
  <1>8. money'[<<"pending", p>>] + Moving(r, p) + Due(snap[i], p)
          = money[<<"pending", p>>] + Moving(q, p) + Due(snap'[i], p)
    BY <1>3
  <1> PICK m, n, a, b, x, y, f, w :
        /\ m = money[<<"pending", p>>] /\ n = money'[<<"pending", p>>] /\ a = Moving(r, p) /\ b = Moving(q, p)
        /\ x = Due(snap[i], p) /\ y = Due(snap'[i], p) /\ f = Drift(p) /\ w = Owing(p)
    OBVIOUS
  <1>9. /\ m \in Int /\ n \in Int /\ a \in Int /\ b \in Int /\ x \in Int /\ y \in Int /\ f \in Int
        /\ n + a + x = m + b + y /\ m + f = w
    BY <1>4, <1>5, <1>7, <1>8
  <1>10. n + (f + a - b) = w + y - x
    BY <1>9
  <1>11. QED
    BY <1>5, <1>6, <1>10

(* Without a task, nothing is owed anew.                                   *)
LEMMA PendingStepAlone ==
  ASSUME TInv, TInv', PendingIsOwed, stale \subseteq stale', snap' = snap,
         NEW t \in Threads, NEW q, q = thread[t], NEW r \in Local, Becomes(t, r),
         \A p \in Parties : "pending" \notin stale' =>
           money'[<<"pending", p>>] + Moving(r, p) = money[<<"pending", p>>] + Moving(q, p)
  PROVE  PendingIsOwed'
  <1>1. PendingIsOwed <=> ("pending" \notin stale => \A p \in Parties : money[<<"pending", p>>] + Drift(p) = Owing(p))
    BY DEF PendingIsOwed, Drift, Owing
  <1>2. PendingIsOwed' <=> ("pending" \notin stale' =>
                              \A p \in Parties : money'[<<"pending", p>>] + Drift(p)' = Owing(p))
    BY DEF PendingIsOwed, Drift, Owing
  <1>3. SUFFICES ASSUME "pending" \notin stale', NEW p \in Parties
                 PROVE  money'[<<"pending", p>>] + Drift(p)' = Owing(p)
    BY <1>2
  <1>4. money[<<"pending", p>>] + Drift(p) = Owing(p)
    BY <1>1, <1>3
  <1>5. Drift(p)' = Drift(p) + Moving(r, p) - Moving(q, p) /\ Drift(p) \in Int
    BY DriftMoves
  <1>6. /\ money[<<"pending", p>>] \in Int /\ money'[<<"pending", p>>] \in Int
        /\ Moving(r, p) \in Int /\ Moving(q, p) \in Int
    <2>1. <<"pending", p>> \in Cells /\ q \in Local
      BY DEF Cells, Accounts, TInv, Locals
    <2>2. money[<<"pending", p>>] \in Int /\ money'[<<"pending", p>>] \in Int
      BY <2>1 DEF TInv, TypeOK
    <2>3. QED
      BY <2>1, <2>2, MovingTyped
  <1>7. money'[<<"pending", p>>] + Moving(r, p) = money[<<"pending", p>>] + Moving(q, p)
    BY <1>3
  <1> PICK m, n, a, b, f :
        /\ m = money[<<"pending", p>>] /\ n = money'[<<"pending", p>>]
        /\ a = Moving(r, p) /\ b = Moving(q, p) /\ f = Drift(p)
    OBVIOUS
  <1>8. m \in Int /\ n \in Int /\ a \in Int /\ b \in Int /\ f \in Int /\ n + a = m + b
    BY <1>5, <1>6, <1>7
  <1>9. n + (f + a - b) = m + f
    BY <1>8
  <1>10. QED
    BY <1>4, <1>5, <1>9

PaidTo(q, p) == IF Cell(q) = <<"pending", p>> THEN Delta(q) ELSE 0

LEMMA Pays ==
  ASSUME TInv, NEW q, Sound(q), q.pc = "put", Store(q), NEW p \in Parties, "pending" \notin stale'
  PROVE  money'[<<"pending", p>>] = money[<<"pending", p>>] + PaidTo(q, p)
  <1>1. <<"pending", p>> \in Cells
    BY DEF Cells, Accounts
  <1>2. money[<<"pending", p>>] \in Int
    BY <1>1 DEF TInv, TypeOK
  <1>3. CASE Cell(q) = <<"pending", p>>
    <2>1. Cell(q)[1] = "pending"
      BY <1>3
    <2>2. QED
      BY <1>3, <2>1, StoreMoves DEF PaidTo
  <1>4. CASE Cell(q) # <<"pending", p>>
    BY <1>1, <1>2, <1>4, StoreMoves DEF PaidTo
  <1>5. QED
    BY <1>3, <1>4

LEMMA MovingAlike ==
  ASSUME NEW q, NEW r, Alike(q, r), r.part = q.part, AlikeInMoney(q, r), NEW p
  PROVE  Moving(r, p) = Moving(q, p)
  BY DEF Alike, AlikeInMoney, Moving

LEMMA NothingMoving ==
  ASSUME NEW q, NEW p, q.job \notin {"settle", "refund"} \/ q.part \in {"none", "spend", "balance"}
                       \/ <<q.job, q.part>> = <<"refund", "worker">>
  PROVE  Moving(q, p) = 0
  BY DEF Moving

(* What a write pays to a party or takes back was, or is, moving.          *)
LEMMA PutMoving ==
  ASSUME NEW q, Sound(q), q.pc = "put", ~Special(q), NEW r, NEW p \in Parties,
         \/ Done(q) /\ r = Free
         \/ OnTo(q, r) /\ Alike(q, r) /\ AlikeInMoney(q, r)
  PROVE  PaidTo(q, p) + Moving(r, p) = Moving(q, p)
  <1>1. q \in Local /\ Placed(q) /\ Fits(q) /\ p # NoParty
    BY Constants DEF Sound, Parties
  <1>2. q.ws \in Nat /\ q.ds \in Nat
    BY <1>1 DEF Local
  <1>3. Free.job = "none" /\ Moving(Free, p) = 0
    BY FreeFields, NothingMoving
  <1> HIDE DEF Free
  <1>4. CASE q.job \notin {"settle", "refund"} \/ q.part \in {"fees", "spend", "balance"}
    <2>1. Cell(q) # <<"pending", p>>
      BY <1>1, <1>4 DEF Cell, Placed, Fees
    <2>2. Moving(q, p) = 0 /\ Moving(r, p) = 0
      <3>1. CASE q.job \notin {"settle", "refund"} \/ q.part \in {"spend", "balance"}
        <4>1. r.job \notin {"settle", "refund"}
          BY <1>1, <1>3, <3>1 DEF OnTo, Alike
        <4>2. QED
          BY <3>1, <4>1, NothingMoving
      <3>2. CASE q.job = "settle" /\ q.part = "fees"
        <4>1. r.part = "none" \/ r = Free
          BY <3>2 DEF OnTo
        <4>2. Moving(q, p) = 0
          BY <1>2, <3>2 DEF Moving
        <4>3. QED
          BY <1>3, <4>1, <4>2, NothingMoving
      <3>3. QED
        BY <1>4, <3>1, <3>2 DEF Special
    <2>3. QED
      BY <2>1, <2>2 DEF PaidTo
  <1>5. CASE q.job = "settle" /\ q.part \in {"worker", "dev"}
    <2>1. OnTo(q, r) /\ r.job = "settle" /\ r.worker = q.worker /\ r.dev = q.dev /\ r.ws = q.ws /\ r.ds = q.ds
      BY <1>5 DEF Done, Alike, AlikeInMoney
    <2>2. ~Takes(q) /\ ~Unwinds(q)
      BY <1>5 DEF Takes, Unwinds
    <2>3. CASE q.part = "worker"
      <3>1. r.part = "dev" /\ Cell(q) = <<"pending", q.worker>> /\ Amount(q) = q.ws
        BY <1>5, <2>1, <2>3 DEF OnTo, Cell, Amount
      <3>2. /\ PaidTo(q, p) = IF p = q.worker THEN q.ws ELSE 0
            /\ Moving(q, p) = (IF p = q.worker THEN q.ws ELSE 0) + (IF p = q.dev THEN q.ds ELSE 0)
            /\ Moving(r, p) = IF p = q.dev THEN q.ds ELSE 0
        BY <1>2, <1>5, <2>1, <2>2, <2>3, <3>1 DEF PaidTo, Delta, Moving
      <3>3. QED
        BY <1>2, <3>2
    <2>4. CASE q.part = "dev"
      <3>1. r.part = "fees" /\ Amount(q) = q.ds /\ (Cell(q) = <<"pending", p>> <=> p = q.dev)
        BY <1>1, <1>5, <2>1, <2>4 DEF OnTo, Cell, Amount, Fees
      <3>2. /\ PaidTo(q, p) = IF p = q.dev THEN q.ds ELSE 0
            /\ Moving(q, p) = IF p = q.dev THEN q.ds ELSE 0
            /\ Moving(r, p) = 0
        BY <1>2, <1>5, <2>1, <2>2, <2>4, <3>1 DEF PaidTo, Delta, Moving
      <3>3. QED
        BY <1>2, <3>2
    <2>5. QED
      BY <1>5, <2>3, <2>4
  <1>6. CASE q.job = "refund" /\ q.part \in {"worker", "dev"}
    <2>1. OnTo(q, r) /\ r.job = "refund" /\ r.worker = q.worker /\ r.dev = q.dev /\ r.ws = q.ws /\ r.ds = q.ds
      BY <1>6 DEF Done, Alike, AlikeInMoney
    <2>2. Unwinds(q)
      BY <1>6 DEF Unwinds
    <2>3. CASE q.part = "worker"
      <3>1. /\ r.part = IF q.dev = NoParty THEN "fees" ELSE "dev"
            /\ Cell(q) = <<"pending", q.worker>> /\ Amount(q) = q.ws
        BY <1>6, <2>1, <2>3 DEF OnTo, Cell, Amount
      <3>2. /\ PaidTo(q, p) = IF p = q.worker THEN -q.ws ELSE 0
            /\ Moving(q, p) = 0
        BY <1>2, <1>6, <2>2, <2>3, <3>1 DEF PaidTo, Delta, Moving
      <3>3. Moving(r, p) = IF p = q.worker THEN q.ws ELSE 0
        <4>1. CASE q.dev = NoParty
          BY <1>1, <1>2, <2>1, <3>1, <4>1 DEF Moving
        <4>2. CASE q.dev # NoParty
          BY <1>1, <1>2, <2>1, <3>1, <4>2 DEF Moving
        <4>3. QED
          BY <4>1, <4>2
      <3>4. QED
        BY <1>2, <3>2, <3>3
    <2>4. CASE q.part = "dev"
      <3>1. r.part = "fees" /\ Amount(q) = q.ds /\ (Cell(q) = <<"pending", p>> <=> p = q.dev)
        BY <1>1, <1>6, <2>1, <2>4 DEF OnTo, Cell, Amount, Fees
      <3>2. /\ PaidTo(q, p) = IF p = q.dev THEN -q.ds ELSE 0
            /\ Moving(q, p) = IF p = q.worker THEN q.ws ELSE 0
            /\ Moving(r, p) = (IF p = q.worker THEN q.ws ELSE 0) + (IF p = q.dev THEN q.ds ELSE 0)
        BY <1>2, <1>6, <2>1, <2>2, <2>4, <3>1 DEF PaidTo, Delta, Moving
      <3>3. QED
        BY <1>2, <3>2
    <2>5. QED
      BY <1>6, <2>3, <2>4
  <1>7. QED
    BY <1>1, <1>4, <1>5, <1>6 DEF Placed

-----------------------------------------------------------------------------
MInv == IInv /\ net \in Int /\ BooksBalance /\ PendingIsOwed

LEMMA QuietMoney ==
  ASSUME MInv, TInv', UNCHANGED <<money, snap, net>>, stale \subseteq stale',
         NEW t \in Threads, NEW q, q = thread[t], NEW r \in Local, Becomes(t, r),
         UnderWay(r) = UnderWay(q), \A p \in Parties : Moving(r, p) = Moving(q, p)
  PROVE  net' \in Int /\ BooksBalance' /\ PendingIsOwed'
  <1>1. TInv /\ net \in Int /\ BooksBalance /\ PendingIsOwed /\ net' = net
    BY DEF MInv, IInv
  <1>2. Fees \in Cells /\ Fees \in Accounts /\ money[Fees] \in Int
    BY <1>1 DEF Cells, Accounts, TInv, TypeOK
  <1>3. net' \in Int /\ BooksBalance'
    <2> PICK d, c, a, b : d = 0 /\ c = Fees /\ a = UnderWay(r) /\ b = UnderWay(q)
      OBVIOUS
    <2>1. a \in Int /\ b \in Int /\ a = b
      BY <1>1, UnderWayTyped DEF TInv, Locals
    <2>2. d + UnderWay(r) - UnderWay(q) = d
      BY <2>1
    <2>3. d \in Int /\ c \in Cells /\ (c \notin Accounts => d = 0) /\ net' = net + d
      BY <1>1, <1>2
    <2>4. money'[c] = money[c] + d /\ \A x \in Cells : x # c => money'[x] = money[x]
      BY <1>2
    <2>5. QED
      BY <1>1, <2>2, <2>3, <2>4, BooksStep
  <1>4. PendingIsOwed'
    BY <1>1, PendingStepAlone
  <1>5. QED
    BY <1>3, <1>4

(* A thread that is neither before nor after moving money.                 *)
LEMMA IdleMoney ==
  ASSUME NEW q, \/ q.job \in {"none", "deposit", "withdraw", "seed", "quoted"} \/ q.part \in {"none", "spend"}
                \/ <<q.job, q.part>> \in {<<"purchase", "balance">>, <<"settle", "balance">>, <<"refund", "worker">>}
  PROVE  UnderWay(q) = 0 /\ \A p \in Parties : Moving(q, p) = 0
  <1>1. UnderWay(q) = 0
    BY NothingUnderWay
  <1>2. ASSUME NEW p PROVE Moving(q, p) = 0
    BY NothingMoving
  <1>3. QED
    BY <1>1, <1>2

LEMMA QuietStep ==
  ASSUME MInv, TInv', NEW t \in Threads,
         \/ Reading(t) \/ Grant(t) \/ WorkerPot(t) \/ DeveloperPot(t) \/ Beginning(t)
         \/ \E i \in Tasks : RefundTask(t, i) \/ \E w \in Workers : Charge(t, i, w)
  PROVE  net' \in Int /\ BooksBalance' /\ PendingIsOwed'
  <1> PICK q : q = thread[t]
    OBVIOUS
  <1>0. TInv /\ Placed(q) /\ q \in Local
    BY DEF MInv, IInv, TInv, Locals, Sound
  <1>1. ASSUME NEW r, Becomes(t, r), Sound(r), UNCHANGED <<money, snap, net, stale>>,
               UnderWay(r) = UnderWay(q), \A p \in Parties : Moving(r, p) = Moving(q, p)
        PROVE  net' \in Int /\ BooksBalance' /\ PendingIsOwed'
    BY <1>0, <1>1, QuietMoney DEF Sound
  <1>2. CASE Reading(t)
    <2>1. UNCHANGED <<money, snap, net, stale>>
      BY <1>0, <1>2, ReadingStep DEF records
    <2>2. PICK r : Sound(r) /\ Becomes(t, r) /\ Onward(q, r)
      BY <1>0, <1>2, ReadingStep
    <2>3. CASE r = Free /\ GivesUp(q)
      <3>1. UnderWay(q) = 0 /\ \A p \in Parties : Moving(q, p) = 0
        <4>1. q.job \in {"withdraw", "quoted"} \/ <<q.job, q.part>> \in {<<"purchase", "balance">>, <<"settle", "balance">>}
          BY <2>3 DEF GivesUp
        <4>2. QED
          BY <4>1, IdleMoney
      <3>2. UnderWay(r) = 0 /\ \A p \in Parties : Moving(r, p) = 0
        BY <2>3, FreeFields, IdleMoney
      <3>3. QED
        BY <1>1, <2>1, <2>2, <3>1, <3>2
    <2>4. CASE Alike(q, r) /\ r.part = q.part /\ AlikeInMoney(q, r)
      BY <1>1, <2>1, <2>2, <2>4, UnderWayAlike, MovingAlike
    <2>5. CASE Alike(q, r) /\ q.job = "quoted"
      <3>1. r.job = "quoted"
        BY <2>5 DEF Alike
      <3>2. UnderWay(q) = 0 /\ \A p \in Parties : Moving(q, p) = 0
        BY <2>5, IdleMoney
      <3>3. UnderWay(r) = 0 /\ \A p \in Parties : Moving(r, p) = 0
        BY <3>1, IdleMoney
      <3>4. QED
        BY <1>1, <2>1, <2>2, <3>2, <3>3
    <2>6. QED
      BY <2>2, <2>3, <2>4, <2>5 DEF Onward
  <1>3. ASSUME NEW r, Becomes(t, r), Sound(r), UNCHANGED <<money, snap, net, stale>>,
               q.job \in {"none", "quoted"} \/ q.part = "none",
               \/ r.job \in {"none", "deposit", "withdraw", "seed", "quoted"} \/ r.part \in {"none", "spend"}
               \/ <<r.job, r.part>> \in {<<"purchase", "balance">>, <<"settle", "balance">>, <<"refund", "worker">>}
        PROVE  net' \in Int /\ BooksBalance' /\ PendingIsOwed'
    <2>1. UnderWay(q) = 0 /\ \A p \in Parties : Moving(q, p) = 0
      BY <1>3, IdleMoney
    <2>2. UnderWay(r) = 0 /\ \A p \in Parties : Moving(r, p) = 0
      BY <1>3, IdleMoney
    <2>3. QED
      BY <1>1, <1>3, <2>1, <2>2
  <1>4. CASE Grant(t)
    <2> PICK r : r = Free
      OBVIOUS
    <2>1. Becomes(t, r) /\ q.pc = "grant" /\ UNCHANGED <<money, snap, net, stale>>
      BY <1>4 DEF Grant, At
    <2>2. QED
      BY <1>0, <1>3, <2>1, FreeFields DEF Placed
  <1>5. CASE WorkerPot(t)
    <2>1. UNCHANGED <<money, snap, net, stale>>
      BY <1>5 DEF WorkerPot
    <2>2. q.pc = "pot"
      BY <1>5 DEF WorkerPot, At
    <2>3. PICK r : Sound(r) /\ Becomes(t, r) /\ r.part = "none"
      BY <1>0, <1>5, WorkerPotStep
    <2>4. QED
      BY <1>0, <1>3, <2>1, <2>2, <2>3 DEF Placed
  <1>6. CASE DeveloperPot(t)
    <2>1. UNCHANGED <<money, snap, net, stale>>
      BY <1>6 DEF DeveloperPot
    <2>2. q.pc = "devpot"
      BY <1>6 DEF DeveloperPot, At
    <2>3. PICK r : Sound(r) /\ Becomes(t, r) /\ (r.part = "spend" \/ r = Free)
      BY <1>0, <1>6, DeveloperPotStep
    <2>4. QED
      BY <1>0, <1>3, <2>1, <2>2, <2>3, FreeFields DEF Placed
  <1>7. CASE Beginning(t)
    <2>1. UNCHANGED <<money, snap, net, stale>> /\ q.pc = "free"
      BY <1>0, <1>7, BeginningStep DEF records
    <2>2. PICK r : Sound(r) /\ Becomes(t, r) /\ r.pc = "get" /\ ~Tasked(r) /\ (r.job = "purchase" => r.part = "balance")
      BY <1>0, <1>7, BeginningStep
    <2>3. r.job \in {"deposit", "withdraw", "seed"} \/ <<r.job, r.part>> = <<"purchase", "balance">>
      BY <2>2 DEF Sound, Placed, Tasked
    <2>4. QED
      BY <1>0, <1>3, <2>1, <2>2, <2>3 DEF Placed
  <1>8. ASSUME NEW i \in Tasks, RefundTask(t, i) PROVE net' \in Int /\ BooksBalance' /\ PendingIsOwed'
    <2>1. UNCHANGED <<money, snap, net, stale>> /\ q.pc = "free"
      BY <1>0, <1>8, RefundStep DEF records
    <2>2. PICK r : Sound(r) /\ Becomes(t, r) /\ r.job = "refund" /\ r.part = "worker"
      BY <1>0, <1>8, RefundStep
    <2>3. QED
      BY <1>0, <1>3, <2>1, <2>2 DEF Placed
  <1>9. ASSUME NEW i \in Tasks, NEW w \in Workers, Charge(t, i, w)
        PROVE  net' \in Int /\ BooksBalance' /\ PendingIsOwed'
    <2>1. UNCHANGED <<money, snap, net, stale>> /\ q.pc = "free"
      BY <1>0, <1>9, ChargeStep DEF records
    <2>2. PICK r : Sound(r) /\ Becomes(t, r) /\ r.pc \in {"check", "price"}
      BY <1>0, <1>9, ChargeStep
    <2>3. r.job = "quoted" \/ <<r.job, r.part>> = <<"settle", "balance">>
      BY <2>2 DEF Sound, Placed
    <2>4. QED
      BY <1>0, <1>3, <2>1, <2>2, <2>3 DEF Placed
  <1>10. QED
    BY <1>2, <1>4, <1>5, <1>6, <1>7, <1>8, <1>9

LEMMA PutMoney ==
  ASSUME MInv, TInv', NEW t \in Threads, Put(t)
  PROVE  net' \in Int /\ BooksBalance' /\ PendingIsOwed'
  <1> PICK q : q = thread[t]
    OBVIOUS
  <1>1. TInv /\ net \in Int /\ BooksBalance /\ PendingIsOwed
    BY DEF MInv, IInv
  <1>2. Store(q) /\ net' = net + Brings(q) /\ snap' = snap
    BY DEF Put, records
  <1>3. Sound(q) /\ q.pc = "put" /\ ~Special(q)
    BY <1>1, PutStep
  <1>4. PICK r : /\ Sound(r) /\ Becomes(t, r)
                 /\ \/ Done(q) /\ r = Free
                    \/ OnTo(q, r) /\ Alike(q, r) /\ AlikeInMoney(q, r)
    BY <1>1, PutStep
  <1>5. r \in Local /\ q \in Local
    BY <1>3, <1>4 DEF Sound
  <1>6. /\ Cell(q) \in Cells /\ stale \subseteq stale' /\ Delta(q) \in Int
        /\ \A c \in Cells : c # Cell(q) => money'[c] = money[c]
        /\ Cell(q)[1] \notin stale' => money'[Cell(q)] = money[Cell(q)] + Delta(q)
    BY <1>1, <1>2, <1>3, StoreMoves
  <1>7. net' \in Int /\ BooksBalance'
    <2> PICK c, d, e : c = Cell(q) /\ d = (IF q.part = "spend" THEN 0 ELSE Delta(q)) /\ e = Brings(q)
      OBVIOUS
    <2>1. e \in Int /\ d + UnderWay(r) - UnderWay(q) = e
      BY <1>3, <1>4, PutUnderWay
    <2>2. (q.part = "spend" <=> c[1] = "spend") /\ (q.part # "spend" => c \in Accounts)
      BY <1>3, CellOf, WrittenTyped
    <2>3. c \in Accounts => c[1] # "spend"
      BY DEF Accounts, Fees
    <2>4. d \in Int /\ (c \notin Accounts => d = 0) /\ (c \in Accounts => d = Delta(q))
      BY <1>6, <2>2, <2>3
    <2>5. /\ c \in Cells /\ \A x \in Cells : x # c => money'[x] = money[x]
          /\ c \in Accounts /\ c[1] \notin stale' => money'[c] = money[c] + d
      BY <1>6, <2>4
    <2>6. net' = net + e
      BY <1>2
    <2>7. QED
      BY <1>1, <1>4, <1>5, <1>6, <2>1, <2>4, <2>5, <2>6, BooksStep
  <1>8. PendingIsOwed'
    <2>1. ASSUME NEW p \in Parties, "pending" \notin stale'
          PROVE  money'[<<"pending", p>>] + Moving(r, p) = money[<<"pending", p>>] + Moving(q, p)
      <3> PICK m, n, a, b, x : /\ m = money[<<"pending", p>>] /\ n = money'[<<"pending", p>>]
                               /\ a = Moving(r, p) /\ b = Moving(q, p) /\ x = PaidTo(q, p)
        OBVIOUS
      <3>1. n = m + x
        BY <1>1, <1>2, <1>3, <2>1, Pays
      <3>2. x + a = b
        BY <1>3, <1>4, PutMoving
      <3>3. m \in Int /\ a \in Int /\ b \in Int /\ x \in Int
        <4>1. <<"pending", p>> \in Cells
          BY DEF Cells, Accounts
        <4>2. QED
          BY <1>1, <1>5, <1>6, <4>1, MovingTyped DEF TInv, TypeOK, PaidTo
      <3>4. n + a = m + b
        BY <3>1, <3>2, <3>3
      <3>5. QED
        BY <3>4
    <2>2. QED
      BY <1>1, <1>2, <1>4, <1>5, <1>6, <2>1, PendingStepAlone
  <1>9. QED
    BY <1>7, <1>8

(* The cost leaves a deposit and is under way to those in the snapshot.    *)
LEMMA SettlementMoney ==
  ASSUME MInv, TInv', NEW t \in Threads, PutSettlement(t)
  PROVE  net' \in Int /\ BooksBalance' /\ PendingIsOwed'
  <1> PICK q, i : q = thread[t] /\ i = q.task
    OBVIOUS
  <1> PICK s : s = Split(developer[q.mode], q.worker)
    OBVIOUS
  <1>1. TInv /\ SInv /\ net \in Int /\ BooksBalance /\ PendingIsOwed
    BY DEF MInv, IInv
  <1>2. Store(q) /\ net' = net /\ snap' = [snap EXCEPT ![i] = s]
    BY DEF PutSettlement
  <1>3. /\ Sound(q) /\ q.pc = "put" /\ q.job = "settle" /\ q.part = "balance"
        /\ s \in Snap /\ s.st = "settled" /\ AddsUp(s) /\ s.worker = q.worker
    BY <1>1, SettlementStep
  <1>4. PICK r : Sound(r) /\ Becomes(t, r) /\ Settles(q, s, r)
    BY <1>1, SettlementStep
  <1>5. /\ r \in Local /\ q \in Local /\ i \in Tasks /\ q.due = Cost /\ q.user \in Users
        /\ s.ws \in Nat /\ s.ds \in Nat /\ s.ts \in Nat
    BY <1>3, <1>4 DEF Sound, Fits, Tasked, Local, Snap
  <1>6. snap[i].st = "none" /\ snap'[i] = s /\ \A j \in Tasks : j # i => snap'[j] = snap[j]
    <2>1. Stage(q, snap[i], pots[i], task[i], developer[q.mode], Mark)
      BY <1>1 DEF SInv, Staged
    <2>2. snap[i].st = "none"
      BY <1>3, <2>1 DEF Stage, ServingStage, Serving
    <2>3. QED
      BY <1>1, <1>2, <1>5, <2>2 DEF TInv, Books
  <1>7. /\ r.job = "settle" /\ r.part = "worker" /\ r.worker = q.worker
        /\ r.dev = s.dev /\ r.ws = s.ws /\ r.ds = s.ds /\ r.ts = s.ts
    BY <1>3, <1>4 DEF Settles, Alike
  <1>8. /\ Cell(q) \in Cells /\ stale \subseteq stale' /\ Delta(q) \in Int
        /\ \A c \in Cells : c # Cell(q) => money'[c] = money[c]
        /\ Cell(q)[1] \notin stale' => money'[Cell(q)] = money[Cell(q)] + Delta(q)
    BY <1>1, <1>2, <1>3, StoreMoves
  <1>9. Cell(q) = <<"balance", q.user>> /\ Delta(q) = -Cost /\ Cell(q) \in Accounts
    BY <1>3, <1>5 DEF Cell, Delta, Amount, Takes, Accounts
  <1>10. UnderWay(q) = 0 /\ UnderWay(r) = Cost
    <2>1. UnderWay(q) = 0
      BY <1>3, NothingUnderWay
    <2>2. UnderWay(r) = s.ws + s.ds + s.ts
      BY <1>7 DEF UnderWay
    <2>3. QED
      BY <1>3, <2>1, <2>2 DEF AddsUp
  <1>11. net' \in Int /\ BooksBalance'
    <2> PICK c, d, e : c = Cell(q) /\ d = Delta(q) /\ e = 0
      OBVIOUS
    <2>1. d + UnderWay(r) - UnderWay(q) = e /\ d \in Int /\ e \in Int /\ net' = net + e
      BY <1>1, <1>2, <1>8, <1>9, <1>10, Constants
    <2>2. /\ c \in Cells /\ c \in Accounts /\ \A x \in Cells : x # c => money'[x] = money[x]
          /\ c[1] \notin stale' => money'[c] = money[c] + d
      BY <1>8, <1>9
    <2>3. QED
      BY <1>1, <1>4, <1>5, <1>8, <2>1, <2>2, BooksStep
  <1>12. PendingIsOwed'
    <2>1. ASSUME NEW p \in Parties
          PROVE  money'[<<"pending", p>>] + Moving(r, p) + Due(snap[i], p)
                   = money[<<"pending", p>>] + Moving(q, p) + Due(snap'[i], p)
      <3>1. money'[<<"pending", p>>] = money[<<"pending", p>>] /\ money[<<"pending", p>>] \in Int
        <4>1. <<"pending", p>> \in Cells /\ <<"pending", p>> # Cell(q)
          BY <1>9 DEF Cells, Accounts
        <4>2. QED
          BY <1>1, <1>8, <4>1 DEF TInv, TypeOK
      <3>2. Moving(q, p) = 0 /\ Due(snap[i], p) = 0
        BY <1>3, <1>6, NothingMoving DEF Due
      <3>3. Moving(r, p) = (IF p = s.worker THEN s.ws ELSE 0) + (IF p = s.dev THEN s.ds ELSE 0)
        BY <1>3, <1>5, <1>7 DEF Moving
      <3>4. Due(snap'[i], p) = (IF p = s.worker THEN s.ws ELSE 0) + (IF p = s.dev THEN s.ds ELSE 0)
        BY <1>3, <1>6 DEF Due
      <3> PICK m, a : m = money[<<"pending", p>>] /\ a = (IF p = s.worker THEN s.ws ELSE 0) + (IF p = s.dev THEN s.ds ELSE 0)
        OBVIOUS
      <3>5. m \in Int /\ a \in Int
        BY <1>5, <3>1
      <3>6. m + a + 0 = m + 0 + a
        BY <3>5
      <3>7. QED
        BY <3>1, <3>2, <3>3, <3>4, <3>6
    <2>2. QED
      BY <1>1, <1>4, <1>5, <1>6, <1>8, <2>1, PendingStep
  <1>13. QED
    BY <1>11, <1>12

(* The last share is taken back and the task is no longer due to anybody.  *)
LEMMA RefundedMoney ==
  ASSUME MInv, TInv', NEW t \in Threads, PutRefund(t)
  PROVE  net' \in Int /\ BooksBalance' /\ PendingIsOwed'
  <1> PICK q, i : q = thread[t] /\ i = q.task
    OBVIOUS
  <1>1. TInv /\ SInv /\ net \in Int /\ BooksBalance /\ PendingIsOwed
    BY DEF MInv, IInv
  <1>2. Store(q) /\ net' = net /\ snap' = [snap EXCEPT ![i].st = "refunded"]
    BY DEF PutRefund
  <1>3. Sound(q) /\ q.pc = "put" /\ q.job = "refund" /\ q.part = "fees"
    BY <1>1, RefundedStep
  <1>4. PICK r : Sound(r) /\ Becomes(t, r) /\ Alike(q, r) /\ AlikeInMoney(q, r) /\ r.part = "balance"
    BY <1>1, RefundedStep
  <1>5. /\ r \in Local /\ q \in Local /\ i \in Tasks /\ q.due = Cost /\ AddsUp(q)
        /\ q.ws \in Nat /\ q.ds \in Nat /\ q.ts \in Nat
    BY <1>3, <1>4 DEF Sound, Fits, Tasked, Sharing, Local
  <1>6. /\ snap[i].st = "settled" /\ snap[i].worker = q.worker /\ snap[i].dev = q.dev
        /\ snap[i].ws = q.ws /\ snap[i].ds = q.ds
        /\ snap'[i].st = "refunded" /\ \A j \in Tasks : j # i => snap'[j] = snap[j]
    <2>1. Stage(q, snap[i], pots[i], task[i], developer[q.mode], Mark)
      BY <1>1 DEF SInv, Staged
    <2>2. snap[i] \in Snap /\ snap'[i] = [snap[i] EXCEPT !.st = "refunded"] /\ \A j \in Tasks : j # i => snap'[j] = snap[j]
      BY <1>1, <1>2, <1>5 DEF TInv, Books
    <2>3. QED
      BY <1>3, <2>1, <2>2 DEF Stage, RefundStage, Snap
  <1>7. r.job = "refund" /\ r.due = Cost
    BY <1>3, <1>4, <1>5 DEF Alike, AlikeInMoney
  <1>8. /\ Cell(q) \in Cells /\ stale \subseteq stale' /\ Delta(q) \in Int
        /\ \A c \in Cells : c # Cell(q) => money'[c] = money[c]
        /\ Cell(q)[1] \notin stale' => money'[Cell(q)] = money[Cell(q)] + Delta(q)
    BY <1>1, <1>2, <1>3, StoreMoves
  <1>9. Cell(q) = Fees /\ Delta(q) = -q.ts /\ Cell(q) \in Accounts
    BY <1>3 DEF Cell, Delta, Amount, Unwinds, Accounts
  <1>10. UnderWay(q) = q.ws + q.ds /\ UnderWay(r) = q.ws + q.ds + q.ts
    <2>1. UnderWay(q) = q.ws + q.ds /\ UnderWay(r) = Cost
      BY <1>3, <1>4, <1>7 DEF UnderWay
    <2>2. QED
      BY <1>5, <2>1 DEF AddsUp
  <1>11. net' \in Int /\ BooksBalance'
    <2> PICK c, d, e : c = Cell(q) /\ d = Delta(q) /\ e = 0
      OBVIOUS
    <2>1. d + UnderWay(r) - UnderWay(q) = e /\ d \in Int /\ e \in Int /\ net' = net + e
      BY <1>1, <1>2, <1>5, <1>8, <1>9, <1>10
    <2>2. /\ c \in Cells /\ c \in Accounts /\ \A x \in Cells : x # c => money'[x] = money[x]
          /\ c[1] \notin stale' => money'[c] = money[c] + d
      BY <1>8, <1>9
    <2>3. QED
      BY <1>1, <1>4, <1>5, <1>8, <2>1, <2>2, BooksStep
  <1>12. PendingIsOwed'
    <2>1. ASSUME NEW p \in Parties
          PROVE  money'[<<"pending", p>>] + Moving(r, p) + Due(snap[i], p)
                   = money[<<"pending", p>>] + Moving(q, p) + Due(snap'[i], p)
      <3>1. money'[<<"pending", p>>] = money[<<"pending", p>>] /\ money[<<"pending", p>>] \in Int
        <4>1. <<"pending", p>> \in Cells /\ <<"pending", p>> # Cell(q)
          BY <1>9 DEF Cells, Accounts, Fees
        <4>2. QED
          BY <1>1, <1>8, <4>1 DEF TInv, TypeOK
      <3>2. Moving(r, p) = 0 /\ Due(snap'[i], p) = 0
        BY <1>4, <1>6, NothingMoving DEF Due
      <3>3. Moving(q, p) = (IF p = q.worker THEN q.ws ELSE 0) + (IF p = q.dev THEN q.ds ELSE 0)
        BY <1>3, <1>5 DEF Moving
      <3>4. Due(snap[i], p) = (IF p = q.worker THEN q.ws ELSE 0) + (IF p = q.dev THEN q.ds ELSE 0)
        BY <1>6 DEF Due
      <3> PICK m, a : m = money[<<"pending", p>>] /\ a = (IF p = q.worker THEN q.ws ELSE 0) + (IF p = q.dev THEN q.ds ELSE 0)
        OBVIOUS
      <3>5. m \in Int /\ a \in Int
        BY <1>5, <3>1
      <3>6. m + 0 + a = m + a + 0
        BY <3>5
      <3>7. QED
        BY <3>1, <3>2, <3>3, <3>4, <3>6
    <2>2. QED
      BY <1>1, <1>4, <1>5, <1>6, <1>8, <2>1, PendingStep
  <1>13. QED
    BY <1>11, <1>12

LEMMA AtOnceMoney ==
  ASSUME MInv, UNCHANGED <<money, snap, thread, net>>, stale \subseteq stale'
  PROVE  net' \in Int /\ BooksBalance' /\ PendingIsOwed'
  <1>1. net \in Int /\ BooksBalance /\ PendingIsOwed
    BY DEF MInv
  <1>2. BooksBalance <=> (Overwritten = {} => Held + Flow = net)
    BY DEF BooksBalance, Overwritten, Held, Flow
  <1>3. BooksBalance' <=> (Overwritten' = {} => Held' + Flow' = net')
    BY DEF BooksBalance, Overwritten, Held, Flow
  <1>4. Held' = Held /\ Flow' = Flow /\ (Overwritten' = {} => Overwritten = {})
    BY DEF Held, Flow, Overwritten
  <1>5. PendingIsOwed <=> ("pending" \notin stale => \A p \in Parties : money[<<"pending", p>>] + Drift(p) = Owing(p))
    BY DEF PendingIsOwed, Drift, Owing
  <1>6. PendingIsOwed' <=> ("pending" \notin stale' =>
                              \A p \in Parties : money[<<"pending", p>>] + Drift(p) = Owing(p))
    BY DEF PendingIsOwed, Drift, Owing
  <1>7. QED
    BY <1>1, <1>2, <1>3, <1>4, <1>5, <1>6

LEMMA NextMInv ==
  ASSUME MInv, [Next]_vars
  PROVE  MInv'
  <1>1. IInv' /\ TInv' /\ TInv
    BY NextIInv DEF MInv, IInv
  <1>2. CASE AtOnce
    <2>1. UNCHANGED <<money, snap, thread, net>> /\ stale \subseteq stale'
      BY <1>1, <1>2, AtOnceStep
    <2>2. QED
      BY <1>1, <2>1, AtOnceMoney DEF MInv
  <1>3. CASE UNCHANGED vars
    <2>1. UNCHANGED <<money, snap, thread, net>> /\ stale \subseteq stale'
      BY <1>3 DEF vars, records
    <2>2. QED
      BY <1>1, <2>1, AtOnceMoney DEF MInv
  <1>4. ASSUME NEW t \in Threads, Threaded(t) PROVE MInv'
    <2>1. CASE Put(t)
      BY <1>1, <2>1, PutMoney DEF MInv
    <2>2. CASE PutSettlement(t)
      BY <1>1, <2>2, SettlementMoney DEF MInv
    <2>3. CASE PutRefund(t)
      BY <1>1, <2>3, RefundedMoney DEF MInv
    <2>4. CASE \/ Reading(t) \/ Grant(t) \/ WorkerPot(t) \/ DeveloperPot(t) \/ Beginning(t)
               \/ \E i \in Tasks : RefundTask(t, i) \/ \E w \in Workers : Charge(t, i, w)
      BY <1>1, <2>4, QuietStep DEF MInv
    <2>5. QED
      BY <1>4, <2>1, <2>2, <2>3, <2>4 DEF Threaded
  <1>5. QED
    BY <1>2, <1>3, <1>4, NextIsThreaded

LEMMA InitMInv == Init => MInv
  <1> SUFFICES ASSUME Init PROVE MInv
    OBVIOUS
  <1>1. IInv /\ net = 0
    BY InitIInv DEF Init
  <1>2. \A t \in Threads : UnderWay(thread[t]) = 0 /\ \A p \in Parties : Moving(thread[t], p) = 0
    <2>1. \A t \in Threads : thread[t] = Free
      BY DEF Init
    <2> HIDE DEF Free
    <2>2. UnderWay(Free) = 0 /\ \A p \in Parties : Moving(Free, p) = 0
      BY FreeFields, IdleMoney
    <2>3. QED
      BY <2>1, <2>2
  <1>3. \A i \in Tasks : snap[i].st = "none"
    BY DEF Init, NoSnap
  <1>4. \A c \in Cells : money[c] = 0
    BY DEF Init
  <1>5. Flow = 0
    <2> DEFINE f == [t \in Threads |-> UnderWay(thread[t])]
    <2>1. \A t \in Threads : f[t] = 0
      BY <1>2
    <2> HIDE DEF f
    <2>2. SumFunctionOnSet(f, Threads) = 0
      BY <2>1, FiniteConstants, SumZero
    <2>3. QED
      BY <2>2 DEF Flow, f
  <1>6. Held = 0
    <2>1. \A c \in Accounts : money[c] = 0
      BY <1>4 DEF Cells
    <2>2. QED
      BY <2>1, FiniteConstants, SumZero DEF Held
  <1>7. ASSUME NEW p \in Parties PROVE Drift(p) = 0 /\ Owing(p) = 0 /\ money[<<"pending", p>>] = 0
    <2> DEFINE f == [t \in Threads |-> Moving(thread[t], p)]
               g == [i \in Tasks |-> Due(snap[i], p)]
    <2>1. \A t \in Threads : f[t] = 0
      BY <1>2
    <2>2. \A i \in Tasks : g[i] = 0
      BY <1>3 DEF Due
    <2>3. Drift(p) = SumFunctionOnSet(f, Threads) /\ Owing(p) = SumFunctionOnSet(g, Tasks)
      BY DEF Drift, Owing
    <2> HIDE DEF f, g
    <2>4. SumFunctionOnSet(f, Threads) = 0 /\ SumFunctionOnSet(g, Tasks) = 0
      BY <2>1, <2>2, FiniteConstants, SumZero
    <2>5. QED
      BY <1>4, <2>3, <2>4 DEF Cells, Accounts
  <1>8. BooksBalance
    <2>1. BooksBalance <=> (Overwritten = {} => Held + Flow = net)
      BY DEF BooksBalance, Overwritten, Held, Flow
    <2>2. QED
      BY <1>1, <1>5, <1>6, <2>1
  <1>9. PendingIsOwed
    <2>1. PendingIsOwed <=> ("pending" \notin stale => \A p \in Parties : money[<<"pending", p>>] + Drift(p) = Owing(p))
      BY DEF PendingIsOwed, Drift, Owing
    <2>2. QED
      BY <1>7, <2>1
  <1>10. QED
    BY <1>1, <1>8, <1>9 DEF MInv

(* What is due to a party, with what threads are moving, is what the       *)
(* settled tasks' snapshots owe it, for any number of parties, tasks and   *)
(* threads, until a payout is overwritten with what was read before.       *)
THEOREM PendingOwed == Spec => []PendingIsOwed
  <1>1. MInv => PendingIsOwed
    BY DEF MInv
  <1>2. QED
    BY <1>1, InitMInv, NextMInv, PTL DEF Spec

(* Deposits, payouts, fees, pools and what is under way add up to what came*)
(* in less what went out, at every step of any number of threads, until    *)
(* money is overwritten with what was read before.                         *)
THEOREM BooksSafe == Spec => []BooksBalance
  <1>1. MInv => BooksBalance
    BY DEF MInv
  <1>2. QED
    BY <1>1, InitMInv, NextMInv, PTL DEF Spec
=============================================================================
