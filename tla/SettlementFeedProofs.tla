------------------------ MODULE SettlementFeedProofs ------------------------
(***************************************************************************)
(* Theorems about CircuitBreaker, for every threshold, and about the       *)
(* settlement feed it is a part of, for any number of clients, any buffer  *)
(* and any number of blocks, entries and restarts: the breaker is as sound *)
(* there, no log is skipped, and no stream repeats or reorders anything.    *)
(***************************************************************************)
EXTENDS SettlementFeed, SequenceTheorems, TLAPS

States == {"CLOSED", "HALF_OPEN", "OPEN"}

Keys == {"fails", "state", "stamp", "alert", "tell"}

(* Unless it is still to be stored, the storage has the state of the       *)
(* memory, and a count no larger, in Redis the same, if it is not the text *)
(* of a success.  A failure is stored only where Redis does not refuse.    *)
Stores ==
  /\ redis \in BOOLEAN /\ cooled \in BOOLEAN
  /\ state \in States
  /\ db \in [state : States, fails : {Quoted} \cup 0..MaxFails, cooled : BOOLEAN]
  /\ todo \subseteq Keys
  /\ "state" \notin todo => db.state = state
  /\ "fails" \notin todo /\ db.fails # Quoted => db.fails <= fails /\ (redis => db.fails = fails)
  /\ "fails" \in todo /\ fails > 0 =>
        /\ ~RedisRefuses
        /\ db.fails # Quoted => db.fails <= fails - 1 /\ (redis => db.fails = fails - 1)

(* What the breaker counts is no less than what really happened in a row,  *)
(* but for the failures that a crash cut off.                              *)
Counts ==
  /\ fails \in 0..MaxFails /\ streak \in Nat /\ worse \in Nat /\ cuts \in Nat /\ forced \in BOOLEAN
  /\ degraded \in 0..MaxDegraded
  /\ state = "HALF_OPEN" => degraded < MaxDegraded /\ degraded <= worse
  /\ (state = "CLOSED" \/ db.state = "CLOSED") /\ ~RedisRefuses => streak <= fails + cuts

(* What a restart would find is as sound as what is in memory.             *)
Restartable ==
  /\ held \in [worse : Nat, forced : BOOLEAN]
  /\ db.state = "OPEN" => held.forced \/ held.worse >= MaxDegraded
  /\ db.state = "CLOSED" /\ state = "OPEN" /\ ~RedisRefuses => streak < Threshold + cuts
  /\ db.state = "CLOSED" /\ state = "HALF_OPEN" /\ ~RedisRefuses => streak <= Threshold + cuts

IInv == Stores /\ Counts /\ Restartable /\ DegradesInTime /\ OpenIsEarned

USE DEF States, Keys

(* Where the breaker begins, and where it is again without Redis.          *)
Fresh ==
  /\ state = "CLOSED" /\ fails = 0 /\ degraded = 0 /\ cooled = TRUE
  /\ db = [state |-> "CLOSED", fails |-> 0, cooled |-> TRUE]
  /\ todo = {}
  /\ streak = 0 /\ worse = 0 /\ forced = FALSE
  /\ held = [worse |-> 0, forced |-> FALSE] /\ cuts = 0

LEMMA FreshIInv == redis \in BOOLEAN /\ Fresh => IInv
<1> SUFFICES ASSUME redis \in BOOLEAN, Fresh PROVE IInv
  OBVIOUS
<1>1. db.state = "CLOSED" /\ db.fails = 0 /\ ~RedisRefuses
  BY DEF Fresh, RedisRefuses, Quoted
<1>2. Stores
  BY <1>1, BreakerAssumption DEF Fresh, Stores, Quoted
<1>3. held \in [worse : Nat, forced : BOOLEAN]
  BY DEF Fresh
<1>4. Threshold \in Nat \ {0} /\ MaxDegraded \in Nat \ {0} /\ MaxFails \in Nat
  BY BreakerAssumption
<1>5. Counts
  <2>1. /\ state = "CLOSED" /\ fails = 0 /\ degraded = 0 /\ streak = 0 /\ worse = 0 /\ cuts = 0
        /\ forced = FALSE
    BY DEF Fresh
  <2>2. fails \in 0..MaxFails /\ degraded \in 0..MaxDegraded /\ streak <= fails + cuts
    BY <1>4, <2>1
  <2> QED
    BY <2>1, <2>2 DEF Counts
<1>6. Restartable
  BY <1>1, <1>3 DEF Fresh, Restartable
<1>7. DegradesInTime /\ OpenIsEarned
  BY <1>4 DEF Fresh, DegradesInTime, OpenIsEarned
<1> QED
  BY <1>2, <1>5, <1>6, <1>7 DEF IInv

LEMMA InitIInv == Init => IInv
BY FreshIInv DEF Init, Fresh

LEMMA Types ==
  ASSUME IInv
  PROVE  /\ fails \in 0..MaxFails /\ degraded \in 0..MaxDegraded /\ forced \in BOOLEAN
         /\ streak \in Nat /\ worse \in Nat /\ cuts \in Nat
         /\ db.fails \in {Quoted} \cup 0..MaxFails /\ db.state \in States /\ db.cooled \in BOOLEAN
         /\ state \in States /\ held.worse \in Nat /\ held.forced \in BOOLEAN
         /\ Threshold \in Nat \ {0} /\ MaxDegraded \in Nat \ {0} /\ MaxFails \in Nat
BY BreakerAssumption DEF IInv, Stores, Counts, Restartable

(* An operation changes the memory and leaves the storage for later.       *)
LEMMA OperationStores ==
  ASSUME IInv, Idle, NEW s \in States, NEW also \in SUBSET {"fails", "tell"},
         Transition(s, also), UNCHANGED redis, fails' \in 0..MaxFails,
         "fails" \in also => fails' = 0 \/ (fails' = fails + 1 /\ ~RedisRefuses),
         "fails" \notin also => fails' = fails
  PROVE  Stores' /\ state' = s /\ UNCHANGED db /\ db.state = state /\ RedisRefuses' = RedisRefuses
<1>1. /\ db.state = state
      /\ db.fails # Quoted => db.fails <= fails /\ (redis => db.fails = fails)
  BY DEF IInv, Stores, Idle
<1>2. /\ cooled' \in BOOLEAN /\ state' = s /\ UNCHANGED <<db, redis>>
      /\ todo' \subseteq Keys
      /\ "state" \notin todo' => s = state
      /\ "fails" \in todo' <=> "fails" \in also
  BY DEF IInv, Stores, Transition
<1>3. RedisRefuses' = RedisRefuses
  BY <1>2 DEF RedisRefuses
<1>4. redis \in BOOLEAN /\ db \in [state : States, fails : {Quoted} \cup 0..MaxFails, cooled : BOOLEAN]
  BY DEF IInv, Stores
<1>5. "fails" \in todo' /\ fails' > 0 => fails' - 1 = fails /\ ~RedisRefuses
  BY <1>2, Types
<1>6. "fails" \notin todo' => fails' = fails
  BY <1>2
<1>7. Stores'
  BY <1>1, <1>2, <1>3, <1>4, <1>5, <1>6 DEF Stores
<1> QED
  BY <1>1, <1>2, <1>3, <1>7

LEMMA FailureStep ==
  ASSUME IInv, RecordFailure
  PROVE  IInv'
<1>1. /\ fails < MaxFails /\ streak < MaxFails /\ worse < MaxFails /\ Idle
      /\ fails' = fails + 1 /\ UNCHANGED <<redis, forced, held, cuts>>
      /\ streak' = (IF state = "CLOSED" THEN streak + 1 ELSE streak)
      /\ worse' = (IF state = "HALF_OPEN" THEN worse + 1 ELSE worse)
  BY DEF RecordFailure
<1>2. CASE RedisRefuses
  <2>1. UNCHANGED <<state, degraded, cooled, db, todo>> /\ todo = {}
    BY <1>1, <1>2 DEF RecordFailure, Idle
  <2>2. RedisRefuses'
    BY <1>1, <1>2, <2>1 DEF RedisRefuses
  <2>3. Stores'
    BY <1>1, <1>2, <2>1, Types DEF IInv, Stores, RedisRefuses
  <2> QED
    BY <1>1, <2>1, <2>2, <2>3, Types
    DEF IInv, Counts, Restartable, DegradesInTime, OpenIsEarned
<1>3. ASSUME ~RedisRefuses, NEW s \in States, Transition(s, {"fails"}),
             degraded' \in 0..MaxDegraded,
             s = "HALF_OPEN" => degraded' < MaxDegraded /\ degraded' <= worse',
             s = "OPEN" => forced \/ worse' >= MaxDegraded,
             s = "CLOSED" => state = "CLOSED" /\ ~Trips,
             state = "CLOSED" => s # "OPEN"
      PROVE  IInv'
  <2>1. fails' \in 0..MaxFails /\ streak' \in Nat /\ worse' \in Nat
    BY <1>1, Types
  <2>2. /\ Stores' /\ state' = s /\ UNCHANGED db /\ db.state = state
        /\ RedisRefuses' = RedisRefuses
    BY <1>1, <1>3, <2>1, OperationStores
  <2>3. state = "CLOSED" => streak < Threshold + cuts /\ streak <= fails + cuts
    BY <1>3 DEF IInv, Counts, DegradesInTime
  <2>4. s = "CLOSED" => fails' < Threshold
    BY <1>1, <1>3, <2>1, Types DEF Trips
  <2>5. Counts'
    <3>1. state = "CLOSED" => streak' <= fails' + cuts
      BY <1>1, <2>3, Types
    <3> QED
      BY <1>1, <1>3, <2>1, <2>2, <3>1, Types DEF Counts
  <2>6. Restartable'
    <3>1. state = "CLOSED" => streak' <= Threshold + cuts
      BY <1>1, <2>3, Types
    <3> QED
      BY <1>1, <1>3, <2>2, <3>1 DEF IInv, Restartable
  <2>7. DegradesInTime'
    <3>1. s = "CLOSED" => streak' < Threshold + cuts
      BY <1>1, <1>3, <2>1, <2>3, <2>4, Types
    <3> QED
      BY <1>1, <2>2, <3>1 DEF DegradesInTime
  <2>8. OpenIsEarned'
    BY <1>1, <1>3, <2>2 DEF OpenIsEarned
  <2> QED
    BY <2>2, <2>5, <2>6, <2>7, <2>8 DEF IInv
<1>4. CASE ~RedisRefuses /\ state = "CLOSED" /\ Trips
  <2>1. degraded' = 0 /\ Transition("HALF_OPEN", {"fails"})
    BY <1>4 DEF RecordFailure, DegradedOnEntry
  <2>2. degraded' \in 0..MaxDegraded /\ degraded' < MaxDegraded /\ degraded' <= worse'
    BY <1>1, <1>4, <2>1, BreakerAssumption DEF IInv, Counts
  <2> QED
    BY <1>3, <1>4, <2>1, <2>2
<1>5. CASE ~RedisRefuses /\ state = "HALF_OPEN"
  <2> DEFINE s == IF Isolates THEN "OPEN" ELSE state
  <2>1. degraded' = degraded + 1 /\ Transition(s, {"fails"})
    BY <1>5 DEF RecordFailure
  <2>2. /\ degraded' \in 0..MaxDegraded /\ s \in {"HALF_OPEN", "OPEN"}
        /\ s = "HALF_OPEN" => degraded' < MaxDegraded /\ degraded' <= worse'
        /\ s = "OPEN" => forced \/ worse' >= MaxDegraded
    BY <1>1, <1>5, <2>1, BreakerAssumption DEF IInv, Counts, Isolates
  <2> HIDE DEF s
  <2> QED
    BY <1>3, <1>5, <2>1, <2>2
<1>6. CASE ~RedisRefuses /\ state # "HALF_OPEN" /\ ~(state = "CLOSED" /\ Trips)
  <2>1. UNCHANGED degraded /\ Transition(state, {"fails"})
    BY <1>6 DEF RecordFailure
  <2>2. state \in States /\ degraded' \in 0..MaxDegraded
    BY <2>1 DEF IInv, Stores, Counts
  <2>3. state = "OPEN" => forced \/ worse' >= MaxDegraded
    BY <1>1, <1>6 DEF IInv, OpenIsEarned
  <2> QED
    BY <1>3, <1>6, <2>1, <2>2, <2>3
<1> QED
  BY <1>2, <1>4, <1>5, <1>6

LEMMA SuccessStep ==
  ASSUME IInv, RecordSuccess
  PROVE  IInv'
<1> DEFINE s == IF state = "HALF_OPEN" THEN "CLOSED" ELSE state
<1>1. /\ fails' = 0 /\ degraded' = 0 /\ streak' = 0 /\ cuts' = 0 /\ Idle
      /\ UNCHANGED <<redis, forced, held>>
      /\ worse' = (IF state = "OPEN" THEN worse ELSE 0)
      /\ Transition(s, {"fails"})
  BY DEF RecordSuccess
<1>2. s \in States /\ s # "HALF_OPEN" /\ (s = "OPEN" => state = "OPEN")
  BY Types
<1> HIDE DEF s
<1>3. /\ Stores' /\ state' = s /\ UNCHANGED db /\ db.state = state
      /\ RedisRefuses' = RedisRefuses
  BY <1>1, <1>2, OperationStores, Types
<1>4. Counts' /\ DegradesInTime'
  BY <1>1, <1>2, <1>3, Types DEF Counts, DegradesInTime
<1>5. Restartable' /\ OpenIsEarned'
  BY <1>1, <1>2, <1>3, Types DEF IInv, Restartable, OpenIsEarned
<1> QED
  BY <1>3, <1>4, <1>5 DEF IInv

(* The cooldown's end, a reset and a pause.                                *)
LEMMA ForcedStep ==
  ASSUME IInv, CanPass \/ AdminReset \/ EmergencyPause
  PROVE  IInv'
<1>1. CASE CanPass \/ AdminReset
  <2>1. /\ Idle /\ streak' = 0 /\ cuts' = 0 /\ worse' = 0 /\ forced' = FALSE
        /\ UNCHANGED <<redis, held>>
        /\ \/ Transition("CLOSED", {}) /\ UNCHANGED <<fails, degraded>>
           \/ Transition("CLOSED", {"fails", "tell"}) /\ fails' = 0 /\ degraded' = 0
    BY <1>1 DEF CanPass, AdminReset
  <2>2. fails' \in 0..MaxFails /\ degraded' \in 0..MaxDegraded /\ 0 <= fails' + 0
    BY <2>1, Types
  <2>3. /\ Stores' /\ state' = "CLOSED" /\ UNCHANGED db /\ db.state = state
        /\ RedisRefuses' = RedisRefuses
    BY <2>1, <2>2, OperationStores
  <2>4. Counts' /\ DegradesInTime' /\ OpenIsEarned'
    <3>1. Counts'
      <4>1. streak' <= fails' + cuts' /\ streak' \in Nat /\ worse' \in Nat /\ cuts' \in Nat
        BY <2>1, <2>2, Types
      <4> QED
        BY <2>1, <2>2, <2>3, <4>1 DEF Counts
    <3> QED
      BY <2>1, <2>3, <3>1, Types DEF DegradesInTime, OpenIsEarned
  <2>5. Restartable'
    BY <2>1, <2>3, Types DEF IInv, Restartable
  <2> QED
    BY <2>3, <2>4, <2>5 DEF IInv
<1>2. CASE EmergencyPause
  <2>1. /\ Idle /\ forced' = TRUE /\ Transition("OPEN", {"tell"})
        /\ UNCHANGED <<redis, fails, degraded, streak, worse, held, cuts>>
    BY <1>2 DEF EmergencyPause
  <2>2. /\ Stores' /\ state' = "OPEN" /\ UNCHANGED db /\ db.state = state
        /\ RedisRefuses' = RedisRefuses
    BY <2>1, OperationStores, Types
  <2>3. Counts' /\ DegradesInTime' /\ OpenIsEarned'
    BY <2>1, <2>2, Types DEF IInv, Counts, DegradesInTime, OpenIsEarned
  <2>4. Restartable'
    BY <2>1, <2>2, Types DEF IInv, Restartable, DegradesInTime
  <2> QED
    BY <2>2, <2>3, <2>4 DEF IInv
<1> QED
  BY <1>1, <1>2

LEMMA TickStep ==
  ASSUME IInv, Tick
  PROVE  IInv'
<1>1. /\ db' = [db EXCEPT !.cooled = TRUE] /\ cooled' = TRUE
      /\ UNCHANGED <<redis, state, fails, degraded, todo, streak, worse, forced, held, cuts>>
  BY DEF Tick, history
<1>2. db'.state = db.state /\ db'.fails = db.fails /\ RedisRefuses' = RedisRefuses
      /\ db' \in [state : States, fails : {Quoted} \cup 0..MaxFails, cooled : BOOLEAN]
  BY <1>1 DEF IInv, Stores, RedisRefuses
<1>3. Stores'
  BY <1>1, <1>2 DEF IInv, Stores
<1> QED
  BY <1>1, <1>2, <1>3 DEF IInv, Counts, Restartable, DegradesInTime, OpenIsEarned

(* What was still to be stored is stored.                                  *)
LEMMA WriteStep ==
  ASSUME IInv, Write \/ Alert \/ Tell
  PROVE  IInv'
<1>1. CASE StoreFails
  <2>1. /\ "fails" \in todo /\ todo' = todo \ {"fails"} /\ db' = [db EXCEPT !.fails = Counted]
        /\ UNCHANGED <<redis, state, fails, degraded, cooled, streak, worse, forced, held, cuts>>
    BY <1>1 DEF StoreFails, Comes, memory, history
  <2>2. /\ fails \in 0..MaxFails
        /\ fails > 0 => Counted \in 0..MaxFails /\ Counted <= fails /\ (redis => Counted = fails)
        /\ fails = 0 => Counted = Quoted
    <3>1. fails \in 0..MaxFails /\ MaxFails \in Nat /\ db.fails \in {Quoted} \cup 0..MaxFails
      BY BreakerAssumption DEF IInv, Stores, Counts
    <3>2. fails > 0 => /\ ~(redis /\ db.fails = Quoted)
                       /\ db.fails # Quoted => db.fails <= fails - 1 /\ (redis => db.fails = fails - 1)
      BY <2>1 DEF IInv, Stores, RedisRefuses
    <3> QED
      BY <3>1, <3>2 DEF Counted, Quoted
  <2>3. db' \in [state : States, fails : {Quoted} \cup 0..MaxFails, cooled : BOOLEAN]
        /\ db'.state = db.state /\ db'.fails = Counted
    BY <2>1, <2>2, BreakerAssumption DEF IInv, Stores
  <2>4. RedisRefuses' => fails = 0
    BY <2>1, <2>2, <2>3, BreakerAssumption DEF RedisRefuses, Quoted
  <2>5. RedisRefuses => RedisRefuses' \/ fails > 0
    BY <2>1, <2>2, <2>3 DEF RedisRefuses
  <2>6. fails > 0 => ~RedisRefuses
    BY <2>1 DEF IInv, Stores
  <2>7. ~RedisRefuses' => ~RedisRefuses
    BY <2>2, <2>5, <2>6
  <2>8. Stores'
    BY <2>1, <2>2, <2>3 DEF IInv, Stores
  <2>9. Counts' /\ Restartable' /\ DegradesInTime' /\ OpenIsEarned'
    BY <2>1, <2>3, <2>7 DEF IInv, Counts, Restartable, DegradesInTime, OpenIsEarned
  <2> QED
    BY <2>8, <2>9 DEF IInv
<1>2. CASE StoreState
  <2>1. /\ "state" \in todo /\ "fails" \notin todo /\ todo' = todo \ {"state"}
        /\ db' = [db EXCEPT !.state = state] /\ held' = [worse |-> worse, forced |-> forced]
        /\ UNCHANGED <<redis, state, fails, degraded, cooled, streak, worse, forced, cuts>>
    BY <1>2 DEF StoreState, Comes, memory
  <2>2. /\ db' \in [state : States, fails : {Quoted} \cup 0..MaxFails, cooled : BOOLEAN]
        /\ db'.state = state /\ db'.fails = db.fails
    BY <2>1 DEF IInv, Stores
  <2>3. RedisRefuses' = RedisRefuses
    BY <2>1, <2>2 DEF RedisRefuses
  <2>4. Stores'
    BY <2>1, <2>2, <2>3 DEF IInv, Stores
  <2>5. Counts' /\ DegradesInTime' /\ OpenIsEarned'
    BY <2>1, <2>2, <2>3 DEF IInv, Counts, DegradesInTime, OpenIsEarned
  <2>6. held' \in [worse : Nat, forced : BOOLEAN] /\ held'.worse = worse /\ held'.forced = forced
    <3>1. worse \in Nat /\ forced \in BOOLEAN
      BY Types
    <3> QED
      BY <2>1, <3>1
  <2>7. Restartable'
    BY <2>1, <2>2, <2>6 DEF IInv, Restartable, OpenIsEarned
  <2> QED
    BY <2>4, <2>5, <2>7 DEF IInv
<1>3. CASE StoreStamp
  <2>1. /\ "fails" \notin todo /\ "state" \notin todo /\ todo' = todo \ {"stamp"}
        /\ db' = [db EXCEPT !.cooled = cooled]
        /\ UNCHANGED <<redis, state, fails, degraded, cooled, streak, worse, forced, held, cuts>>
    BY <1>3 DEF StoreStamp, Comes, memory, history
  <2>2. /\ db' \in [state : States, fails : {Quoted} \cup 0..MaxFails, cooled : BOOLEAN]
        /\ db'.state = db.state /\ db'.fails = db.fails
    BY <2>1 DEF IInv, Stores
  <2>3. RedisRefuses' = RedisRefuses
    BY <2>1, <2>2 DEF RedisRefuses
  <2> QED
    BY <2>1, <2>2, <2>3 DEF IInv, Stores, Counts, Restartable, DegradesInTime, OpenIsEarned
<1>4. CASE Alert \/ Tell
  <2>1. /\ "fails" \notin todo /\ "state" \notin todo /\ todo' \subseteq todo
        /\ UNCHANGED <<redis, state, fails, degraded, cooled, db, streak, worse, forced, held, cuts>>
    BY <1>4 DEF Alert, Tell, Comes, memory, history
  <2>2. RedisRefuses' = RedisRefuses
    BY <2>1 DEF RedisRefuses
  <2> QED
    BY <2>1, <2>2 DEF IInv, Stores, Counts, Restartable, DegradesInTime, OpenIsEarned
<1> QED
  BY <1>1, <1>2, <1>3, <1>4 DEF Write

(* A crash loses what was not stored yet; what it loses of a failure of a  *)
(* closed breaker is counted in cuts.                                      *)
LEMMA RestartStep ==
  ASSUME IInv, Restart
  PROVE  IInv'
<1>1. /\ redis /\ state' = db.state /\ fails' = CountStored /\ degraded' = 0
      /\ cooled' = db.cooled /\ todo' = {} /\ UNCHANGED <<redis, db, streak, held>>
      /\ cuts' = IF FailureCut THEN cuts + 1 ELSE cuts
      /\ state = db.state => UNCHANGED <<worse, forced>>
      /\ state # db.state => worse' = held.worse /\ forced' = held.forced
  BY DEF Restart
<1>2. /\ db \in [state : States, fails : {Quoted} \cup 0..MaxFails, cooled : BOOLEAN]
      /\ held.worse \in Nat /\ held.forced \in BOOLEAN /\ worse \in Nat /\ cuts \in Nat /\ streak \in Nat
      /\ fails \in 0..MaxFails /\ MaxFails \in Nat /\ Threshold \in Nat /\ MaxDegraded \in Nat \ {0}
  BY BreakerAssumption DEF IInv, Stores, Counts, Restartable
<1>3. /\ fails' \in 0..MaxFails /\ fails' \in Nat /\ fails \in Nat
      /\ (db.fails # Quoted => fails' = db.fails)
      /\ RedisRefuses' = RedisRefuses /\ cuts' \in Nat /\ cuts' >= cuts
      /\ worse' \in Nat /\ db'.state = state' /\ redis = redis' /\ db' = db
  BY <1>1, <1>2 DEF CountStored, RedisRefuses, Quoted
<1>4. Stores'
  BY <1>1, <1>2, <1>3 DEF IInv, Stores
<1>5. ASSUME state' = "CLOSED", ~RedisRefuses'
      PROVE  streak <= fails' + cuts' /\ streak < Threshold + cuts'
  <2>1. db.state = "CLOSED" /\ db.fails # Quoted /\ fails' = db.fails /\ ~RedisRefuses
    BY <1>1, <1>3, <1>5 DEF RedisRefuses
  <2>2. streak <= fails + cuts
    BY <2>1 DEF IInv, Counts
  <2>3. streak <= fails' + cuts'
    <3>1. CASE "fails" \in todo /\ fails > 0
      <4>1. cuts' = cuts + 1 /\ fails' = fails - 1
        BY <1>1, <2>1, <3>1 DEF FailureCut, IInv, Stores
      <4> QED
        BY <2>2, <4>1, Types
    <3>2. CASE "fails" \in todo /\ ~(fails > 0)
      <4>1. fails = 0 /\ fails' >= 0 /\ fails' \in Nat /\ cuts' \in Nat /\ cuts' >= cuts
        BY <1>3, <3>2, Types
      <4> QED
        BY <2>2, <4>1, Types
    <3>3. CASE "fails" \notin todo
      <4>1. fails' = fails
        BY <1>1, <2>1, <3>3 DEF IInv, Stores
      <4> QED
        BY <1>3, <2>2, <4>1, Types
    <3> QED
      BY <3>1, <3>2, <3>3
  <2>4. streak < Threshold + cuts'
    <3>1. CASE state = "CLOSED"
      <4>1. streak < Threshold + cuts
        BY <2>1, <3>1 DEF IInv, DegradesInTime
      <4> QED
        BY <1>3, <4>1, Types
    <3>2. CASE state = "OPEN"
      <4>1. streak < Threshold + cuts
        BY <2>1, <3>2 DEF IInv, Restartable
      <4> QED
        BY <1>3, <4>1, Types
    <3>3. CASE state = "HALF_OPEN"
      <4>1. "state" \in todo
        BY <2>1, <3>3 DEF IInv, Stores
      <4>2. cuts' = cuts + 1
        BY <1>1, <2>1, <3>3, <4>1 DEF FailureCut
      <4>3. streak <= Threshold + cuts
        BY <2>1, <3>3 DEF IInv, Restartable
      <4> QED
        BY <1>2, <4>2, <4>3
    <3> QED
      BY <3>1, <3>2, <3>3 DEF IInv, Stores
  <2> QED
    BY <2>3, <2>4
<1>6. Counts'
  <2>1. degraded' \in 0..MaxDegraded /\ degraded' < MaxDegraded /\ degraded' <= worse'
    BY <1>1, <1>2, <1>3
  <2>2. forced' \in BOOLEAN
    BY <1>1, Types
  <2>3. (state' = "CLOSED" \/ db'.state = "CLOSED") /\ ~RedisRefuses' => streak' <= fails' + cuts'
    BY <1>1, <1>3, <1>5
  <2> QED
    BY <1>1, <1>2, <1>3, <2>1, <2>2, <2>3 DEF Counts
<1>7. Restartable'
  BY <1>1, <1>3 DEF IInv, Restartable
<1>8. DegradesInTime'
  BY <1>1, <1>5 DEF DegradesInTime
<1>9. OpenIsEarned'
  BY <1>1 DEF IInv, Restartable, OpenIsEarned
<1> QED
  BY <1>4, <1>6, <1>7, <1>8, <1>9 DEF IInv

LEMMA NextIInv == IInv /\ [Next]_vars => IInv'
<1> SUFFICES ASSUME IInv, [Next]_vars PROVE IInv'
  OBVIOUS
<1>1. CASE UNCHANGED vars
  BY <1>1
  DEF vars, memory, history, IInv, Stores, Counts, Restartable, DegradesInTime, OpenIsEarned, RedisRefuses
<1>2. CASE Next
  BY <1>2, FailureStep, SuccessStep, ForcedStep, TickStep, WriteStep, RestartStep DEF Next, Operation
<1> QED
  BY <1>1, <1>2

LEMMA IInvImplies == IInv => TypeOK /\ DegradesInTime /\ OpenIsEarned
BY DEF IInv, Stores, Counts, TypeOK

(* The breaker's counters stay within the thresholds, whatever they are.   *)
THEOREM CountersCorrect == Spec => []TypeOK
<1>1. Spec => []IInv
  BY InitIInv, NextIInv, PTL DEF Spec
<1> QED
  BY <1>1, IInvImplies, PTL

(* Threshold failures in a row never leave the breaker closed, and every   *)
(* crash in the middle of recording one puts that off by at most another,  *)
(* unless the storage refuses to count them (record_failure).              *)
THEOREM DegradesSafe == Spec => []DegradesInTime
<1>1. Spec => []IInv
  BY InitIInv, NextIInv, PTL DEF Spec
<1> QED
  BY <1>1, IInvImplies, PTL

(* The breaker is OPEN only when an admin paused the gateway or after      *)
(* MaxDegraded failures in a row, across restarts too.                     *)
THEOREM OpenSafe == Spec => []OpenIsEarned
<1>1. Spec => []IInv
  BY InitIInv, NextIInv, PTL DEF Spec
<1> QED
  BY <1>1, IInvImplies, PTL
-----------------------------------------------------------------------------
(***************************************************************************)
(* The feed.  Polled says where the listener stands with the events: what  *)
(* it has counted as done it has shown, or is about to.  Streams says what *)
(* a stream has got of the entries up to the one it has seen.              *)
(***************************************************************************)
Entries == States \cup {"chain", "other"}
Polls == [pc : {"sleep", "off", "dispatch", "copy", "count", "save"}, to : Nat, left : SUBSET Nat]

FeedTypes ==
  /\ web3 \in BOOLEAN /\ head \in Nat /\ logs \subseteq 1..head
  /\ saved \in 0..head /\ cursor \in 0..head
  /\ poll \in Polls /\ poll.to <= head
  /\ sent \in Seq(Entries)
  /\ client \in [Clients -> [seen : Nat, got : Seq(Nat)]]

(* The two kinds of contract are polled by different steps, with nothing   *)
(* left over from one round to the next.                                   *)
Rounds ==
  /\ poll.pc \in {"sleep", "off", "copy", "save"} => poll.left = {}
  /\ web3 => poll.pc \notin {"copy", "count"}
  /\ ~web3 => poll.pc \notin {"save", "off"}
  /\ ~web3 => saved = 0
  /\ poll.pc = "save" => poll.to = cursor

Polled ==
  IF web3
    THEN /\ \A k \in logs : k <= cursor \/ k <= saved => k \in tried
         /\ poll.pc = "dispatch" => \A k \in logs : k <= poll.to => k \in tried \/ k \in poll.left
    ELSE /\ \A k \in logs : k > cursor \/ k \in poll.left \/ k \in shown
         /\ poll.pc = "count" => \A k \in logs : k <= poll.to => k \in shown \/ k \in poll.left

Streams ==
  \A c \in Clients :
    /\ \A i \in DOMAIN client[c].got : client[c].got[i] <= Dropped + client[c].seen
    /\ \A i, j \in DOMAIN client[c].got : i < j => client[c].got[i] < client[c].got[j]

FInv == IInv /\ FeedTypes /\ Rounds /\ Polled /\ Streams

(* How many entries the buffer holds and how many it has dropped.          *)
LEMMA LastEntries ==
  ASSUME NEW s \in Seq(Entries), NEW from,
         from = IF Len(s) > BufferMax THEN Len(s) - BufferMax + 1 ELSE 1
  PROVE  /\ Len(s) \in Nat /\ from \in 1..Len(s) + 1
         /\ Len(SubSeq(s, from, Len(s))) = Len(s) - from + 1
<1>1. Len(s) \in Nat /\ \A i \in 1..Len(s) : s[i] \in Entries
  OBVIOUS
<1>2. from \in 1..Len(s) + 1
  BY <1>1, FeedAssumption
<1>3. \A i \in from..Len(s) : s[i] \in Entries
  BY <1>1, <1>2
<1>4. Len(SubSeq(s, from, Len(s))) = IF from <= Len(s) THEN Len(s) - from + 1 ELSE 0
  BY <1>1, <1>2, <1>3, SubSeqProperties
<1> QED
  BY <1>1, <1>2, <1>4

LEMMA BufferLength ==
  ASSUME sent \in Seq(Entries)
  PROVE  /\ Len(sent) \in Nat /\ Len(Buffer) \in Nat /\ Dropped \in Nat
         /\ Dropped = IF Len(sent) > BufferMax THEN Len(sent) - BufferMax ELSE 0
         /\ Dropped + Len(Buffer) = Len(sent)
<1> DEFINE from == IF Len(sent) > BufferMax THEN Len(sent) - BufferMax + 1 ELSE 1
<1>1. Len(sent) \in Nat /\ from \in 1..Len(sent) + 1 /\ Len(Buffer) = Len(sent) - from + 1
  BY LastEntries DEF Buffer
<1>2. Len(Buffer) = IF Len(sent) > BufferMax THEN BufferMax ELSE Len(sent)
  <2>1. CASE Len(sent) > BufferMax
    <3>1. from = Len(sent) - BufferMax + 1 /\ BufferMax \in Nat
      BY <2>1, FeedAssumption
    <3> HIDE DEF from
    <3> QED
      BY <1>1, <2>1, <3>1
  <2>2. CASE ~(Len(sent) > BufferMax)
    <3>1. from = 1
      BY <2>2
    <3> HIDE DEF from
    <3> QED
      BY <1>1, <2>2, <3>1
  <2> QED
    BY <2>1, <2>2
<1> HIDE DEF from
<1>3. BufferMax \in Nat /\ Dropped = Len(sent) - Len(Buffer)
  BY FeedAssumption DEF Dropped
<1>4. Len(Buffer) \in Nat
  BY <1>1, <1>2, <1>3
<1>5. Dropped + Len(Buffer) = Len(sent)
  BY <1>1, <1>3, <1>4
<1>6. Dropped = IF Len(sent) > BufferMax THEN Len(sent) - BufferMax ELSE 0
  BY <1>1, <1>2, <1>3, <1>4
<1>7. Dropped \in Nat
  BY <1>1, <1>3, <1>6
<1> QED
  BY <1>1, <1>4, <1>5, <1>6, <1>7

LEMMA BufferLengthNext ==
  ASSUME sent' \in Seq(Entries)
  PROVE  /\ Len(sent') \in Nat /\ Dropped' \in Nat
         /\ Dropped' = IF Len(sent') > BufferMax THEN Len(sent') - BufferMax ELSE 0
<1> DEFINE from == IF Len(sent') > BufferMax THEN Len(sent') - BufferMax + 1 ELSE 1
<1>1. /\ Len(sent') \in Nat /\ from \in 1..Len(sent') + 1
      /\ Len(Buffer)' = Len(sent') - from + 1
  BY LastEntries DEF Buffer
<1> QED
  BY <1>1, FeedAssumption DEF Dropped

(* What is appended to the buffer leaves the streams in order.             *)
LEMMA Appending ==
  ASSUME FInv, NEW e \in Seq(Entries), Broadcast(e), UNCHANGED client
  PROVE  sent' \in Seq(Entries) /\ Streams'
<1>1. sent \in Seq(Entries) /\ client \in [Clients -> [seen : Nat, got : Seq(Nat)]]
  BY DEF FInv, FeedTypes
<1>2. sent' \in Seq(Entries) /\ Len(sent') = Len(sent) + Len(e) /\ Len(e) \in Nat
  BY <1>1 DEF Broadcast
<1>3. Dropped' >= Dropped /\ Dropped \in Nat /\ Dropped' \in Nat
  BY <1>1, <1>2, BufferLength, BufferLengthNext, FeedAssumption
<1>4. Streams'
  <2> SUFFICES ASSUME NEW c \in Clients
               PROVE  /\ \A i \in DOMAIN client[c].got : client[c].got[i] <= Dropped' + client[c].seen
                      /\ \A i, j \in DOMAIN client[c].got : i < j => client[c].got[i] < client[c].got[j]
    BY DEF Streams
  <2>1. client[c].seen \in Nat /\ \A i \in DOMAIN client[c].got : client[c].got[i] \in Nat
    BY <1>1
  <2>2. /\ \A i \in DOMAIN client[c].got : client[c].got[i] <= Dropped + client[c].seen
        /\ \A i, j \in DOMAIN client[c].got : i < j => client[c].got[i] < client[c].got[j]
    BY DEF FInv, Streams
  <2> QED
    BY <1>3, <2>1, <2>2
<1> QED
  BY <1>2, <1>4

(* The rest of the feed's types and of the listener's state stay.          *)
LEMMA FeedAppends ==
  ASSUME FInv, NEW e \in Seq(Entries), Broadcast(e), UNCHANGED <<client, contract, listener>>, IInv'
  PROVE  FInv'
<1>1. sent' \in Seq(Entries) /\ Streams'
  BY Appending
<1>2. FeedTypes'
  BY <1>1 DEF FInv, FeedTypes, contract, listener
<1>3. Rounds' /\ Polled'
  BY DEF FInv, Rounds, Polled, contract, listener
<1> QED
  BY <1>1, <1>2, <1>3 DEF FInv

LEMMA BreakerSame ==
  ASSUME IInv, UNCHANGED vars
  PROVE  IInv'
BY NextIInv

(* Transitions, and all that request threads report.                       *)
LEMMA ReportStep ==
  ASSUME FInv, BroadcastOther \/ BreakerStep
  PROVE  FInv'
<1>1. CASE BroadcastOther
  <2>1. Broadcast(<<"other">>) /\ UNCHANGED <<vars, client, contract, listener>>
    BY <1>1 DEF BroadcastOther
  <2>2. <<"other">> \in Seq(Entries)
    BY DEF Entries
  <2>3. IInv'
    BY <2>1, BreakerSame DEF FInv
  <2> QED
    BY <2>1, <2>2, <2>3, FeedAppends
<1>2. CASE BreakerStep
  <2>1. /\ Next /\ UNCHANGED <<client, contract, listener>>
        /\ \/ UNCHANGED sent \/ Broadcast(<<state>>) \/ Broadcast(<<"other">>)
    BY <1>2 DEF BreakerStep, Next
  <2>2. IInv'
    BY <2>1, NextIInv DEF FInv
  <2>3. <<state>> \in Seq(Entries) /\ <<"other">> \in Seq(Entries) /\ <<>> \in Seq(Entries)
    BY DEF FInv, IInv, Stores, Entries
  <2>4. sent \in Seq(Entries)
    BY DEF FInv, FeedTypes
  <2>5. UNCHANGED sent => Broadcast(<<>>)
    BY <2>4 DEF Broadcast
  <2> QED
    BY <2>1, <2>2, <2>3, <2>5, FeedAppends
<1> QED
  BY <1>1, <1>2

(* What follows a sequence in order, from where it ends, is in order.      *)
LEMMA Continued ==
  ASSUME NEW got \in Seq(Nat), NEW d \in Nat, NEW seen \in Nat, NEW n \in Nat, n > seen,
         \A i \in DOMAIN got : got[i] <= d + seen,
         \A i, j \in DOMAIN got : i < j => got[i] < got[j],
         NEW new, new = [i \in 1..n - seen |-> d + seen + i]
  PROVE  /\ got \o new \in Seq(Nat)
         /\ \A i \in DOMAIN (got \o new) : (got \o new)[i] <= d + n
         /\ \A i, j \in DOMAIN (got \o new) : i < j => (got \o new)[i] < (got \o new)[j]
<1>1. new \in Seq(Nat) /\ Len(new) = n - seen /\ n - seen \in Nat
  OBVIOUS
<1>2. \A i \in 1..Len(new) : new[i] = d + seen + i
  BY <1>1
<1> DEFINE all == got \o new
<1>3. /\ all \in Seq(Nat) /\ Len(all) = Len(got) + Len(new)
      /\ \A i \in 1..Len(all) : all[i] = IF i <= Len(got) THEN got[i] ELSE new[i - Len(got)]
  BY <1>1, ConcatProperties
<1>4. Len(got) \in Nat /\ DOMAIN all = 1..Len(all) /\ DOMAIN got = 1..Len(got)
  BY <1>3
<1> HIDE DEF all
<1>5. ASSUME NEW i \in 1..Len(all), i <= Len(got)
      PROVE  all[i] = got[i] /\ i \in DOMAIN got /\ got[i] \in Nat /\ all[i] <= d + seen
  <2>1. i \in 1..Len(got)
    BY <1>4, <1>5
  <2>2. all[i] = got[i]
    BY <1>3, <1>5
  <2>3. got[i] \in Nat /\ got[i] <= d + seen
    BY <2>1
  <2> QED
    BY <1>4, <2>1, <2>2, <2>3
<1>6. ASSUME NEW i \in 1..Len(all), i > Len(got)
      PROVE  all[i] = d + seen + (i - Len(got))
  <2>1. ~(i <= Len(got)) /\ i - Len(got) \in 1..Len(new)
    <3>1. Len(new) \in Nat /\ Len(all) = Len(got) + Len(new) /\ Len(got) \in Nat
      BY <1>1, <1>3, <1>4
    <3> HIDE <1>1, <1>2, <1>3
    <3> QED
      BY <1>6, <3>1
  <2>2. all[i] = new[i - Len(got)]
    BY <1>3, <2>1
  <2> QED
    BY <1>2, <2>1, <2>2
<1>7. ASSUME NEW i \in 1..Len(all) PROVE all[i] <= d + n
  <2>1. CASE i <= Len(got)
    <3>1. all[i] \in Nat /\ all[i] <= d + seen
      BY <1>5, <2>1
    <3> QED
      BY <3>1
  <2>2. CASE i > Len(got)
    BY <1>1, <1>3, <1>4, <1>6, <2>2
  <2> QED
    BY <1>4, <2>1, <2>2
<1>8. ASSUME NEW i \in 1..Len(all), NEW j \in 1..Len(all), i < j PROVE all[i] < all[j]
  <2>1. CASE j <= Len(got)
    <3>1. i <= Len(got)
      BY <1>4, <1>8, <2>1
    <3>2. i \in DOMAIN got /\ j \in DOMAIN got /\ all[i] = got[i] /\ all[j] = got[j]
      BY <1>5, <2>1, <3>1
    <3> QED
      BY <1>8, <3>2
  <2>2. CASE i <= Len(got) /\ j > Len(got)
    <3>1. all[i] \in Nat /\ all[i] <= d + seen
      BY <1>5, <2>2
    <3>2. all[j] = d + seen + (j - Len(got))
      BY <1>6, <2>2
    <3> QED
      BY <1>4, <2>2, <3>1, <3>2
  <2>3. CASE i > Len(got)
    <3>1. j > Len(got)
      BY <1>4, <1>8, <2>3
    <3>2. all[i] = d + seen + (i - Len(got)) /\ all[j] = d + seen + (j - Len(got))
      BY <1>6, <2>3, <3>1
    <3> QED
      BY <1>4, <1>8, <3>2
  <2> QED
    BY <1>4, <2>1, <2>2, <2>3
<1> QED
  BY <1>3, <1>4, <1>7, <1>8 DEF all

(* A stream gets the entries it has not seen, in their order.              *)
LEMMA StreamStep ==
  ASSUME FInv, NEW c \in Clients, Stream(c) \/ Connect(c)
  PROVE  FInv'
<1>1. /\ UNCHANGED <<vars, contract, listener, sent>>
      /\ sent \in Seq(Entries) /\ client \in [Clients -> [seen : Nat, got : Seq(Nat)]]
  BY DEF Stream, Connect, FInv, FeedTypes
<1>2. IInv' /\ Rounds' /\ Polled'
  <2>1. IInv'
    BY <1>1, BreakerSame DEF FInv
  <2> QED
    BY <1>1, <2>1 DEF FInv, Rounds, Polled, contract, listener
<1>3. Dropped' = Dropped
  BY <1>1 DEF Dropped, Buffer
<1>4. ASSUME NEW s \in [seen : Nat, got : Seq(Nat)], client' = [client EXCEPT ![c] = s],
             \A i \in DOMAIN s.got : s.got[i] <= Dropped + s.seen,
             \A i, j \in DOMAIN s.got : i < j => s.got[i] < s.got[j]
      PROVE  FInv'
  <2>1. client' \in [Clients -> [seen : Nat, got : Seq(Nat)]]
    BY <1>1, <1>4
  <2>2. FeedTypes'
    BY <1>1, <2>1 DEF FInv, FeedTypes, contract, listener
  <2>3. Streams'
    BY <1>1, <1>3, <1>4 DEF FInv, Streams
  <2> QED
    BY <1>2, <2>2, <2>3 DEF FInv
<1>5. CASE Connect(c)
  <2>1. client' = [client EXCEPT ![c] = NewStream]
    BY <1>5 DEF Connect
  <2>2. /\ NewStream \in [seen : Nat, got : Seq(Nat)] /\ DOMAIN NewStream.got = {}
    BY DEF NewStream
  <2> QED
    BY <1>4, <2>1, <2>2
<1>6. CASE Stream(c)
  <2> DEFINE q == client[c]
             new == [i \in 1..Len(Buffer) - q.seen |-> Dropped + q.seen + i]
             s == [seen |-> Len(Buffer), got |-> q.got \o new]
  <2>1. /\ q \in [seen : Nat, got : Seq(Nat)] /\ q.seen \in Nat /\ q.got \in Seq(Nat)
        /\ \A i \in DOMAIN q.got : q.got[i] <= Dropped + q.seen
        /\ \A i, j \in DOMAIN q.got : i < j => q.got[i] < q.got[j]
    BY <1>1 DEF FInv, Streams
  <2>2. client' = [client EXCEPT ![c] = s] /\ Len(Buffer) > q.seen
    BY <1>6 DEF Stream, SeenNow
  <2>3. Len(Buffer) \in Nat /\ Dropped \in Nat
    BY <1>1, BufferLength
  <2> HIDE DEF q
  <2>4. /\ q.got \o new \in Seq(Nat)
        /\ \A i \in DOMAIN (q.got \o new) : (q.got \o new)[i] <= Dropped + Len(Buffer)
        /\ \A i, j \in DOMAIN (q.got \o new) : i < j => (q.got \o new)[i] < (q.got \o new)[j]
    <3>1. q.got \in Seq(Nat) /\ q.seen \in Nat /\ Len(Buffer) > q.seen
      BY <2>1, <2>2
    <3>2. \A i \in DOMAIN q.got : q.got[i] <= Dropped + q.seen
      BY <2>1
    <3>3. \A i, j \in DOMAIN q.got : i < j => q.got[i] < q.got[j]
      BY <2>1
    <3> QED
      BY <2>3, <3>1, <3>2, <3>3, Continued
  <2> HIDE DEF new
  <2>5. s \in [seen : Nat, got : Seq(Nat)]
    BY <2>3, <2>4
  <2>6. s.seen = Len(Buffer) /\ s.got = q.got \o new
    OBVIOUS
  <2> HIDE DEF s
  <2> QED
    BY <1>4, <2>2, <2>4, <2>5, <2>6
<1> QED
  BY <1>5, <1>6

(* What leaves the feed and the breaker alone is decided by the listener's *)
(* state and the contract's.                                               *)
LEMMA Elsewhere ==
  ASSUME FInv, UNCHANGED <<vars, feed>>, FeedTypes', Rounds', Polled'
  PROVE  FInv'
<1>1. IInv'
  BY BreakerSame DEF FInv, feed
<1>2. Streams'
  BY DEF FInv, Streams, Dropped, Buffer, feed
<1> QED
  BY <1>1, <1>2 DEF FInv

(* An event that comes while the listener is at work is one too late for   *)
(* its round, and not counted.                                             *)
LEMMA ContractStep ==
  ASSUME FInv, Settle \/ EmptyBlock
  PROVE  FInv'
<1>1. /\ UNCHANGED <<vars, feed, listener, web3>> /\ head' = head + 1
      /\ logs' \subseteq logs \cup {head + 1}
  BY DEF Settle, EmptyBlock
<1>2. /\ FeedTypes /\ Rounds /\ Polled
      /\ UNCHANGED <<saved, cursor, poll, tried, shown, sent, client, web3>>
  BY <1>1 DEF FInv, listener, feed
<1>3. /\ head \in Nat /\ cursor < head + 1 /\ saved < head + 1 /\ poll.to < head + 1
      /\ cursor \in Nat /\ saved \in Nat /\ poll.to \in Nat
  BY <1>2 DEF FeedTypes, Polls
<1>4. FeedTypes'
  <2>1. logs' \subseteq 1..head'
    BY <1>1, <1>2, <1>3 DEF FeedTypes
  <2>2. saved' \in 0..head' /\ cursor' \in 0..head' /\ poll'.to <= head' /\ head' \in Nat
    BY <1>1, <1>2, <1>3 DEF FeedTypes
  <2> QED
    BY <1>2, <2>1, <2>2 DEF FeedTypes
<1>5. Rounds'
  BY <1>2 DEF Rounds
<1>6. ASSUME NEW k \in logs', k <= cursor \/ k <= saved \/ k <= poll.to PROVE k \in logs
  BY <1>1, <1>3, <1>6
<1>7. ASSUME NEW k \in logs', k \notin logs PROVE k > cursor
  BY <1>1, <1>3, <1>7
<1>8. ASSUME web3 PROVE Polled'
  <2>1. /\ \A k \in logs : k <= cursor \/ k <= saved => k \in tried
        /\ poll.pc = "dispatch" => \A k \in logs : k <= poll.to => k \in tried \/ k \in poll.left
    BY <1>2, <1>8 DEF Polled
  <2>2. /\ \A k \in logs' : k <= cursor \/ k <= saved => k \in tried
        /\ poll.pc = "dispatch" => \A k \in logs' : k <= poll.to => k \in tried \/ k \in poll.left
    BY <1>6, <2>1
  <2>3. \A k \in logs' : k <= cursor' \/ k <= saved' => k \in tried'
    BY <1>2, <2>2
  <2>4. poll'.pc = "dispatch" =>
          \A k \in logs' : k <= poll'.to => k \in tried' \/ k \in poll'.left
    BY <1>2, <2>2
  <2>5. web3'
    BY <1>2, <1>8
  <2> QED
    BY <2>3, <2>4, <2>5 DEF Polled
<1>9. ASSUME ~web3 PROVE Polled'
  <2>1. /\ \A k \in logs : k > cursor \/ k \in poll.left \/ k \in shown
        /\ poll.pc = "count" => \A k \in logs : k <= poll.to => k \in shown \/ k \in poll.left
    BY <1>2, <1>9 DEF Polled
  <2>2. /\ \A k \in logs' : k > cursor \/ k \in poll.left \/ k \in shown
        /\ poll.pc = "count" => \A k \in logs' : k <= poll.to => k \in shown \/ k \in poll.left
    BY <1>6, <1>7, <2>1
  <2>3. \A k \in logs' : k > cursor' \/ k \in poll'.left \/ k \in shown'
    BY <1>2, <2>2
  <2>4. poll'.pc = "count" => \A k \in logs' : k <= poll'.to => k \in shown' \/ k \in poll'.left
    BY <1>2, <2>2
  <2>5. ~web3'
    BY <1>2, <1>9
  <2> QED
    BY <2>3, <2>4, <2>5 DEF Polled
<1> QED
  BY <1>1, <1>4, <1>5, <1>8, <1>9, Elsewhere

(* A round begins: what is asked for is all there is after the cursor, up  *)
(* to the block that is about to be counted.                               *)
LEMMA AskStep ==
  ASSUME FInv, GetLogs \/ Measure \/ Copy
  PROVE  FInv'
<1>1. /\ UNCHANGED <<vars, feed, contract, saved, cursor, tried, shown>>
      /\ FeedTypes /\ Rounds /\ Polled
  BY DEF GetLogs, Measure, Copy, FInv
<1>2. /\ UNCHANGED <<web3, head, logs, saved, cursor, tried, shown, sent, client>>
      /\ head \in Nat /\ cursor \in Nat /\ saved \in Nat /\ cursor <= head /\ logs \subseteq Nat
      /\ logs \subseteq 1..head /\ poll.to \in Nat /\ poll.to <= head
  BY <1>1 DEF contract, feed, FeedTypes, Polls
<1>3. CASE GetLogs
  <2>1. /\ web3 /\ poll.pc = "sleep" /\ head > cursor
        /\ poll' = [pc |-> "dispatch", to |-> LastAsked, left |-> Between(cursor, cursor + 1 + MaxBlocks)]
    BY <1>3 DEF GetLogs
  <2>2. LastAsked \in Nat /\ LastAsked <= head /\ LastAsked <= cursor + 1 + MaxBlocks
    BY <1>2, <2>1, FeedAssumption DEF LastAsked
  <2>3. Between(cursor, cursor + 1 + MaxBlocks) \subseteq Nat
    BY <1>2 DEF Between
  <2>4. FeedTypes'
    BY <1>1, <1>2, <2>1, <2>2, <2>3 DEF FeedTypes, Polls
  <2>5. Rounds'
    BY <1>1, <1>2, <2>1 DEF Rounds
  <2>6. ASSUME NEW k \in logs, k <= LastAsked, ~(k <= cursor)
        PROVE  k \in Between(cursor, cursor + 1 + MaxBlocks)
    <3>1. k \in Nat /\ k > cursor /\ k <= cursor + 1 + MaxBlocks
      BY <1>2, <2>2, <2>6, FeedAssumption
    <3> QED
      BY <3>1 DEF Between
  <2>7. Polled'
    BY <1>1, <1>2, <2>1, <2>6 DEF Polled
  <2> QED
    BY <1>1, <2>4, <2>5, <2>7, Elsewhere
<1>4. CASE Measure
  <2>1. ~web3 /\ poll.pc = "sleep" /\ poll' = [pc |-> "copy", to |-> head, left |-> {}]
    BY <1>4 DEF Measure, Asleep
  <2>2. FeedTypes'
    BY <1>1, <1>2, <2>1 DEF FeedTypes, Polls
  <2>3. Rounds'
    BY <1>1, <1>2, <2>1 DEF Rounds
  <2>4. Polled'
    BY <1>1, <1>2, <2>1 DEF Polled, Rounds
  <2> QED
    BY <1>1, <2>2, <2>3, <2>4, Elsewhere
<1>5. CASE Copy
  <2>1. /\ poll.pc = "copy" /\ poll.left = {} /\ ~web3 /\ poll \in Polls
        /\ poll' = [poll EXCEPT !.pc = "count", !.left = Between(cursor, head)]
    BY <1>1, <1>5 DEF Copy, Rounds, FeedTypes
  <2>2. Between(cursor, head) \subseteq Nat
    BY <1>2 DEF Between
  <2>3. poll'.pc = "count" /\ poll'.to = poll.to /\ poll'.left = Between(cursor, head) /\ poll' \in Polls
    BY <2>1, <2>2 DEF Polls
  <2>4. FeedTypes'
    BY <1>1, <1>2, <2>3 DEF FeedTypes
  <2>5. Rounds'
    BY <1>1, <1>2, <2>1, <2>3 DEF Rounds
  <2>6. ASSUME NEW k \in logs PROVE k \in Between(cursor, head) \/ k \in shown
    <3>1. k > cursor \/ k \in shown
      BY <1>1, <2>1 DEF Polled
    <3>2. k \in Nat /\ k <= head
      BY <1>2
    <3> QED
      BY <1>2, <3>1, <3>2 DEF Between
  <2>7. Polled'
    BY <1>2, <2>1, <2>3, <2>6 DEF Polled
  <2> QED
    BY <1>1, <2>4, <2>5, <2>7, Elsewhere
<1> QED
  BY <1>3, <1>4, <1>5

(* The cursor moves: in memory past what was copied, over a chain past     *)
(* what was dispatched; what is saved is the cursor of the round.          *)
LEMMA CountStep ==
  ASSUME FInv, Count \/ Advance \/ Save
  PROVE  FInv'
<1>1. /\ UNCHANGED <<vars, feed, contract, tried, shown>>
      /\ FeedTypes /\ Rounds /\ Polled
  BY DEF Count, Advance, Save, FInv
<1>2. /\ UNCHANGED <<web3, head, logs, tried, shown, sent, client>>
      /\ head \in Nat /\ poll \in Polls /\ poll.to \in Nat /\ poll.to <= head
      /\ saved \in 0..head /\ cursor \in 0..head /\ logs \subseteq 1..head
  BY <1>1 DEF contract, feed, FeedTypes, Polls
<1>3. CASE Count
  <2>1. /\ poll.pc = "count" /\ poll' = [poll EXCEPT !.pc = "dispatch"]
        /\ cursor' = poll.to /\ UNCHANGED saved /\ ~web3
    BY <1>1, <1>3 DEF Count, Measured, Rounds
  <2>2. poll'.pc = "dispatch" /\ poll'.to = poll.to /\ poll'.left = poll.left /\ poll' \in Polls
    BY <1>2, <2>1 DEF Polls
  <2>3. FeedTypes'
    BY <1>1, <1>2, <2>1, <2>2 DEF FeedTypes
  <2>4. Rounds'
    BY <1>1, <1>2, <2>1, <2>2 DEF Rounds
  <2>5. ASSUME NEW k \in logs PROVE k > poll.to \/ k \in poll.left \/ k \in shown
    <3>1. k <= poll.to => k \in shown \/ k \in poll.left
      BY <1>1, <2>1 DEF Polled
    <3> QED
      BY <1>2, <3>1
  <2>6. Polled'
    BY <1>2, <2>1, <2>2, <2>5 DEF Polled
  <2> QED
    BY <1>1, <2>3, <2>4, <2>6, Elsewhere
<1>4. CASE Advance /\ web3
  <2>1. /\ poll.pc = "dispatch" /\ poll.left = {} /\ poll' = [poll EXCEPT !.pc = "save"]
        /\ cursor' = poll.to /\ UNCHANGED saved
    BY <1>4 DEF Advance, AllDispatched
  <2>2. poll'.pc = "save" /\ poll'.to = poll.to /\ poll'.left = {} /\ poll' \in Polls
    BY <1>2, <2>1 DEF Polls
  <2>3. FeedTypes'
    BY <1>1, <1>2, <2>1, <2>2 DEF FeedTypes
  <2>4. Rounds'
    BY <1>2, <1>4, <2>1, <2>2 DEF Rounds
  <2>5. \A k \in logs : k <= poll.to \/ k <= saved => k \in tried
    BY <1>1, <1>4, <2>1 DEF Polled
  <2>6. Polled'
    BY <1>2, <1>4, <2>1, <2>2, <2>5 DEF Polled
  <2> QED
    BY <1>1, <2>3, <2>4, <2>6, Elsewhere
<1>5. CASE Advance /\ ~web3
  <2>1. poll.pc = "dispatch" /\ poll.left = {} /\ poll' = Asleep /\ UNCHANGED <<cursor, saved>>
    BY <1>5 DEF Advance, AllDispatched
  <2>2. poll'.pc = "sleep" /\ poll'.to = 0 /\ poll'.left = {} /\ poll' \in Polls
    BY <2>1 DEF Asleep, Polls
  <2>3. FeedTypes'
    BY <1>1, <1>2, <2>1, <2>2 DEF FeedTypes
  <2>4. Rounds'
    BY <1>1, <1>2, <1>5, <2>1, <2>2 DEF Rounds
  <2>5. Polled'
    BY <1>1, <1>2, <1>5, <2>1, <2>2 DEF Polled
  <2> QED
    BY <1>1, <2>3, <2>4, <2>5, Elsewhere
<1>6. CASE Save
  <2>1. /\ poll.pc = "save" /\ poll' = Asleep /\ UNCHANGED cursor
        /\ saved' = cursor \/ saved' = saved
    BY <1>1, <1>6 DEF Save, Rounds
  <2>2. poll'.pc = "sleep" /\ poll'.to = 0 /\ poll'.left = {} /\ poll' \in Polls
    BY <2>1 DEF Asleep, Polls
  <2>3. web3
    BY <1>1, <2>1 DEF Rounds, FeedTypes
  <2>4. FeedTypes'
    BY <1>1, <1>2, <2>1, <2>2 DEF FeedTypes
  <2>5. Rounds'
    BY <1>2, <2>2, <2>3 DEF Rounds
  <2>6. \A k \in logs : k <= cursor \/ k <= saved' => k \in tried
    BY <1>1, <2>1, <2>3 DEF Polled
  <2>7. Polled'
    BY <1>2, <2>1, <2>2, <2>3, <2>6 DEF Polled
  <2> QED
    BY <1>1, <2>4, <2>5, <2>7, Elsewhere
<1> QED
  BY <1>3, <1>4, <1>5, <1>6

(* What leaves the copy was given to the decoder, in memory it is shown.   *)
LEMMA DispatchStep ==
  ASSUME FInv, Dispatch
  PROVE  FInv'
<1>1. /\ UNCHANGED <<vars, contract, saved, cursor, client>> /\ poll.pc = "dispatch"
      /\ FeedTypes /\ Rounds /\ Polled
  BY DEF Dispatch, FInv
<1>2. /\ UNCHANGED <<web3, head, logs, saved, cursor, client>>
      /\ poll \in Polls
  BY <1>1 DEF contract, FeedTypes
<1>3. PICK k \in poll.left : /\ poll' = [poll EXCEPT !.left = @ \ {k}]
                             /\ tried' = tried \cup {k}
                             /\ IF Decodes THEN Broadcast(<<"chain">>) /\ shown' = shown \cup {k}
                                           ELSE UNCHANGED <<sent, shown>>
  BY DEF Dispatch
<1>4. poll'.pc = "dispatch" /\ poll'.to = poll.to /\ poll'.left = poll.left \ {k} /\ poll' \in Polls
  BY <1>1, <1>2, <1>3 DEF Polls
<1>5. sent' \in Seq(Entries) /\ Streams'
  <2>1. CASE Decodes
    <3>1. Broadcast(<<"chain">>)
      BY <1>3, <2>1
    <3>2. <<"chain">> \in Seq(Entries)
      BY DEF Entries
    <3> QED
      BY <1>2, <3>1, <3>2, Appending
  <2>2. CASE ~Decodes
    <3>1. UNCHANGED sent
      BY <1>3, <2>2
    <3> QED
      BY <1>1, <1>2, <3>1 DEF FeedTypes, FInv, Streams, Dropped, Buffer
  <2> QED
    BY <2>1, <2>2
<1>6. FeedTypes'
  BY <1>1, <1>2, <1>4, <1>5 DEF FeedTypes
<1>7. Rounds'
  BY <1>1, <1>2, <1>4 DEF Rounds
<1>8. \A j : j \in tried \/ j \in poll.left => j \in tried' \/ j \in poll'.left
  BY <1>3, <1>4
<1>9. ~web3 => \A j : j \in shown \/ j \in poll.left => j \in shown' \/ j \in poll'.left
  BY <1>3, <1>4 DEF Decodes
<1>10. Polled'
  <2>1. CASE web3
    <3>1. tried \subseteq tried'
      BY <1>3
    <3> QED
      BY <1>1, <1>2, <1>4, <1>8, <2>1, <3>1 DEF Polled
  <2>2. CASE ~web3
    BY <1>1, <1>2, <1>4, <1>9, <2>2 DEF Polled
  <2> QED
    BY <2>1, <2>2
<1>11. IInv'
  BY <1>1, BreakerSame DEF FInv
<1> QED
  BY <1>5, <1>6, <1>7, <1>10, <1>11 DEF FInv

(* After a restart nothing is under way: over a chain the listener goes on *)
(* from the cursor it had saved, in memory the contract is as new as it is.*)
LEMMA StartedAfresh ==
  ASSUME sent \in Seq(Entries), client = [c \in Clients |-> NewStream]
  PROVE  Streams /\ client \in [Clients -> [seen : Nat, got : Seq(Nat)]]
BY DEF Streams, NewStream

LEMMA StartedAfreshNext ==
  ASSUME sent' \in Seq(Entries), client' = [c \in Clients |-> NewStream]
  PROVE  Streams' /\ client' \in [Clients -> [seen : Nat, got : Seq(Nat)]]
BY DEF Streams, NewStream

LEMMA InitFInv == FeedInit => FInv
<1> SUFFICES ASSUME FeedInit PROVE FInv
  OBVIOUS
<1>1. IInv
  BY InitIInv DEF FeedInit
<1>2. /\ web3 \in BOOLEAN /\ head = 0 /\ logs = {} /\ saved = 0 /\ cursor = 0 /\ sent = <<>>
      /\ client = [c \in Clients |-> NewStream]
      /\ poll.left = {} /\ poll.to = 0 /\ poll \in Polls
      /\ poll.pc = "sleep" \/ (web3 /\ poll.pc = "off")
  <2>1. web3 => poll = Asleep \/ poll = Off
    BY DEF FeedInit
  <2>2. ~web3 => poll = Asleep
    BY DEF FeedInit
  <2>3. /\ poll.left = {} /\ poll.to = 0 /\ poll \in Polls
        /\ poll.pc = "sleep" \/ (web3 /\ poll.pc = "off")
    <3>1. CASE web3
      <4>1. poll.left = {} /\ poll.to = 0 /\ poll \in Polls /\ poll.pc \in {"sleep", "off"}
        BY <2>1, <3>1 DEF Asleep, Off, Polls
      <4> QED
        BY <3>1, <4>1
    <3>2. CASE ~web3
      BY <2>2, <3>2 DEF Asleep, Polls
    <3> QED
      BY <3>1, <3>2
  <2> QED
    BY <2>3 DEF FeedInit
<1>3. sent \in Seq(Entries)
  BY <1>2
<1>4. FeedTypes
  BY <1>2, <1>3, StartedAfresh DEF FeedTypes
<1>5. Rounds /\ Polled
  BY <1>2 DEF Rounds, Polled
<1> QED
  BY <1>1, <1>2, <1>3, <1>4, <1>5, StartedAfresh DEF FInv

LEMMA BreakerRestartStep ==
  ASSUME IInv, BreakerRestarts
  PROVE  IInv' /\ UNCHANGED redis
<1>1. CASE redis
  BY <1>1, RestartStep DEF BreakerRestarts, Restart, history
<1>2. CASE ~redis
  <2>1. redis' \in BOOLEAN /\ UNCHANGED redis
    BY <1>2 DEF BreakerRestarts, IInv, Stores
  <2>2. Fresh'
    BY <1>2 DEF BreakerRestarts, Fresh
  <2>3. (redis \in BOOLEAN /\ Fresh => IInv)'
    BY FreshIInv, PTL
  <2> QED
    BY <2>1, <2>2, <2>3
<1> QED
  BY <1>1, <1>2

LEMMA GatewayStep ==
  ASSUME FInv, GatewayRestarts
  PROVE  FInv'
<1>1. IInv'
  BY BreakerRestartStep DEF GatewayRestarts, FInv
<1>2. /\ FeedTypes /\ Polled /\ UNCHANGED <<web3>>
      /\ sent' = <<>> /\ client' = [c \in Clients |-> NewStream]
      /\ saved' = (IF redis THEN saved ELSE 0) /\ cursor' = IF web3 THEN saved' ELSE 0
  BY DEF GatewayRestarts, FInv
<1>3. sent' \in Seq(Entries)
  BY <1>2
<1>4. /\ poll'.left = {} /\ poll'.to = 0 /\ poll' \in Polls
      /\ poll'.pc = "sleep" \/ (web3 /\ poll'.pc = "off")
  <2>1. IF web3 THEN poll' \in {Asleep, Off} ELSE poll' = Asleep
    BY DEF GatewayRestarts
  <2>2. web3 => poll' = Asleep \/ poll' = Off
    BY <2>1
  <2>3. ~web3 => poll' = Asleep
    BY <2>1
  <2>4. CASE web3
    <3>1. poll'.left = {} /\ poll'.to = 0 /\ poll' \in Polls /\ poll'.pc \in {"sleep", "off"}
      BY <2>2, <2>4 DEF Asleep, Off, Polls
    <3> QED
      BY <2>4, <3>1
  <2>5. CASE ~web3
    BY <2>3, <2>5 DEF Asleep, Polls
  <2> QED
    BY <2>4, <2>5
<1>5. CASE web3
  <2>1. UNCHANGED <<head, logs, tried, shown>>
    BY <1>5 DEF GatewayRestarts
  <2>2. saved' \in 0..head /\ cursor' = saved' /\ saved' \in {0, saved} /\ saved \in Nat /\ head \in Nat
    BY <1>2, <1>5 DEF FeedTypes
  <2>3. FeedTypes'
    BY <1>2, <1>3, <1>4, <2>1, <2>2, StartedAfreshNext DEF FeedTypes
  <2>4. Rounds'
    BY <1>2, <1>4, <1>5 DEF Rounds
  <2>5. \A k \in logs : k >= 1 /\ k \in Nat
    BY <1>2, <2>2 DEF FeedTypes
  <2>6. \A k \in logs : k <= saved' => k \in tried
    BY <1>2, <1>5, <2>2, <2>5 DEF Polled
  <2>7. Polled'
    BY <1>2, <1>4, <1>5, <2>1, <2>2, <2>6 DEF Polled
  <2> QED
    BY <1>1, <1>2, <1>3, <2>3, <2>4, <2>7, StartedAfreshNext DEF FInv
<1>6. CASE ~web3
  <2>1. head' = 0 /\ logs' = {} /\ shown' = {} /\ cursor' = 0 /\ poll'.pc = "sleep"
    BY <1>2, <1>4, <1>6 DEF GatewayRestarts
  <2>2. saved' = 0
    BY <1>2, <1>6 DEF FInv, Rounds
  <2>3. FeedTypes'
    BY <1>2, <1>3, <1>4, <2>1, <2>2, StartedAfreshNext DEF FeedTypes
  <2>4. Rounds' /\ Polled'
    BY <1>2, <1>4, <1>6, <2>1, <2>2 DEF Rounds, Polled
  <2> QED
    BY <1>1, <1>2, <1>3, <2>3, <2>4, StartedAfreshNext DEF FInv
<1> QED
  BY <1>2, <1>5, <1>6 DEF FeedTypes

LEMMA NextFInv == FInv /\ [FeedNext]_feedVars => FInv'
<1> SUFFICES ASSUME FInv, [FeedNext]_feedVars PROVE FInv'
  OBVIOUS
<1>1. CASE FeedNext
  BY <1>1, ReportStep, ContractStep, AskStep, CountStep, DispatchStep, StreamStep, GatewayStep
  DEF FeedNext, Listen
<1>2. CASE UNCHANGED feedVars
  <2>1. UNCHANGED <<vars, feed, contract, listener>>
    BY <1>2 DEF feedVars
  <2>2. FeedTypes' /\ Rounds' /\ Polled'
    BY <2>1 DEF FInv, FeedTypes, Rounds, Polled, contract, listener, feed
  <2> QED
    BY <2>1, <2>2, Elsewhere
<1> QED
  BY <1>1, <1>2

LEMMA FInvImplies == FInv => NoEventSkipped /\ StreamInOrder /\ TypeOK /\ DegradesInTime /\ OpenIsEarned
<1> SUFFICES ASSUME FInv PROVE NoEventSkipped /\ StreamInOrder /\ TypeOK /\ DegradesInTime /\ OpenIsEarned
  OBVIOUS
<1>1. NoEventSkipped
  BY DEF FInv, Polled, NoEventSkipped
<1>2. StreamInOrder
  BY DEF FInv, Streams, StreamInOrder
<1> QED
  BY <1>1, <1>2, IInvImplies DEF FInv

(* Whatever the order in which the contract grows, the listener polls and  *)
(* the gateway restarts, the cursor passes no log that was not given to the*)
(* decoder, and in memory no event that was not broadcast or is about to   *)
(* be: _poll_web3, _poll_inmemory.                                         *)
THEOREM EventsKept == FeedSpec => []NoEventSkipped
<1>1. FeedSpec => []FInv
  BY InitFInv, NextFInv, PTL DEF FeedSpec
<1> QED
  BY <1>1, FInvImplies, PTL

(* However many entries the buffer drops between two polls of a stream, it *)
(* repeats nothing and keeps the order: event_generator.                   *)
THEOREM StreamsOrdered == FeedSpec => []StreamInOrder
<1>1. FeedSpec => []FInv
  BY InitFInv, NextFInv, PTL DEF FeedSpec
<1> QED
  BY <1>1, FInvImplies, PTL

(* The breaker in the feed, which restarts with the gateway, keeps all that*)
(* is proved of the breaker alone, though without Redis its memory and its *)
(* store are lost at every restart.                                        *)
THEOREM BreakerInFeed == FeedSpec => [](TypeOK /\ DegradesInTime /\ OpenIsEarned)
<1>1. FeedSpec => []FInv
  BY InitFInv, NextFInv, PTL DEF FeedSpec
<1> QED
  BY <1>1, FInvImplies, PTL
=============================================================================
