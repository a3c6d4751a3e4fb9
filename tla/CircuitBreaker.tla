--------------------------- MODULE CircuitBreaker ---------------------------
(***************************************************************************)
(* src/gateway/circuit_breaker.py, as the gateway uses it: the submit      *)
(* handler records failures and successes of the judge, /api/run and       *)
(* publish ask can_pass, two admin endpoints force it open and reset it.   *)
(* All of them run on the event loop without an await, so that nothing     *)
(* comes between the steps of one but a crash.  An operation is an action  *)
(* that changes the memory, and what it has still to do is in todo: the    *)
(* failure count, the state and its time stamp go to the storage in three  *)
(* commands, each a step; then the callback and the admin's endpoint tell  *)
(* the feed.                                                               *)
(*                                                                         *)
(* Redis holds what the storage wrote: set() writes JSON, so the "0" of a  *)
(* success is a quoted text there, which INCR refuses.  The in-memory      *)
(* storage takes anything that is not a number for 0, and a restart loses  *)
(* it.                                                                     *)
(***************************************************************************)
EXTENDS Integers

CONSTANTS
  Threshold,      (* _consecutive_threshold                                 *)
  MaxDegraded,    (* _max_degraded_threshold                                *)
  MaxFails        (* bound on failures counted                              *)

ASSUME BreakerAssumption ==
  /\ Threshold \in Nat \ {0} /\ MaxDegraded \in Nat \ {0} /\ MaxFails \in Nat

VARIABLES
  redis,          (* the storage is persistent                              *)
  state,          (* _state                                                 *)
  fails,          (* _consecutive_fails                                     *)
  degraded,       (* _degraded_fails                                        *)
  cooled,         (* _last_state_change is open_cooldown or longer ago      *)
  db,             (* circuit_breaker:* in Redis; the text "0" is Quoted     *)
  todo,           (* what the operation under way has still to do           *)
  streak,         (* failures in a row since the breaker last closed        *)
  worse,          (* failures in a row since it last became degraded        *)
  forced,         (* it was opened by an admin                              *)
  held,           (* the last two when the state was last stored            *)
  cuts            (* of the streak, failures whose recording was cut off    *)

Quoted == -1

memory == <<state, fails, degraded, cooled>>
history == <<streak, worse, forced, held, cuts>>
vars == <<redis, memory, db, todo, history>>

Init ==
  /\ redis \in BOOLEAN
  /\ state = "CLOSED" /\ fails = 0 /\ degraded = 0 /\ cooled = TRUE
  /\ db = [state |-> "CLOSED", fails |-> 0, cooled |-> TRUE]
  /\ todo = {}
  /\ streak = 0 /\ worse = 0 /\ forced = FALSE
  /\ held = [worse |-> 0, forced |-> FALSE] /\ cuts = 0

-----------------------------------------------------------------------------
(* The operations.                                                         *)

Idle == todo = {}

(* _transition, with what else the operation does.                         *)
Transition(new, also) ==
  /\ state' = new
  /\ cooled' = IF new = state THEN cooled ELSE FALSE
  /\ todo' = also \cup IF new = state THEN {} ELSE {"state", "stamp", "alert"}
  /\ UNCHANGED db

RedisRefuses == redis /\ db.fails = Quoted

(* Mutant: one failure more than the threshold.                            *)
TripsLate == fails + 1 > Threshold
Trips == fails + 1 >= Threshold

(* Mutant: failures before the degradation count.                          *)
IsolatesEarly == fails + 1 >= MaxDegraded
Isolates == degraded + 1 >= MaxDegraded

DegradedOnEntry == 0

(* record_failure: incr raises before the state machine is looked at.      *)
RecordFailure ==
  /\ Idle
  /\ fails < MaxFails /\ streak < MaxFails /\ worse < MaxFails
  /\ fails' = fails + 1
  /\ IF RedisRefuses
       THEN UNCHANGED <<state, degraded, cooled, db, todo>>
     ELSE IF state = "CLOSED" /\ Trips
       THEN degraded' = DegradedOnEntry /\ Transition("HALF_OPEN", {"fails"})
     ELSE IF state = "HALF_OPEN"
       THEN /\ degraded' = degraded + 1
            /\ Transition(IF Isolates THEN "OPEN" ELSE state, {"fails"})
     ELSE UNCHANGED degraded /\ Transition(state, {"fails"})
  /\ streak' = IF state = "CLOSED" THEN streak + 1 ELSE streak
  /\ worse' = IF state = "HALF_OPEN" THEN worse + 1 ELSE worse
  /\ UNCHANGED <<redis, forced, held, cuts>>

RecordSuccess ==
  /\ Idle
  /\ fails' = 0 /\ degraded' = 0
  /\ Transition(IF state = "HALF_OPEN" THEN "CLOSED" ELSE state, {"fails"})
  /\ streak' = 0 /\ cuts' = 0
  /\ worse' = IF state = "OPEN" THEN worse ELSE 0
  /\ UNCHANGED <<redis, forced, held>>

(* can_pass: an OPEN breaker closes by itself once the cooldown is over,   *)
(* also after an admin's pause.  It answers no while it is not.            *)
CanPass ==
  /\ Idle
  /\ state = "OPEN"
  /\ cooled
  /\ Transition("CLOSED", {})
  /\ streak' = 0 /\ cuts' = 0 /\ worse' = 0 /\ forced' = FALSE
  /\ UNCHANGED <<redis, fails, degraded, held>>

AdminReset ==
  /\ Idle
  /\ fails' = 0 /\ degraded' = 0
  /\ Transition("CLOSED", {"fails", "tell"})
  /\ streak' = 0 /\ cuts' = 0 /\ worse' = 0 /\ forced' = FALSE
  /\ UNCHANGED <<redis, held>>

EmergencyPause ==
  /\ Idle
  /\ Transition("OPEN", {"tell"})
  /\ forced' = TRUE
  /\ UNCHANGED <<redis, fails, degraded, streak, worse, held, cuts>>

(* The cooldown since the last state change is over.                       *)
Tick ==
  /\ Idle
  /\ ~cooled
  /\ cooled' = TRUE
  /\ db' = [db EXCEPT !.cooled = TRUE]
  /\ UNCHANGED <<redis, state, fails, degraded, todo, history>>

-----------------------------------------------------------------------------
(* What is left of an operation, one thing after the other.                *)
Comes(thing, before) == thing \in todo /\ before \cap todo = {} /\ todo' = todo \ {thing}

(* INCR after a failure, SET of "0" after a success.                       *)
Counted ==
  IF fails = 0 THEN Quoted ELSE IF db.fails = Quoted THEN 1 ELSE db.fails + 1

StoreFails ==
  /\ Comes("fails", {})
  /\ db' = [db EXCEPT !.fails = Counted]
  /\ UNCHANGED <<redis, memory, history>>

StoreState ==
  /\ Comes("state", {"fails"})
  /\ db' = [db EXCEPT !.state = state]
  /\ held' = [worse |-> worse, forced |-> forced]
  /\ UNCHANGED <<redis, memory, streak, worse, forced, cuts>>

StoreStamp ==
  /\ Comes("stamp", {"fails", "state"})
  /\ db' = [db EXCEPT !.cooled = cooled]
  /\ UNCHANGED <<redis, memory, history>>

(* on_state_change, and the entry of an admin's endpoint.                  *)
Alert == Comes("alert", {"fails", "state", "stamp"}) /\ UNCHANGED <<redis, memory, db, history>>
Tell == Comes("tell", {"fails", "state", "stamp", "alert"}) /\ UNCHANGED <<redis, memory, db, history>>

-----------------------------------------------------------------------------
(* A crash and the restart after it.                                       *)

(* A failure of a closed breaker that is not stored, or not its effect.    *)
FailureCut ==
  /\ db.state = "CLOSED"
  /\ ("fails" \in todo /\ fails > 0) \/ ("state" \in todo /\ state = "HALF_OPEN")

CountStored == IF db.fails = Quoted THEN 0 ELSE db.fails

(* A change of state that a crash cut off has not happened.                *)
Restart ==
  /\ redis
  /\ state' = db.state
  /\ fails' = CountStored
  /\ degraded' = 0
  /\ cooled' = db.cooled
  /\ todo' = {}
  /\ cuts' = IF FailureCut THEN cuts + 1 ELSE cuts
  /\ IF state = db.state THEN UNCHANGED <<worse, forced>>
     ELSE worse' = held.worse /\ forced' = held.forced
  /\ UNCHANGED <<redis, db, streak, held>>

Operation ==
  \/ RecordFailure \/ RecordSuccess \/ CanPass
  \/ AdminReset \/ EmergencyPause
Write == StoreFails \/ StoreState \/ StoreStamp

Next == Operation \/ Tick \/ Write \/ Alert \/ Tell \/ Restart

Spec == Init /\ [][Next]_vars

-----------------------------------------------------------------------------
(* PROPERTIES                                                              *)

(* The counters stay in step with the state: a degraded breaker has not    *)
(* used up its allowance, a closed one is not past it.                     *)
TypeOK ==
  /\ state \in {"CLOSED", "HALF_OPEN", "OPEN"}
  /\ fails \in 0..MaxFails
  /\ degraded \in 0..MaxDegraded
  /\ cooled \in BOOLEAN
  /\ db \in [state : {"CLOSED", "HALF_OPEN", "OPEN"}, fails : {Quoted} \cup 0..MaxFails,
             cooled : BOOLEAN]
  /\ todo \subseteq {"fails", "state", "stamp", "alert", "tell"}
  /\ state = "HALF_OPEN" => degraded < MaxDegraded

(* Threshold failures in a row degrade the breaker, whatever successes,    *)
(* pauses, resets and restarts came before, and a crash in the middle of   *)
(* recording one of them, between any two commands, puts it off by no more *)
(* than one failure; unless the storage refuses to count, as Redis does    *)
(* after the first success.                                                *)
DegradesInTime == state = "CLOSED" /\ ~RedisRefuses => streak < Threshold + cuts

(* The gateway is never isolated without cause: it is OPEN because an      *)
(* admin said so or after MaxDegraded failures in a row while degraded.    *)
OpenIsEarned == state = "OPEN" => forced \/ worse >= MaxDegraded
=============================================================================
