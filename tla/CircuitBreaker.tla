-------------------------- MODULE CircuitBreaker --------------------------
(***************************************************************************)
(* The three-state circuit breaker of internal/openrouter/circuitbreaker.go*)
(* on its own: any caller may call Allow, RecordSuccess and RecordFailure  *)
(* in any order, each under the breaker's mutex and therefore one step.    *)
(*                                                                         *)
(* The code keeps two instants, windowStart and openedAt, and only ever    *)
(* compares the time elapsed since them with a fixed duration.  The module *)
(* keeps those two elapsed times, each saturating at the duration it is    *)
(* compared with: no comparison of the code can tell the difference, and   *)
(* the state space is finite without a bound on the clock.                 *)
(***************************************************************************)
EXTENDS Integers

CONSTANTS
  FailureThreshold,  \* CircuitBreakerConfig.FailureThreshold
  WindowDuration,    \* CircuitBreakerConfig.WindowDuration, in clock ticks
  ResetTimeout       \* CircuitBreakerConfig.ResetTimeout, in clock ticks

\* config.Load replaces every non-positive value by a positive default.
ASSUME BreakerAssumption ==
  /\ FailureThreshold \in Nat \ {0}
  /\ WindowDuration \in Nat \ {0}
  /\ ResetTimeout \in Nat \ {0}

VARIABLES
  state,      \* "closed", "open" or "halfOpen"
  failures,   \* failures counted in the current window
  windowAge,  \* time elapsed since windowStart, at most WindowDuration
  openAge     \* time elapsed since openedAt, at most ResetTimeout

breakerVars == <<state, failures, windowAge, openAge>>

\* openedAt is the zero time of a new breaker: an age past every timeout.
BreakerInit ==
  /\ state = "closed"
  /\ failures = 0
  /\ windowAge = 0
  /\ openAge = ResetTimeout

---------------------------------------------------------------------------
(* Allow() = ok.                                                           *)

Allow_AdmitsWhileHalfOpen(ok) ==
  \/ state \in {"closed", "halfOpen"} /\ ok /\ UNCHANGED breakerVars
  \/ state = "open" /\ openAge >= ResetTimeout /\ ok
     /\ state' = "halfOpen" /\ UNCHANGED <<failures, windowAge, openAge>>
  \/ state = "open" /\ openAge < ResetTimeout /\ ~ok /\ UNCHANGED breakerVars

Allow(ok) ==
  \/ /\ state = "closed"
     /\ ok
     /\ UNCHANGED breakerVars
  \/ /\ state = "open" /\ openAge >= ResetTimeout
     /\ ok
     /\ state' = "halfOpen"
     /\ UNCHANGED <<failures, windowAge, openAge>>
  \/ /\ \/ state = "open" /\ openAge < ResetTimeout
        \/ state = "halfOpen"
     /\ ~ok
     /\ UNCHANGED breakerVars

---------------------------------------------------------------------------
(* RecordSuccess() and RecordFailure().                                    *)

RecordSuccess_StaysHalfOpen == UNCHANGED breakerVars

RecordSuccess ==
  IF state = "halfOpen"
  THEN /\ state' = "closed"
       /\ failures' = 0
       /\ windowAge' = 0
       /\ UNCHANGED openAge
  ELSE UNCHANGED breakerVars

\* The failures that count once the window has been renewed if it expired.
CountedFailures_NeverExpire == failures

CountedFailures == IF windowAge >= WindowDuration THEN 0 ELSE failures

Trips_OneLate(count) == count > FailureThreshold

Trips(count) == count >= FailureThreshold

RecordFailure_ExtendsAnOpenCircuit ==
  \/ /\ state = "closed"
     /\ failures' = CountedFailures + 1
     /\ windowAge' = IF windowAge >= WindowDuration THEN 0 ELSE windowAge
     /\ IF Trips(CountedFailures + 1)
        THEN state' = "open" /\ openAge' = 0
        ELSE UNCHANGED <<state, openAge>>
  \/ /\ state # "closed"
     /\ state' = "open" /\ openAge' = 0
     /\ UNCHANGED <<failures, windowAge>>

RecordFailure ==
  \/ /\ state = "closed"
     /\ failures' = CountedFailures + 1
     /\ windowAge' = IF windowAge >= WindowDuration THEN 0 ELSE windowAge
     /\ IF Trips(CountedFailures + 1)
        THEN state' = "open" /\ openAge' = 0
        ELSE UNCHANGED <<state, openAge>>
  \/ /\ state = "halfOpen"
     /\ state' = "open"
     /\ openAge' = 0
     /\ UNCHANGED <<failures, windowAge>>
  \/ /\ state = "open"
     /\ UNCHANGED breakerVars

---------------------------------------------------------------------------

\* One tick of the monotonic clock behind time.Now and time.Since.
Tick ==
  /\ windowAge' = IF windowAge < WindowDuration THEN windowAge + 1 ELSE windowAge
  /\ openAge' = IF openAge < ResetTimeout THEN openAge + 1 ELSE openAge
  /\ UNCHANGED <<state, failures>>

BreakerTypeOK ==
  /\ state \in {"closed", "open", "halfOpen"}
  /\ failures \in 0 .. FailureThreshold
  /\ windowAge \in 0 .. WindowDuration
  /\ openAge \in 0 .. ResetTimeout

\* A closed breaker is always below its threshold: RecordFailure never leaves
\* it closed at the threshold, and RecordSuccess never closes it with the
\* count that had opened it still standing.
ClosedBelowThreshold == state = "closed" => failures < FailureThreshold

===========================================================================
