------------------------- MODULE CompletionClient -------------------------
(***************************************************************************)
(* Client.Complete of internal/openrouter/client.go, run concurrently by   *)
(* every goroutine that asks a model for a completion, over one shared     *)
(* circuit breaker.  A step of a caller is the code between two points at  *)
(* which it waits (for the HTTP answer, for its backoff timer) or takes    *)
(* the breaker's mutex.                                                    *)
(*                                                                         *)
(* Backoff delays are counted in a unit of their own and not in the ticks  *)
(* of the breaker's clock: a timer may fire after any number of ticks.     *)
(* The upstream service and the context of a call are the environment.     *)
(***************************************************************************)
EXTENDS CircuitBreaker, FiniteSets

CONSTANTS
  Callers,      \* the goroutines that call Complete, each any number of times
  MaxRetries,   \* Client.maxRetries
  BaseDelay,    \* Client.retryBaseDelay, in backoff units
  BackoffCap,   \* Client.maxCumulativeBackoffDuration, in backoff units
  RetryAfters   \* what parseRetryAfter may return, retryAfterAbsent included

retryAfterAbsent == -1

\* NewClient raises a negative MaxRetries to 0; the two durations are the
\* positive defaults of the package.  A Retry-After so large that its duration
\* overflows may be negative (RetryAfter.tla).
ASSUME ClientAssumption ==
  /\ MaxRetries \in Nat
  /\ BaseDelay \in Nat \ {0}
  /\ BackoffCap \in Nat
  /\ RetryAfters \subseteq Int

VARIABLES
  pc,         \* where each caller is in Complete
  attempt,    \* the loop variable of its call
  slept,      \* cumulativeBackoff of its call
  cancelled,  \* the context of its call has been cancelled
  result,     \* how its last call ended
  admissions, \* history: calls admitted since the breaker last changed state
              \* (0, 1 or 2 for "two or more")
  probes      \* history: callers whose call moved the breaker to half-open and
              \* has not ended in a verdict for it

callVars == <<pc, attempt, slept, cancelled, result>>
vars == <<breakerVars, callVars, admissions, probes>>

\* "returned" also stands for a goroutine that has not called yet.
Phases == {"returned", "marshal", "loop", "inFlight", "sleeping"}
Running(c) == pc[c] # "returned"

\* A call ends "ok"; "failed", a terminal failure the breaker is told of;
\* "denied" by the breaker; or with an error the breaker is not told of:
\* the caller's context, a 200 whose body does not decode, a request that
\* cannot be encoded.
Unrecorded == {"context", "badBody", "badRequest"}
Results == {"none", "ok", "failed", "denied"} \cup Unrecorded

Init ==
  /\ BreakerInit
  /\ pc = [c \in Callers |-> "returned"]
  /\ attempt = [c \in Callers |-> 0]
  /\ slept = [c \in Callers |-> 0]
  /\ cancelled = [c \in Callers |-> FALSE]
  /\ result = [c \in Callers |-> "none"]
  /\ admissions = 0
  /\ probes = {}

---------------------------------------------------------------------------
(* History variables.                                                      *)

\* A step of the breaker that admits n calls (0 or 1).
CountAdmissions(n) ==
  admissions' = IF state' # state THEN n
                ELSE IF admissions + n > 2 THEN 2 ELSE admissions + n

Return(c, r) ==
  /\ pc' = [pc EXCEPT ![c] = "returned"]
  /\ result' = [result EXCEPT ![c] = r]
  /\ probes' = IF r \in Unrecorded THEN probes ELSE probes \ {c}
  /\ CountAdmissions(0)
  /\ UNCHANGED <<attempt, slept, cancelled>>

---------------------------------------------------------------------------
(* One call of Complete.                                                   *)

\* Complete asks the breaker first; a denied call returns ErrCircuitOpen.
\* The context of a new call is fresh.
Denied(c) ==
  /\ ~Running(c)
  /\ Allow(FALSE)
  /\ cancelled' = [cancelled EXCEPT ![c] = FALSE]
  /\ result' = [result EXCEPT ![c] = "denied"]
  /\ CountAdmissions(0)
  /\ UNCHANGED <<pc, attempt, slept, probes>>

Admitted(c) ==
  /\ ~Running(c)
  /\ Allow(TRUE)
  /\ pc' = [pc EXCEPT ![c] = "marshal"]
  /\ attempt' = [attempt EXCEPT ![c] = 0]
  /\ slept' = [slept EXCEPT ![c] = 0]
  /\ cancelled' = [cancelled EXCEPT ![c] = FALSE]
  /\ result' = [result EXCEPT ![c] = "none"]
  /\ CountAdmissions(1)
  /\ probes' = IF state' # state
               THEN {d \in probes : Running(d)} \cup {c}
               ELSE probes \ {c}

\* json.Marshal fails on a temperature that is not a number, which neither
\* ParseFloat nor the YAML decoder rejects.
Marshal(c) ==
  /\ pc[c] = "marshal"
  /\ UNCHANGED breakerVars
  /\ \/ /\ pc' = [pc EXCEPT ![c] = "loop"]
        /\ UNCHANGED <<attempt, slept, cancelled, result, admissions, probes>>
     \/ Return(c, "badRequest")

\* The head of the loop: no request is sent once the context is cancelled.
Send(c) ==
  /\ pc[c] = "loop"
  /\ UNCHANGED breakerVars
  /\ IF cancelled[c]
     THEN Return(c, "context")
     ELSE /\ pc' = [pc EXCEPT ![c] = "inFlight"]
          /\ UNCHANGED <<attempt, slept, cancelled, result, admissions, probes>>

\* A 200 whose body was read: decodeBody either accepts it or not, and only
\* a decoded answer is a success for the breaker.
Answered(c) ==
  /\ pc[c] = "inFlight"
  /\ \/ RecordSuccess /\ Return(c, "ok")
     \/ UNCHANGED breakerVars /\ Return(c, "badBody")

\* A status or network error that is not retried, the cancellation of the
\* request seen by the transport among them.
Rejected(c) ==
  /\ pc[c] = "inFlight"
  /\ RecordFailure
  /\ Return(c, "failed")

\* backoffDelay: a Retry-After that is not negative is used as it is; otherwise
\* the base delay tripled at each attempt, plus a jitter in [-base/4, base/4).
BackoffDelays_SentinelOnly(n, retryAfter) ==
  LET base == BaseDelay * 3 ^ n
  IN  IF retryAfter # retryAfterAbsent THEN {retryAfter} ELSE {base}

BackoffDelays(n, retryAfter) ==
  LET base == BaseDelay * 3 ^ n
  IN  IF retryAfter >= 0
      THEN {retryAfter}
      ELSE {d \in 0 .. 2 * base : d >= base - base \div 4
                                  /\ d < base - base \div 4 + base \div 2}

\* The decision on a retryable failure, delay being the backoff drawn for it.
GiveUp(c, delay) == attempt[c] >= MaxRetries \/ slept[c] + delay > BackoffCap

\* A retryable status or network error: sleep and try again, or give up.  On
\* the last attempt a cancelled context takes precedence over the failure.
Retryable_CountsEveryAttempt(c) ==
  /\ pc[c] = "inFlight"
  /\ \E retryAfter \in RetryAfters : \E delay \in BackoffDelays(attempt[c], retryAfter) :
       \/ /\ ~GiveUp(c, delay)
          /\ pc' = [pc EXCEPT ![c] = "sleeping"]
          /\ slept' = [slept EXCEPT ![c] = @ + delay]
          /\ RecordFailure
          /\ CountAdmissions(0)
          /\ UNCHANGED <<attempt, cancelled, result, probes>>
       \/ /\ GiveUp(c, delay)
          /\ RecordFailure
          /\ Return(c, "failed")

Retryable(c) ==
  /\ pc[c] = "inFlight"
  /\ \E retryAfter \in RetryAfters : \E delay \in BackoffDelays(attempt[c], retryAfter) :
       \/ /\ ~GiveUp(c, delay)
          /\ pc' = [pc EXCEPT ![c] = "sleeping"]
          /\ slept' = [slept EXCEPT ![c] = @ + delay]
          /\ UNCHANGED <<breakerVars, attempt, cancelled, result, admissions, probes>>
       \/ /\ attempt[c] >= MaxRetries /\ cancelled[c]
          /\ UNCHANGED breakerVars
          /\ Return(c, "context")
       \/ /\ GiveUp(c, delay)
          /\ ~(attempt[c] >= MaxRetries /\ cancelled[c])
          /\ RecordFailure
          /\ Return(c, "failed")

Wake_AttemptNotCounted(c) ==
  /\ pc[c] = "sleeping"
  /\ UNCHANGED breakerVars
  /\ \/ /\ pc' = [pc EXCEPT ![c] = "loop"]
        /\ UNCHANGED <<attempt, slept, cancelled, result, admissions, probes>>
     \/ /\ cancelled[c]
        /\ Return(c, "context")

\* The select on the timer and the context: when both are ready either wins.
Wake(c) ==
  /\ pc[c] = "sleeping"
  /\ UNCHANGED breakerVars
  /\ \/ /\ pc' = [pc EXCEPT ![c] = "loop"]
        /\ attempt' = [attempt EXCEPT ![c] = @ + 1]
        /\ UNCHANGED <<slept, cancelled, result, admissions, probes>>
     \/ /\ cancelled[c]
        /\ Return(c, "context")

---------------------------------------------------------------------------
(* The environment.                                                        *)

\* The HTTP client went away, or a sibling's failure cancelled the request.
Cancel(c) ==
  /\ Running(c)
  /\ ~cancelled[c]
  /\ cancelled' = [cancelled EXCEPT ![c] = TRUE]
  /\ UNCHANGED <<breakerVars, pc, attempt, slept, result, admissions, probes>>

ClockTick == Tick /\ UNCHANGED <<callVars, admissions, probes>>

Call(c) == Denied(c) \/ Admitted(c)
Reply(c) == Answered(c) \/ Rejected(c) \/ Retryable(c)

Next ==
  \/ \E c \in Callers : \/ Call(c) \/ Marshal(c) \/ Send(c)
                        \/ Reply(c) \/ Wake(c) \/ Cancel(c)
  \/ ClockTick

Spec == Init /\ [][Next]_vars

\* The Go scheduler runs every goroutine, http.Client.Timeout bounds every
\* request, a timer fires, the clock advances.
Progress ==
  /\ WF_vars(ClockTick)
  /\ \A c \in Callers : /\ WF_vars(Marshal(c)) /\ WF_vars(Send(c))
                        /\ WF_vars(Reply(c)) /\ WF_vars(Wake(c))

\* A service in use: every goroutine that is free calls again.
Demand == \A c \in Callers : WF_vars(Call(c))

LiveSpec == Spec /\ Progress
BusySpec == LiveSpec /\ Demand

---------------------------------------------------------------------------
(* Properties.                                                             *)

CallTypeOK ==
  /\ pc \in [Callers -> Phases]
  /\ attempt \in [Callers -> 0 .. MaxRetries]
  /\ slept \in [Callers -> 0 .. BackoffCap]
  /\ cancelled \in [Callers -> BOOLEAN]
  /\ result \in [Callers -> Results]
  /\ admissions \in 0 .. 2
  /\ probes \subseteq Callers

TypeOK == BreakerTypeOK /\ CallTypeOK

\* Nobody is admitted from the moment the breaker opens until it turns
\* half-open, and turning half-open admits exactly one call: the gate the
\* breaker puts in front of a failing upstream, whatever calls were under way
\* when it opened.
GateHolds ==
  /\ state = "open" => admissions = 0
  /\ state = "halfOpen" => admissions = 1

\* The breaker moves only when a whole call settles: an attempt that will be
\* retried, a cancelled sleep and a denied call leave its count and its
\* verdict alone ("Per-attempt errors must NOT be recorded here").  Only a
\* decoded completion closes a half-open breaker; every other move but the
\* admission of a probe is a failed call.
OnlySettledCallsCount ==
  [][failures' # failures \/ state' # state
     => \/ state = "open" /\ state' = "halfOpen"
        \/ \E c \in Callers : /\ Running(c)
                              /\ pc'[c] = "returned"
                              /\ result'[c] = IF state = "halfOpen" /\ state' = "closed"
                                              THEN "ok" ELSE "failed"]_vars

\* Every admitted call returns: the retries of a call are bounded in number
\* and in the time they sleep.
EveryCallReturns == \A c \in Callers : Running(c) ~> ~Running(c)

\* A half-open breaker is left unless a probe returned without a verdict: the
\* only way to stay half-open is an unrecorded end of the probe.
ProbeSettlesOrVanishes ==
  state = "halfOpen" ~> (state # "halfOpen" \/ \E c \in probes : ~Running(c))

\* "subsequent calls must wait for the probe to succeed or fail before the
\* state changes" (circuitbreaker.go:54): the wait of a service in use ends.
HalfOpenIsLeft == state = "halfOpen" ~> state # "halfOpen"

\* "only one probe is allowed at a time" (circuitbreaker.go:54).
OneProbeAtATime == Cardinality({c \in probes : Running(c)}) <= 1

===========================================================================
