---------------------- MODULE CompletionClient_proofs ----------------------
(***************************************************************************)
(* Proofs about Client.Complete and its circuit breaker, for any number of *)
(* callers, any retry budget and any breaker configuration; and about when *)
(* the breaker trips, whoever calls it: what its one counter and the start *)
(* of its window say about the failures there really were.                 *)
(***************************************************************************)
EXTENDS CompletionClient, BreakerHistory, SequenceTheorems, TLAPS

(***************************************************************************)
(* The methods of the breaker preserve its type and keep a closed breaker  *)
(* below its threshold, whoever calls them.                                *)
(***************************************************************************)
BreakerInv == BreakerTypeOK /\ ClosedBelowThreshold

\* Allow may only open the gate: open becomes half-open.
LEMMA AllowPreserves ==
  ASSUME BreakerInv, NEW ok \in BOOLEAN, Allow(ok)
  PROVE  BreakerInv'
BY DEF BreakerInv, BreakerTypeOK, ClosedBelowThreshold, Allow, breakerVars

\* A success resets the count or changes nothing.
LEMMA RecordSuccessPreserves ==
  ASSUME BreakerInv, RecordSuccess
  PROVE  BreakerInv'
BY BreakerAssumption
DEF BreakerInv, BreakerTypeOK, ClosedBelowThreshold, RecordSuccess, breakerVars

\* A failure that reaches the threshold opens the breaker.
LEMMA RecordFailurePreserves ==
  ASSUME BreakerInv, RecordFailure
  PROVE  BreakerInv'
<1>1. CASE state = "closed"
  <2>1. CountedFailures + 1 \in 1 .. FailureThreshold
    BY <1>1, BreakerAssumption
    DEF BreakerInv, BreakerTypeOK, ClosedBelowThreshold, CountedFailures
  <2>2. /\ failures' = CountedFailures + 1
        /\ windowAge' = IF windowAge >= WindowDuration THEN 0 ELSE windowAge
        /\ IF Trips(CountedFailures + 1)
           THEN state' = "open" /\ openAge' = 0
           ELSE UNCHANGED <<state, openAge>>
    BY <1>1 DEF RecordFailure
  <2> QED
    BY <1>1, <2>1, <2>2, BreakerAssumption
    DEF BreakerInv, BreakerTypeOK, ClosedBelowThreshold, Trips
<1>2. CASE state # "closed"
  BY <1>2, BreakerAssumption
  DEF BreakerInv, BreakerTypeOK, ClosedBelowThreshold, RecordFailure, breakerVars
<1> QED BY <1>1, <1>2

\* Time only ages the window and the opening.
LEMMA TickPreserves ==
  ASSUME BreakerInv, Tick
  PROVE  BreakerInv'
BY BreakerAssumption DEF BreakerInv, BreakerTypeOK, ClosedBelowThreshold, Tick

\* Steps that do not call the breaker.
LEMMA BreakerUnchanged ==
  ASSUME BreakerInv, UNCHANGED breakerVars
  PROVE  BreakerInv'
BY DEF BreakerInv, BreakerTypeOK, ClosedBelowThreshold, breakerVars

(***************************************************************************)
(* Every step uses the breaker through one of its methods.                 *)
(***************************************************************************)
LEMMA StepUsesBreaker ==
  ASSUME [Next]_vars
  PROVE  \/ \E ok \in BOOLEAN : Allow(ok)
         \/ RecordSuccess
         \/ RecordFailure
         \/ Tick
         \/ UNCHANGED breakerVars
<1>1. ASSUME NEW c \in Callers, Call(c)
      PROVE  \E ok \in BOOLEAN : Allow(ok)
  BY <1>1 DEF Call, Denied, Admitted
<1>2. ASSUME NEW c \in Callers, Marshal(c) \/ Send(c) \/ Wake(c) \/ Cancel(c)
      PROVE  UNCHANGED breakerVars
  BY <1>2 DEF Marshal, Send, Wake, Cancel
<1>3. ASSUME NEW c \in Callers, Reply(c)
      PROVE  RecordSuccess \/ RecordFailure \/ UNCHANGED breakerVars
  <2>1. CASE Answered(c) BY <2>1 DEF Answered
  <2>2. CASE Rejected(c) BY <2>2 DEF Rejected
  <2>3. CASE Retryable(c) BY <2>3 DEF Retryable, breakerVars
  <2> QED BY <1>3, <2>1, <2>2, <2>3 DEF Reply
<1>4. CASE ClockTick BY <1>4 DEF ClockTick
<1>5. CASE UNCHANGED vars BY <1>5 DEF vars, breakerVars
<1> QED BY <1>1, <1>2, <1>3, <1>4, <1>5 DEF Next

(***************************************************************************)
(* A closed breaker is always below its threshold, with every caller's     *)
(* retries, cancellations and late answers around it: the breaker never    *)
(* sits at the count that should have opened it (RecordFailure,            *)
(* RecordSuccess).                                                         *)
(***************************************************************************)
THEOREM ClosedIsBelowThreshold == Spec => []ClosedBelowThreshold
<1>1. Init => BreakerInv
  BY BreakerAssumption
  DEF Init, BreakerInit, BreakerInv, BreakerTypeOK, ClosedBelowThreshold
<1>2. BreakerInv /\ [Next]_vars => BreakerInv'
  BY StepUsesBreaker, AllowPreserves, RecordSuccessPreserves,
     RecordFailurePreserves, TickPreserves, BreakerUnchanged
<1>3. BreakerInv => ClosedBelowThreshold
  BY DEF BreakerInv
<1> QED BY <1>1, <1>2, <1>3, PTL DEF Spec

(***************************************************************************)
(* What the return of a call does to the variables of the client.          *)
(***************************************************************************)
LEMMA ReturnTypes ==
  ASSUME CallTypeOK, NEW c \in Callers, NEW r \in Results, Return(c, r)
  PROVE  CallTypeOK'
BY DEF CallTypeOK, Return, CountAdmissions, Phases, Results

\* Every delay of backoffDelay is a natural number.
LEMMA BackoffIsNatural ==
  ASSUME NEW n \in 0 .. MaxRetries, NEW retryAfter \in RetryAfters,
         NEW delay \in BackoffDelays(n, retryAfter)
  PROVE  delay \in Nat
<1>1. CASE retryAfter >= 0
  BY <1>1, ClientAssumption DEF BackoffDelays
<1>2. CASE ~(retryAfter >= 0)
  <2>1. delay \in 0 .. 2 * (BaseDelay * 3 ^ n)
    BY <1>2 DEF BackoffDelays
  <2> QED BY <2>1
<1> QED BY <1>1, <1>2

(***************************************************************************)
(* Type correctness: the breaker's count stays within its threshold, and   *)
(* the attempts and the cumulative backoff of a call within the retry      *)
(* budget and the cap of the client, whatever delays are drawn.            *)
(***************************************************************************)
\* A caller asleep has a retry left: Wake increments attempt without a check.
SleepersMayRetry == \A c \in Callers : pc[c] = "sleeping" => attempt[c] < MaxRetries

\* Every step keeps the types, given where sleepers stand.
LEMMA TypeStep ==
  ASSUME TypeOK, SleepersMayRetry, [Next]_vars
  PROVE  CallTypeOK' /\ SleepersMayRetry'
<1> USE DEF TypeOK
<1>1. ASSUME NEW c \in Callers, Call(c)
      PROVE  CallTypeOK' /\ SleepersMayRetry'
  <2>1. CASE Denied(c)
    BY <2>1 DEF Denied, CallTypeOK, CountAdmissions, SleepersMayRetry, Results
  <2>2. CASE Admitted(c)
    BY <2>2, ClientAssumption
    DEF Admitted, CallTypeOK, CountAdmissions, SleepersMayRetry, Phases, Results
  <2> QED BY <1>1, <2>1, <2>2 DEF Call
<1>2. ASSUME NEW c \in Callers, NEW r \in Results, Return(c, r)
      PROVE  CallTypeOK' /\ SleepersMayRetry'
  <2>1. CallTypeOK' BY <1>2, ReturnTypes
  <2>2. SleepersMayRetry'
    BY <1>2 DEF Return, SleepersMayRetry, CallTypeOK
  <2> QED BY <2>1, <2>2
<1>3. ASSUME NEW c \in Callers, Marshal(c)
      PROVE  CallTypeOK' /\ SleepersMayRetry'
  <2>1. CASE Return(c, "badRequest")
    BY <2>1, <1>2 DEF Results, Unrecorded
  <2>2. CASE ~Return(c, "badRequest")
    BY <1>3, <2>2 DEF Marshal, CallTypeOK, SleepersMayRetry, Phases
  <2> QED BY <2>1, <2>2
<1>4. ASSUME NEW c \in Callers, Send(c)
      PROVE  CallTypeOK' /\ SleepersMayRetry'
  <2>1. CASE Return(c, "context")
    BY <2>1, <1>2 DEF Results, Unrecorded
  <2>2. CASE ~Return(c, "context")
    BY <1>4, <2>2 DEF Send, CallTypeOK, SleepersMayRetry, Phases
  <2> QED BY <2>1, <2>2
<1>5. ASSUME NEW c \in Callers, Reply(c)
      PROVE  CallTypeOK' /\ SleepersMayRetry'
  <2>1. CASE \E r \in Results : Return(c, r)
    BY <2>1, <1>2
  <2>2. CASE ~\E r \in Results : Return(c, r)
    <3>1. PICK retryAfter \in RetryAfters :
            \E delay \in BackoffDelays(attempt[c], retryAfter) :
              /\ ~GiveUp(c, delay)
              /\ pc' = [pc EXCEPT ![c] = "sleeping"]
              /\ slept' = [slept EXCEPT ![c] = @ + delay]
              /\ UNCHANGED <<attempt, cancelled, result, admissions, probes>>
      BY <1>5, <2>2 DEF Reply, Answered, Rejected, Retryable, Results, Unrecorded
    <3>2. PICK delay \in BackoffDelays(attempt[c], retryAfter) :
            /\ ~GiveUp(c, delay)
            /\ pc' = [pc EXCEPT ![c] = "sleeping"]
            /\ slept' = [slept EXCEPT ![c] = @ + delay]
            /\ UNCHANGED <<attempt, cancelled, result, admissions, probes>>
      BY <3>1
    <3>3. delay \in Nat
      BY BackoffIsNatural DEF CallTypeOK
    <3>4. slept[c] + delay \in 0 .. BackoffCap /\ attempt[c] < MaxRetries
      BY <3>2, <3>3, ClientAssumption DEF GiveUp, CallTypeOK
    <3> QED
      BY <3>2, <3>4 DEF CallTypeOK, SleepersMayRetry, Phases
  <2> QED BY <2>1, <2>2
<1>6. ASSUME NEW c \in Callers, Wake(c)
      PROVE  CallTypeOK' /\ SleepersMayRetry'
  <2>1. CASE Return(c, "context")
    BY <2>1, <1>2 DEF Results, Unrecorded
  <2>2. CASE ~Return(c, "context")
    <3>1. attempt[c] + 1 \in 0 .. MaxRetries
      BY <1>6, ClientAssumption DEF Wake, CallTypeOK, SleepersMayRetry
    <3> QED
      BY <1>6, <2>2, <3>1 DEF Wake, CallTypeOK, SleepersMayRetry, Phases
  <2> QED BY <2>1, <2>2
<1>7. ASSUME NEW c \in Callers, Cancel(c)
      PROVE  CallTypeOK' /\ SleepersMayRetry'
  BY <1>7 DEF Cancel, CallTypeOK, SleepersMayRetry
<1>8. CASE ClockTick \/ UNCHANGED vars
  BY <1>8 DEF ClockTick, vars, callVars, CallTypeOK, SleepersMayRetry
<1> QED BY <1>1, <1>3, <1>4, <1>5, <1>6, <1>7, <1>8 DEF Next

\* Types, and the bounds of a call: attempts within MaxRetries, sleep within the
\* cap (Complete), failures within the threshold (RecordFailure).
THEOREM TypeCorrect == Spec => []TypeOK
<1> DEFINE Inv == BreakerInv /\ TypeOK /\ SleepersMayRetry
<1>1. Init => Inv
  BY BreakerAssumption, ClientAssumption
  DEF Init, BreakerInit, BreakerInv, BreakerTypeOK, ClosedBelowThreshold, TypeOK,
      CallTypeOK, Phases, Results, SleepersMayRetry
<1>2. Inv /\ [Next]_vars => Inv'
  <2> SUFFICES ASSUME Inv, [Next]_vars PROVE Inv'
    OBVIOUS
  <2>1. BreakerInv'
    BY StepUsesBreaker, AllowPreserves, RecordSuccessPreserves,
       RecordFailurePreserves, TickPreserves, BreakerUnchanged
  <2>2. CallTypeOK' /\ SleepersMayRetry'
    BY TypeStep
  <2> QED BY <2>1, <2>2 DEF BreakerInv, TypeOK
<1>3. Inv => TypeOK
  OBVIOUS
<1> QED BY <1>1, <1>2, <1>3, PTL DEF Spec

(***************************************************************************)
(* The gate: no call is admitted between the opening of the breaker and    *)
(* its turning half-open, and exactly one in each half-open period, however*)
(* many calls admitted earlier report to the breaker meanwhile (Allow,     *)
(* RecordFailure).                                                         *)
(***************************************************************************)
LEMMA GateAdmission ==
  ASSUME TypeOK, GateHolds, NEW ok \in BOOLEAN, Allow(ok),
         CountAdmissions(IF ok THEN 1 ELSE 0)
  PROVE  GateHolds'
<1>1. CASE state = "closed" \/ ~ok
  BY <1>1 DEF GateHolds, Allow, CountAdmissions, TypeOK, CallTypeOK, BreakerTypeOK,
              breakerVars
<1>2. CASE state # "closed" /\ ok
  BY <1>2 DEF GateHolds, Allow, CountAdmissions, TypeOK, CallTypeOK, BreakerTypeOK
<1> QED BY <1>1, <1>2

\* A verdict leaves half-open or leaves the count alone.
LEMMA GateVerdict ==
  ASSUME TypeOK, GateHolds, CountAdmissions(0),
         RecordSuccess \/ RecordFailure \/ UNCHANGED breakerVars
  PROVE  GateHolds'
<1>1. CASE RecordSuccess
  BY <1>1 DEF RecordSuccess, GateHolds, CountAdmissions, TypeOK, CallTypeOK,
              BreakerTypeOK, breakerVars
<1>2. CASE RecordFailure
  BY <1>2 DEF RecordFailure, GateHolds, CountAdmissions, TypeOK, CallTypeOK,
              BreakerTypeOK, breakerVars
<1>3. CASE UNCHANGED breakerVars
  BY <1>3 DEF GateHolds, CountAdmissions, TypeOK, CallTypeOK, breakerVars
<1> QED BY <1>1, <1>2, <1>3

\* A step that is neither an admission nor the end of a call leaves the
\* verdict of the breaker and the count of admissions alone.
LEMMA StepKinds ==
  ASSUME [Next]_vars
  PROVE  \/ \E ok \in BOOLEAN : Allow(ok) /\ CountAdmissions(IF ok THEN 1 ELSE 0)
         \/ /\ CountAdmissions(0)
            /\ RecordSuccess \/ RecordFailure \/ UNCHANGED breakerVars
         \/ UNCHANGED <<state, admissions>>
<1>1. ASSUME NEW c \in Callers, Call(c)
      PROVE  \E ok \in BOOLEAN : Allow(ok) /\ CountAdmissions(IF ok THEN 1 ELSE 0)
  BY <1>1 DEF Call, Denied, Admitted
<1>2. ASSUME NEW c \in Callers, Marshal(c) \/ Send(c) \/ Wake(c)
      PROVE  \/ CountAdmissions(0) /\ UNCHANGED breakerVars
             \/ UNCHANGED <<state, admissions>>
  BY <1>2 DEF Marshal, Send, Wake, Return, breakerVars
<1>3. ASSUME NEW c \in Callers, Reply(c)
      PROVE  \/ /\ CountAdmissions(0)
                /\ RecordSuccess \/ RecordFailure \/ UNCHANGED breakerVars
             \/ UNCHANGED <<state, admissions>>
  <2>1. CASE Answered(c) BY <2>1 DEF Answered, Return
  <2>2. CASE Rejected(c) BY <2>2 DEF Rejected, Return
  <2>3. CASE Retryable(c) BY <2>3 DEF Retryable, Return, breakerVars
  <2> QED BY <1>3, <2>1, <2>2, <2>3 DEF Reply
<1>4. ASSUME NEW c \in Callers, Cancel(c)
      PROVE  UNCHANGED <<state, admissions>>
  BY <1>4 DEF Cancel, breakerVars
<1>5. CASE ClockTick \/ UNCHANGED vars
  BY <1>5 DEF ClockTick, Tick, vars, breakerVars
<1> QED BY <1>1, <1>2, <1>3, <1>4, <1>5 DEF Next

\* An open breaker has admitted nobody, and a half-open one exactly one call
\* (Allow), whichever callers report in between.
THEOREM GateIsKept == Spec => []GateHolds
<1>1. Init => GateHolds
  BY DEF Init, BreakerInit, GateHolds
<1>2. TypeOK /\ GateHolds /\ [Next]_vars => GateHolds'
  <2> SUFFICES ASSUME TypeOK, GateHolds, [Next]_vars PROVE GateHolds'
    OBVIOUS
  <2>1. CASE UNCHANGED <<state, admissions>>
    BY <2>1 DEF GateHolds
  <2> QED BY <2>1, StepKinds, GateAdmission, GateVerdict
<1> QED BY <1>1, <1>2, TypeCorrect, PTL DEF Spec

(***************************************************************************)
(* Only a call that settles moves the breaker: retries, cancelled sleeps,  *)
(* denied calls and undecodable answers leave its count and its state      *)
(* alone (the RecordSuccess and RecordFailure calls of Complete).          *)
(***************************************************************************)
THEOREM SettledCallsOnly == Spec => OnlySettledCallsCount
<1> DEFINE Settles == \E c \in Callers : /\ Running(c)
                                         /\ pc'[c] = "returned"
                                         /\ result'[c] = IF state = "halfOpen" /\ state' = "closed"
                                                         THEN "ok" ELSE "failed"
           A == failures' # failures \/ state' # state
                => (state = "open" /\ state' = "halfOpen") \/ Settles
<1>1. TypeOK /\ [Next]_vars => A
  <2> SUFFICES ASSUME TypeOK, [Next]_vars, failures' # failures \/ state' # state
               PROVE  (state = "open" /\ state' = "halfOpen") \/ Settles
    OBVIOUS
  <2>1. ASSUME NEW c \in Callers, Call(c)
        PROVE  state = "open" /\ state' = "halfOpen"
    BY <2>1 DEF Call, Denied, Admitted, Allow, breakerVars
  <2>2. ASSUME NEW c \in Callers, Reply(c)
        PROVE  Settles
    <3>1. ASSUME NEW r \in {"ok", "failed"}, Return(c, r)
          PROVE  pc'[c] = "returned" /\ result'[c] = r
      BY <3>1 DEF Return, TypeOK, CallTypeOK
    <3>2. pc[c] = "inFlight"
      BY <2>2 DEF Reply, Answered, Rejected, Retryable
    <3>3. \/ RecordSuccess /\ Return(c, "ok")
          \/ RecordFailure /\ Return(c, "failed")
      BY <2>2 DEF Reply, Answered, Rejected, Retryable, breakerVars
    <3>4. CASE RecordSuccess /\ Return(c, "ok")
      <4>1. state = "halfOpen" /\ state' = "closed"
        BY <3>4 DEF RecordSuccess, breakerVars
      <4> QED BY <3>1, <3>2, <3>4, <4>1 DEF Running
    <3>5. CASE RecordFailure /\ Return(c, "failed")
      <4>1. ~(state = "halfOpen" /\ state' = "closed")
        BY <3>5 DEF RecordFailure
      <4> QED BY <3>1, <3>2, <3>5, <4>1 DEF Running
    <3> QED BY <3>3, <3>4, <3>5
  <2>3. ASSUME NEW c \in Callers, Marshal(c) \/ Send(c) \/ Wake(c) \/ Cancel(c)
        PROVE  FALSE
    BY <2>3 DEF Marshal, Send, Wake, Cancel, breakerVars
  <2>4. CASE ClockTick \/ UNCHANGED vars
    BY <2>4 DEF ClockTick, Tick, vars, breakerVars
  <2> QED BY <2>1, <2>2, <2>3, <2>4 DEF Next
<1>2. TypeOK /\ [Next]_vars => [A]_vars
  BY <1>1
<1> QED BY <1>2, TypeCorrect, PTL DEF Spec, OnlySettledCallsCount

---------------------------------------------------------------------------
(* How many steps a call has ahead: four for each attempt, the sleep after *)
(* it among them.                                                          *)

StepsAhead(c) ==
  IF Running(c)
  THEN 4 * (MaxRetries - attempt[c])
         + [marshal |-> 4, loop |-> 3, inFlight |-> 2, sleeping |-> 1][pc[c]]
  ELSE 0

\* Nothing but a new call adds to them, and a step of the call takes from them.
CallsGetOn ==
  \A c \in Callers :
    Running(c) => \/ StepsAhead(c)' < StepsAhead(c)
                  \/ UNCHANGED <<pc[c], attempt[c]>>

\* The steps of one call, as far as its progress goes.
LEMMA CallSteps ==
  ASSUME TypeOK, [Next]_vars, NEW c \in Callers, Running(c)
  PROVE  \/ UNCHANGED <<pc[c], attempt[c]>>
         \/ pc'[c] = "returned"
         \/ pc[c] = "marshal" /\ pc'[c] = "loop" /\ attempt'[c] = attempt[c]
         \/ pc[c] = "loop" /\ pc'[c] = "inFlight" /\ attempt'[c] = attempt[c]
         \/ pc[c] = "inFlight" /\ pc'[c] = "sleeping" /\ attempt'[c] = attempt[c]
         \/ pc[c] = "sleeping" /\ pc'[c] = "loop" /\ attempt'[c] = attempt[c] + 1
<1> USE DEF TypeOK, CallTypeOK, Return
<1>1. ASSUME NEW d \in Callers, Call(d)
      PROVE  UNCHANGED <<pc[c], attempt[c]>>
  BY <1>1 DEF Call, Denied, Admitted, Running
<1>2. ASSUME NEW d \in Callers, d # c, Marshal(d) \/ Send(d) \/ Reply(d) \/ Wake(d)
      PROVE  UNCHANGED <<pc[c], attempt[c]>>
  BY <1>2 DEF Marshal, Send, Reply, Answered, Rejected, Retryable, Wake
<1>3. ASSUME NEW d \in Callers, Cancel(d)
      PROVE  UNCHANGED <<pc[c], attempt[c]>>
  BY <1>3 DEF Cancel
<1>4. CASE ClockTick \/ UNCHANGED vars
  BY <1>4 DEF ClockTick, vars, callVars
<1>5. CASE Marshal(c)
  BY <1>5 DEF Marshal
<1>6. CASE Send(c)
  BY <1>6 DEF Send
<1>7. CASE Reply(c)
  BY <1>7 DEF Reply, Answered, Rejected, Retryable
<1>8. CASE Wake(c)
  BY <1>8 DEF Wake
<1> QED BY <1>1, <1>2, <1>3, <1>4, <1>5, <1>6, <1>7, <1>8 DEF Next

\* A call that has been admitted returns within 4 * (MaxRetries + 1) steps of
\* its own, whatever other callers, the clock and cancellations do in between:
\* no Retry-After, no jitter and no state of the breaker adds to them.
THEOREM CallsTakeBoundedSteps ==
  Spec => /\ [](\A c \in Callers : StepsAhead(c) \in 0 .. 4 * (MaxRetries + 1))
          /\ [][CallsGetOn]_vars
<1>1. TypeOK => \A c \in Callers : StepsAhead(c) \in 0 .. 4 * (MaxRetries + 1)
  <2> SUFFICES ASSUME TypeOK, NEW c \in Callers
               PROVE  StepsAhead(c) \in 0 .. 4 * (MaxRetries + 1)
    OBVIOUS
  <2>1. /\ pc[c] \in {"returned", "marshal", "loop", "inFlight", "sleeping"}
        /\ attempt[c] \in 0 .. MaxRetries
    BY DEF TypeOK, CallTypeOK, Phases
  <2> QED BY <2>1, ClientAssumption DEF StepsAhead, Running
<1>2. TypeOK /\ TypeOK' /\ [Next]_vars => CallsGetOn
  <2> SUFFICES ASSUME TypeOK, TypeOK', [Next]_vars, NEW c \in Callers, Running(c)
               PROVE  StepsAhead(c)' < StepsAhead(c) \/ UNCHANGED <<pc[c], attempt[c]>>
    BY DEF CallsGetOn
  <2>1. /\ pc[c] \in {"marshal", "loop", "inFlight", "sleeping"}
        /\ attempt[c] \in 0 .. MaxRetries /\ MaxRetries \in Nat
    BY ClientAssumption DEF TypeOK, CallTypeOK, Phases, Running
  <2>2. StepsAhead(c) >= 1
    BY <2>1 DEF StepsAhead, Running
  <2> QED BY <2>1, <2>2, CallSteps DEF StepsAhead, Running
<1> QED BY TypeCorrect, <1>1, <1>2, PTL DEF Spec

---------------------------------------------------------------------------
(***************************************************************************)
(* Until the window expires the recent failures of a closed breaker are    *)
(* those of the window before, the first of them, and the ones that were   *)
(* counted; each block is below the threshold.  The window before ended    *)
(* when this one began, so its failures are gone from the history once     *)
(* this one has expired, and only counted ones are left.                   *)
(***************************************************************************)
Before == Len(recent) - failures

WindowInv ==
  IF windowAge < WindowDuration
  THEN /\ Before \in 0 .. FailureThreshold - 1
       /\ \A i \in 1 .. Before : recent[i] >= windowAge
       /\ \A i \in Before + 1 .. Len(recent) : recent[i] <= windowAge
  ELSE Len(recent) < FailureThreshold

HistoryInv ==
  /\ BreakerTypeOK
  /\ recent \in Seq(Nat)
  /\ state = "closed" => failures < FailureThreshold /\ WindowInv

---------------------------------------------------------------------------

\* Allow records nothing.
LEMMA AdmissionPreserves ==
  ASSUME HistoryInv, Admission
  PROVE  HistoryInv'
<1>1. \/ UNCHANGED <<breakerVars, recent>>
      \/ state' = "halfOpen" /\ UNCHANGED <<failures, windowAge, openAge, recent>>
  BY DEF Admission, Allow
<1> QED BY <1>1 DEF HistoryInv, BreakerTypeOK, WindowInv, Before, breakerVars

\* A breaker that closes starts with an empty window and an empty history.
LEMMA SuccessPreserves ==
  ASSUME HistoryInv, Success
  PROVE  HistoryInv'
<1>1. CASE state = "halfOpen"
  <2>1. /\ recent' = <<>> /\ state' = "closed" /\ failures' = 0 /\ windowAge' = 0
        /\ openAge' = openAge
    BY <1>1 DEF Success, RecordSuccess
  <2>2. recent' \in Seq(Nat) /\ Len(recent') = 0
    BY <2>1
  <2>3. BreakerTypeOK' /\ failures' < FailureThreshold
    BY <2>1, BreakerAssumption DEF HistoryInv, BreakerTypeOK
  <2>4. WindowInv'
    BY <2>1, <2>2, BreakerAssumption DEF WindowInv, Before
  <2> QED BY <2>2, <2>3, <2>4 DEF HistoryInv
<1>2. CASE state # "halfOpen"
  <2>1. UNCHANGED <<breakerVars, recent>>
    BY <1>2 DEF Success, RecordSuccess
  <2> QED BY <2>1 DEF HistoryInv, BreakerTypeOK, WindowInv, Before, breakerVars
<1> QED BY <1>1, <1>2

\* A failure is counted in the window, or begins the next one.
LEMMA FailurePreserves ==
  ASSUME HistoryInv, Failure
  PROVE  HistoryInv'
<1> USE BreakerAssumption DEF HistoryInv, BreakerTypeOK
<1>1. CASE state = "closed"
  <2>1. /\ failures' = CountedFailures + 1
        /\ windowAge' = IF windowAge >= WindowDuration THEN 0 ELSE windowAge
        /\ recent' = Append(recent, 0)
        /\ IF CountedFailures + 1 >= FailureThreshold
           THEN state' = "open" /\ openAge' = 0
           ELSE UNCHANGED <<state, openAge>>
    BY <1>1 DEF Failure, RecordFailure, Trips
  <2>2. CountedFailures = IF windowAge >= WindowDuration THEN 0 ELSE failures
    BY DEF CountedFailures
  <2>3. BreakerTypeOK' /\ (state' = "closed" => failures' < FailureThreshold)
    BY <1>1, <2>1, <2>2
  <2>4. /\ recent' \in Seq(Nat) /\ Len(recent') = Len(recent) + 1
        /\ \A i \in 1 .. Len(recent) : recent'[i] = recent[i]
        /\ recent'[Len(recent) + 1] = 0
    BY <2>1
  <2>5. CASE windowAge >= WindowDuration
    <3>1. /\ windowAge' = 0 /\ failures' = 1 /\ Len(recent) \in 0 .. FailureThreshold - 1
          /\ \A i \in 1 .. Len(recent) : recent[i] \in Nat
      BY <1>1, <2>1, <2>2, <2>5 DEF WindowInv
    <3>2. Before' = Len(recent)
      BY <2>4, <3>1 DEF Before
    <3>3. WindowInv'
      BY <2>4, <3>1, <3>2 DEF WindowInv
    <3> QED BY <2>3, <2>4, <3>3
  <2>6. CASE windowAge < WindowDuration
    <3>1. windowAge' = windowAge /\ failures' = failures + 1 /\ WindowInv
      BY <1>1, <2>1, <2>2, <2>6
    <3>2. Before' = Before
      BY <2>4, <3>1 DEF Before
    <3>3. /\ Before \in 0 .. FailureThreshold - 1 /\ Before <= Len(recent)
          /\ \A i \in 1 .. Before : recent[i] >= windowAge
          /\ \A i \in Before + 1 .. Len(recent) : recent[i] <= windowAge
      BY <2>6, <3>1 DEF WindowInv, Before
    <3>4. \A i \in 1 .. Before' : recent'[i] >= windowAge'
      <4> TAKE i \in 1 .. Before'
      <4>1. i \in 1 .. Before /\ i \in 1 .. Len(recent)
        BY <3>2, <3>3
      <4> QED BY <2>4, <3>1, <3>3, <4>1
    <3>5. \A i \in Before' + 1 .. Len(recent') : recent'[i] <= windowAge'
      <4> TAKE i \in Before' + 1 .. Len(recent')
      <4>1. i \in Before + 1 .. Len(recent) \/ i = Len(recent) + 1
        BY <2>4, <3>2, <3>3
      <4> QED BY <2>4, <3>1, <3>3, <4>1
    <3>6. WindowInv'
      BY <2>6, <3>1, <3>2, <3>3, <3>4, <3>5 DEF WindowInv
    <3> QED BY <2>3, <2>4, <3>6
  <2> QED BY <2>5, <2>6
<1>2. CASE state # "closed"
  BY <1>2 DEF Failure, RecordFailure, breakerVars
<1> QED BY <1>1, <1>2

\* Time takes failures from the front, those of the window before first.
LEMMA HistoryTickPreserves ==
  ASSUME HistoryInv, HistoryTick
  PROVE  HistoryInv'
<1> DEFINE older == [i \in DOMAIN recent |-> recent[i] + 1]
<1>0. /\ older \in Seq(Nat) /\ Len(older) = Len(recent) /\ Len(recent) \in Nat
      /\ \A i \in 1 .. Len(recent) : older[i] = recent[i] + 1 /\ recent[i] \in Nat
      /\ windowAge \in Nat /\ failures \in Nat /\ WindowDuration \in Nat
      /\ FailureThreshold \in Nat
  BY BreakerAssumption DEF HistoryInv, BreakerTypeOK
<1>1. PICK n \in 0 .. Len(recent) :
        /\ \A i \in 1 .. n : older[i] >= WindowDuration
        /\ \A i \in n + 1 .. Len(recent) : older[i] < WindowDuration
        /\ recent' = SubSeq(older, n + 1, Len(recent))
  BY <1>0 DEF HistoryTick
<1> HIDE DEF older
<1>2. /\ \A i \in 1 .. n : recent[i] + 1 >= WindowDuration
      /\ \A i \in n + 1 .. Len(recent) : recent[i] + 1 < WindowDuration
  <2>1. ASSUME NEW i \in 1 .. n PROVE recent[i] + 1 >= WindowDuration
    <3>1. older[i] >= WindowDuration
      BY <1>1
    <3>2. i \in 1 .. Len(recent)
      BY <1>0
    <3>3. older[i] = recent[i] + 1
      BY <1>0, <3>2
    <3> QED BY <3>1, <3>3
  <2>2. ASSUME NEW i \in n + 1 .. Len(recent) PROVE recent[i] + 1 < WindowDuration
    <3>1. older[i] < WindowDuration
      BY <1>1
    <3>2. i \in 1 .. Len(recent)
      BY <1>0
    <3>3. older[i] = recent[i] + 1
      BY <1>0, <3>2
    <3> QED BY <3>1, <3>3
  <2> QED BY <2>1, <2>2
<1>3. /\ recent' \in Seq(Nat)
      /\ Len(recent') = Len(recent) - n
      /\ \A i \in 1 .. Len(recent) - n : recent'[i] = recent[n + i] + 1
  <2>1. PICK m \in Int : m = n + 1
    BY <1>0
  <2>2. PICK k \in Int : k = Len(recent)
    BY <1>0
  <2>3. m <= k + 1 /\ recent' = SubSeq(older, m, k)
    BY <1>0, <1>1, <2>1, <2>2
  <2>4. \A i \in m .. k : older[i] \in Nat
    <3>1. ASSUME NEW i \in m .. k PROVE older[i] \in Nat
      <4>1. i \in 1 .. Len(recent)
        BY <1>0, <2>1, <2>2
      <4> QED BY <1>0, <4>1
    <3> QED BY <3>1
  <2>5. /\ SubSeq(older, m, k) \in Seq(Nat)
        /\ Len(SubSeq(older, m, k)) = IF m <= k THEN k - m + 1 ELSE 0
        /\ \A i \in 1 .. k - m + 1 : SubSeq(older, m, k)[i] = older[m + i - 1]
    BY <2>4, SubSeqProperties
  <2>6. recent' \in Seq(Nat) /\ Len(recent') = k - n
    BY <2>1, <2>3, <2>5
  <2>7. ASSUME NEW i \in 1 .. k - n PROVE recent'[i] = recent[n + i] + 1
    <3>1. i \in 1 .. k - m + 1 /\ n + i \in 1 .. Len(recent) /\ m + i - 1 = n + i
      BY <1>0, <2>1, <2>2
    <3>2. recent'[i] = older[n + i]
      BY <2>3, <2>5, <3>1
    <3> QED BY <1>0, <3>1, <3>2
  <2> QED BY <2>2, <2>6, <2>7
<1>4. BreakerTypeOK' /\ failures' = failures /\ state' = state
  BY BreakerAssumption DEF HistoryInv, BreakerTypeOK, HistoryTick, Tick
<1>5. ASSUME state = "closed"
      PROVE  WindowInv'
  <2>1. CASE windowAge >= WindowDuration
    <3>1. windowAge' = windowAge /\ Len(recent) < FailureThreshold
      BY <1>5, <2>1, <1>0 DEF HistoryInv, WindowInv, HistoryTick, Tick
    <3> QED BY <1>0, <1>3, <2>1, <3>1 DEF WindowInv
  <2>2. CASE windowAge < WindowDuration
    <3>0. windowAge + 1 = WindowDuration \/ windowAge + 1 < WindowDuration
      BY <1>0, <2>2
    <3>1. /\ windowAge' = windowAge + 1
          /\ Before \in 0 .. FailureThreshold - 1
          /\ \A i \in 1 .. Before : recent[i] >= windowAge
          /\ \A i \in Before + 1 .. Len(recent) : recent[i] <= windowAge
      BY <1>5, <2>2, <1>0 DEF HistoryInv, WindowInv, HistoryTick, Tick
    <3>2. CASE windowAge + 1 = WindowDuration
      <4>1. n >= Before
        <5> SUFFICES ASSUME n < Before PROVE FALSE
          BY <3>1
        <5>1. n + 1 \in 1 .. Before /\ n + 1 \in n + 1 .. Len(recent)
          BY <1>0, <3>1 DEF Before
        <5> QED BY <1>0, <1>2, <3>1, <3>2, <5>1
      <4>2. Len(recent') = Len(recent) - n /\ Len(recent) - Before = failures
        BY <1>0, <1>3 DEF Before
      <4>3. failures < FailureThreshold
        BY <1>5 DEF HistoryInv
      <4>4. Len(recent') < FailureThreshold
        BY <1>0, <3>1, <4>1, <4>2, <4>3
      <4> QED BY <1>0, <3>1, <3>2, <4>4 DEF WindowInv
    <3>3. CASE windowAge + 1 < WindowDuration
      <4>1. n <= Before
        <5> SUFFICES ASSUME n > Before PROVE FALSE
          BY <1>0, <3>1
        <5>1. n \in 1 .. n /\ n \in Before + 1 .. Len(recent) /\ n \in 1 .. Len(recent)
          BY <1>0, <3>1
        <5>2. recent[n] + 1 >= WindowDuration /\ recent[n] <= windowAge /\ recent[n] \in Nat
          BY <1>0, <1>2, <3>1, <5>1
        <5> QED BY <1>0, <3>3, <5>2
      <4>2. Before' = Before - n
        BY <1>0, <1>3, <1>4 DEF Before
      <4>3. Before' \in 0 .. FailureThreshold - 1
        BY <1>0, <3>1, <4>1, <4>2
      <4>0. windowAge' = windowAge + 1 /\ Before \in Nat /\ Before <= Len(recent)
        BY <1>0, <3>1 DEF Before
      <4>4. ASSUME NEW i \in 1 .. Before'
            PROVE  recent'[i] >= windowAge'
        <5>1. i \in 1 .. Len(recent) - n /\ n + i \in 1 .. Before
          BY <1>0, <4>0, <4>1, <4>2
        <5>2. recent'[i] = recent[n + i] + 1 /\ recent[n + i] \in Nat
          BY <1>0, <1>3, <4>0, <5>1
        <5> QED BY <1>0, <3>1, <4>0, <5>1, <5>2
      <4>5. ASSUME NEW i \in Before' + 1 .. Len(recent')
            PROVE  recent'[i] <= windowAge'
        <5>1. i \in 1 .. Len(recent) - n /\ n + i \in Before + 1 .. Len(recent)
          BY <1>0, <1>3, <4>0, <4>1, <4>2
        <5>2. recent'[i] = recent[n + i] + 1 /\ recent[n + i] \in Nat
          BY <1>0, <1>3, <4>0, <5>1
        <5> QED BY <1>0, <3>1, <4>0, <5>1, <5>2
      <4> QED BY <3>1, <3>3, <4>3, <4>4, <4>5 DEF WindowInv
    <3> QED BY <3>0, <3>2, <3>3
  <2> QED BY <1>0, <2>1, <2>2
<1> QED BY <1>3, <1>4, <1>5 DEF HistoryInv, BreakerTypeOK

\* The invariant holds of every behaviour of callers and clock.
LEMMA HistoryInvariant == HistorySpec => []HistoryInv
<1>1. HistoryInit => HistoryInv
  BY BreakerAssumption
  DEF HistoryInit, BreakerInit, HistoryInv, BreakerTypeOK, WindowInv, Before
<1>2. HistoryInv /\ [HistoryNext]_historyVars => HistoryInv'
  <2>1. HistoryInv /\ UNCHANGED historyVars => HistoryInv'
    BY DEF HistoryInv, BreakerTypeOK, WindowInv, Before, historyVars, breakerVars
  <2> QED
    BY <2>1, AdmissionPreserves, SuccessPreserves, FailurePreserves, HistoryTickPreserves
    DEF HistoryNext
<1> QED BY <1>1, <1>2, PTL DEF HistorySpec

---------------------------------------------------------------------------
(* The theorems.                                                           *)

\* A closed breaker has not been kept closed by its block-wise window through
\* more than twice FailureThreshold - 1 failures within one WindowDuration.
THEOREM BurstsAreBounded == HistorySpec => []BurstBounded
<1>1. HistoryInv => BurstBounded
  BY BreakerAssumption DEF HistoryInv, BreakerTypeOK, WindowInv, Before, BurstBounded
<1> QED BY <1>1, HistoryInvariant, PTL

\* RecordFailure opens a closed breaker only when FailureThreshold failures of
\* this closed period are younger than WindowDuration.
THEOREM TripsOnBurst == HistorySpec => TripsOnlyOnBurst
<1> DEFINE A == state = "closed" /\ state' = "open" => Len(recent') >= FailureThreshold
<1>1. HistoryInv /\ [HistoryNext]_historyVars => [A]_historyVars
  <2> SUFFICES ASSUME HistoryInv, [HistoryNext]_historyVars, state = "closed", state' = "open"
               PROVE  Len(recent') >= FailureThreshold
    OBVIOUS
  <2>1. Failure
    BY DEF HistoryNext, Admission, Allow, Success, RecordSuccess, HistoryTick, Tick, historyVars,
           breakerVars
  <2>2. CountedFailures + 1 >= FailureThreshold /\ recent' = Append(recent, 0)
    BY <2>1 DEF Failure, RecordFailure, Trips, breakerVars
  <2>3. Len(recent') = Len(recent) + 1
    BY <2>2 DEF HistoryInv
  <2>4. CountedFailures <= Len(recent)
    <3>1. WindowInv /\ Len(recent) \in Nat /\ failures \in Nat /\ windowAge \in Nat
      BY BreakerAssumption DEF HistoryInv, BreakerTypeOK
    <3>2. windowAge < WindowDuration => failures <= Len(recent)
      BY <3>1, BreakerAssumption DEF WindowInv, Before
    <3> QED BY <3>1, <3>2, BreakerAssumption DEF CountedFailures
  <2> QED BY <2>2, <2>3, <2>4, BreakerAssumption
      DEF CountedFailures, HistoryInv, BreakerTypeOK
<1> QED BY <1>1, HistoryInvariant, PTL DEF HistorySpec, TripsOnlyOnBurst

===========================================================================
