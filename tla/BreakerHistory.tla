-------------------------- MODULE BreakerHistory --------------------------
(***************************************************************************)
(* The circuit breaker under arbitrary callers, with a history of when the *)
(* terminal failures of the present closed period were recorded.  The      *)
(* history is what the transition rules in the comment of CircuitBreaker   *)
(* speak of; the code keeps only a counter and the start of its window.    *)
(***************************************************************************)
EXTENDS CircuitBreaker, Sequences

VARIABLE recent  \* ages of the failures recorded since the breaker last closed
                 \* that are younger than WindowDuration, oldest first

historyVars == <<breakerVars, recent>>

HistoryInit == BreakerInit /\ recent = <<>>

Admission == \E ok \in BOOLEAN : Allow(ok) /\ UNCHANGED recent

\* Any caller that was admitted earlier may report success or failure.
Success ==
  /\ RecordSuccess
  /\ recent' = IF state = "halfOpen" THEN <<>> ELSE recent

Failure ==
  /\ RecordFailure
  /\ recent' = IF state = "closed" THEN Append(recent, 0) ELSE recent

\* The oldest are the first to leave the window.
HistoryTick ==
  /\ Tick
  /\ LET older == [i \in DOMAIN recent |-> recent[i] + 1]
     IN  \E n \in 0 .. Len(recent) :
           /\ \A i \in 1 .. n : older[i] >= WindowDuration
           /\ \A i \in n + 1 .. Len(recent) : older[i] < WindowDuration
           /\ recent' = SubSeq(older, n + 1, Len(recent))

HistoryNext == Admission \/ Success \/ Failure \/ HistoryTick

\* A clock always advances; a service in use keeps asking for admission.
HistoryFairness == WF_historyVars(HistoryTick) /\ WF_historyVars(Admission)

HistorySpec == HistoryInit /\ [][HistoryNext]_historyVars /\ HistoryFairness

\* The breaker trips only on a burst: when RecordFailure opens a closed
\* breaker, at least FailureThreshold failures of the present closed period
\* are younger than WindowDuration.
TripsOnlyOnBurst ==
  [][state = "closed" /\ state' = "open" => Len(recent') >= FailureThreshold]_historyVars

\* The window is renewed as a block, so a burst that straddles its end can be
\* split in two; the breaker still cannot stay closed through more than twice
\* FailureThreshold - 1 failures within one WindowDuration.
BurstBounded == state = "closed" => Len(recent) <= 2 * (FailureThreshold - 1)

\* An open breaker comes to its probe however many late failures are reported
\* to it meanwhile: RecordFailure must not postpone openedAt while open.
OpenLeadsToProbe == state = "open" ~> state = "halfOpen"

===========================================================================
