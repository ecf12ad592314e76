----------------------------- MODULE Evaluation ----------------------------
(***************************************************************************)
(* The evaluation harness, internal/eval and cmd/eval: each case goes to   *)
(* the council and to a single model, and a judge that does not know which *)
(* is which compares the answers.  A suite is run by eval.Run with one     *)
(* random number generator for all its cases; a batch runs each item with  *)
(* a generator of its own, meters what the calls cost, stops when that is  *)
(* over the budget and pauses between items.  The user may interrupt it.   *)
(***************************************************************************)
EXTENDS Integers, Sequences, FiniteSets, SequencesExt

CONSTANTS
  MaxCases,  \* bound: the cases of an evaluation
  MaxCost,   \* EVAL_MAX_COST_USD, of a batch
  Costs      \* bound: what the calls of a step may cost

\* A budget that is not positive is replaced by 1.0.
ASSUME EvaluationAssumption ==
  /\ MaxCases \in Nat \ {0}
  /\ MaxCost \in Nat \ {0}
  /\ Costs \subseteq Nat /\ Costs # {}

VARIABLES
  mode,         \* "suite" or "batch"
  total,        \* the number of cases
  coins,        \* what the generators yield: for a suite the n-th number drawn,
                \* for a batch the first one of the generator of item n
  draws,        \* the numbers drawn so far
  councilFirst, \* whether the judge is shown the answer of the council first
  step,         \* "check", "council", "baseline", "judge", "pause", "report",
                \* "done"
  begun,        \* whether the call under way began before the interruption
  interrupted,  \* whether the context has been cancelled
  started,      \* the cost when the case under way was begun
  cost,         \* the cost metered so far
  results,      \* for each case that is over [verdict, prefers, councilFirst,
                \* started]; the judge prefers an answer, whose it does not know
  report        \* the report that was written, or none

vars == <<mode, total, coins, draws, councilFirst, step, begun, interrupted, started, cost,
          results, report>>
fixed == <<mode, total, coins>>

NoReport == [results |-> <<>>, summary |-> <<>>]
NotJudged == "not judged"

Init ==
  /\ mode \in {"suite", "batch"}
  /\ total \in 1 .. MaxCases
  /\ coins \in [1 .. total -> BOOLEAN]
  /\ draws = 0
  /\ councilFirst = FALSE
  /\ step = "check"
  /\ begun = TRUE
  /\ interrupted = FALSE
  /\ started = 0
  /\ cost = 0
  /\ results = <<>>
  /\ report = NoReport

Case == Len(results) + 1

---------------------------------------------------------------------------
(* runCase.                                                                *)

\* A call is made; one begun after the interruption fails.
Begin(next) ==
  /\ step' = next
  /\ begun' = ~interrupted

\* Successful calls of a batch are metered, those of a council that fails among
\* them.
Meter == cost' \in {cost + c : c \in IF mode = "batch" /\ begun THEN Costs ELSE {0}}

OverBudget_Never == FALSE

\* Compared once an item is over.
OverBudget == cost' > MaxCost

Done(verdict, prefers) ==
  /\ results' = Append(results, [verdict |-> verdict, prefers |-> prefers,
                                 councilFirst |-> councilFirst, started |-> started])
  /\ step' = IF OverBudget \/ Case = total THEN "report"
             ELSE IF mode = "batch" THEN "pause" ELSE "check"
  /\ UNCHANGED begun

Council ==
  /\ step = "council"
  /\ Meter
  /\ \/ begun /\ Begin("baseline") /\ UNCHANGED results
     \/ Done("error", NotJudged)
  /\ UNCHANGED <<fixed, draws, councilFirst, interrupted, started, report>>

Number_Shared == draws + 1

\* The number the order is decided by, of the generator of the suite or of the
\* item.
Number == IF mode = "suite" THEN draws + 1 ELSE Case

\* The order of the answers is drawn once there are two.
Baseline ==
  /\ step = "baseline"
  /\ Meter
  /\ \/ /\ begun
        /\ Begin("judge")
        /\ councilFirst' = coins[Number]
        /\ draws' = draws + 1
        /\ UNCHANGED results
     \/ Done("error", NotJudged) /\ UNCHANGED <<draws, councilFirst>>
  /\ UNCHANGED <<fixed, interrupted, started, report>>

\* What the judge says when it prefers one of the answers.
RawVerdict(prefers) ==
  IF prefers = "tie" THEN "tie"
  ELSE IF (prefers = "council") = councilFirst THEN "A" ELSE "B"

remapVerdict_OrderIgnored(raw) ==
  CASE raw = "tie" -> "tie"
    [] raw = "A"   -> "council"
    [] raw = "B"   -> "baseline"

remapVerdict(raw) ==
  CASE raw = "tie" -> "tie"
    [] raw = "A"   -> IF councilFirst THEN "council" ELSE "baseline"
    [] raw = "B"   -> IF councilFirst THEN "baseline" ELSE "council"

\* Compare: a call that fails, a reply that is not JSON and any other verdict
\* are errors.
Judge ==
  /\ step = "judge"
  /\ Meter
  /\ \/ \E prefers \in {"council", "baseline", "tie"} :
          begun /\ Done(remapVerdict(RawVerdict(prefers)), prefers)
     \/ Done("error", NotJudged)
  /\ UNCHANGED <<fixed, draws, councilFirst, interrupted, started, report>>

---------------------------------------------------------------------------
(* eval.Run and runBatch.                                                  *)

\* What was run so far is dropped.
Quit ==
  /\ step' = "done"
  /\ UNCHANGED <<begun, started>>

\* The context is looked at before each case.
Check ==
  /\ step = "check"
  /\ \/ interrupted /\ Quit
     \/ ~interrupted /\ Begin("council") /\ started' = cost
  /\ UNCHANGED <<fixed, draws, councilFirst, interrupted, cost, results, report>>

Pause_TimerOnly ==
  /\ step = "pause" /\ ~interrupted
  /\ step' = "check"
  /\ UNCHANGED <<fixed, draws, councilFirst, begun, interrupted, started, cost, results, report>>

\* A second, or until the interruption.
Pause ==
  /\ step = "pause"
  /\ \/ interrupted /\ Quit
     \/ step' = "check" /\ UNCHANGED <<begun, started>>
  /\ UNCHANGED <<fixed, draws, councilFirst, interrupted, cost, results, report>>

\* Aggregate: anything but the three verdicts is counted as an error.
Summary ==
  [v \in {"council", "baseline", "tie", "error"} |->
     Cardinality({i \in DOMAIN results : results[i].verdict = v})]

\* The report is written, or cannot be.
Report ==
  /\ step = "report"
  /\ report' \in {NoReport, [results |-> results, summary |-> Summary]}
  /\ step' = "done"
  /\ UNCHANGED <<fixed, draws, councilFirst, begun, interrupted, started, cost, results>>

\* SIGINT or SIGTERM.
Interrupt ==
  /\ step # "done" /\ ~interrupted
  /\ interrupted' = TRUE
  /\ UNCHANGED <<fixed, draws, councilFirst, step, begun, started, cost, results, report>>

Progress == Check \/ Council \/ Baseline \/ Judge \/ Pause \/ Report

Next == Progress \/ Interrupt

Spec == Init /\ [][Next]_vars

\* Calls end and the timer fires.
LiveSpec == Spec /\ WF_vars(Progress)

---------------------------------------------------------------------------
(* Properties.                                                             *)

Written == report # NoReport

\* "the judge's verdict is then remapped back to council/baseline" (eval.go:179)
\* and counted in "the four-bucket counter" (report.go:9): the summary says how
\* often the judge preferred whose answer, though it never knew whose it was,
\* and how many cases were not judged.
SummaryIsTrue ==
  Written =>
    LET Times(p) == Cardinality({i \in DOMAIN report.results : report.results[i].prefers = p})
    IN  report.summary = [council |-> Times("council"), baseline |-> Times("baseline"),
                          tie |-> Times("tie"), error |-> Times(NotJudged)]

\* "The same seed + same input file produces the same A/B-order assignments"
\* (eval.go:120): the order of an item of a batch is decided by the seed and by
\* nothing that happened before.  Of a suite that is so only as long as both
\* pipelines have answered every case: one that fails draws no number, and the
\* order of all later cases is another one.
Failed(i) == results[i].verdict = "error"
OrderIsReplayable ==
  \A i \in DOMAIN results :
    ~Failed(i) /\ (mode = "suite" => \A j \in 1 .. i - 1 : ~Failed(j)) =>
      results[i].councilFirst = coins[i]

\* A batch "Aborts if EVAL_MAX_COST_USD is exceeded" (main.go:191), so that the
\* budget is overrun by what one item costs at most; and an evaluation that
\* writes a report has run all its cases or gone over the budget: one that was
\* interrupted before its last case leaves none.
ReportIsComplete ==
  /\ started <= MaxCost
  /\ Written => Len(report.results) = total \/ cost > MaxCost

\* An evaluation ends, interrupted or not.
EvaluationEnds == <>(step = "done")

===========================================================================
