------------------------- MODULE Evaluation_proofs -------------------------
(***************************************************************************)
(* Proofs about the evaluation harness, for any number of cases, any       *)
(* budget, any costs of the calls and any numbers the generators yield.    *)
(***************************************************************************)
EXTENDS Evaluation, TLAPS

Steps == {"check", "council", "baseline", "judge", "pause", "report", "done"}
Verdicts == {"council", "baseline", "tie", "error"}

\* What a case that is over has been recorded with.
Result == [verdict : Verdicts, prefers : {"council", "baseline", "tie", NotJudged},
           councilFirst : BOOLEAN, started : Nat]

(***************************************************************************)
(* The types, and where the loop may stand: a case is begun only within    *)
(* the budget and while there is one left, and a report is written only    *)
(* when the cases are over or the budget is.                               *)
(***************************************************************************)
EvaluationTypeOK ==
  /\ mode \in {"suite", "batch"}
  /\ total \in Nat \ {0}
  /\ coins \in [1 .. total -> BOOLEAN]
  /\ draws \in Nat
  /\ councilFirst \in BOOLEAN
  /\ step \in Steps
  /\ started \in Nat
  /\ cost \in Nat
  /\ results \in Seq(Result)

LoopInv ==
  /\ started <= MaxCost
  /\ step \in {"check", "pause"} => cost <= MaxCost
  /\ step \notin {"report", "done"} => Len(results) < total
  /\ step = "report" => Len(results) = total \/ cost > MaxCost
  /\ step # "done" => report = NoReport

\* The judge's verdict, once remapped, is the answer it preferred.
Honest(r) ==
  /\ r.verdict = "error" <=> r.prefers = NotJudged
  /\ r.verdict # "error" => r.verdict = r.prefers

\* Every case so far has been judged.
AllJudged == \A i \in DOMAIN results : ~Failed(i)

\* The numbers drawn: one for each case judged, and one for the case at the
\* judge; the order of that case is decided by its number.
OrderInv ==
  /\ \A i \in DOMAIN results : Honest(results[i])
  /\ draws <= Len(results) + 1
  /\ step # "judge" => draws <= Len(results)
  /\ mode = "suite" /\ AllJudged =>
       /\ step = "judge" => draws = Len(results) + 1
       /\ step # "judge" => draws = Len(results)
  /\ step = "judge" /\ (mode = "suite" => AllJudged) => councilFirst = coins[Case]

EvaluationInv == EvaluationTypeOK /\ LoopInv /\ OrderInv /\ OrderIsReplayable

---------------------------------------------------------------------------
(* Lemmas.                                                                 *)

\* Metering only adds.
LEMMA MeterAdds ==
  ASSUME EvaluationTypeOK, Meter
  PROVE  cost' \in Nat /\ cost' >= cost
BY EvaluationAssumption DEF EvaluationTypeOK, Meter

\* A case that ends is the next one in the results, and the loop goes where
\* the budget and the number of cases allow.
LEMMA DoneKeepsLoop ==
  ASSUME EvaluationTypeOK, LoopInv, step \notin {"report", "done"},
         NEW v \in Verdicts, NEW p \in {"council", "baseline", "tie", NotJudged},
         Meter, Done(v, p),
         UNCHANGED <<fixed, interrupted, started, report>>
  PROVE  /\ results' \in Seq(Result)
         /\ Len(results') = Len(results) + 1
         /\ \A i \in 1 .. Len(results) : results'[i] = results[i]
         /\ results'[Case] = [verdict |-> v, prefers |-> p,
                              councilFirst |-> councilFirst, started |-> started]
         /\ step' \in {"check", "pause", "report"}
         /\ LoopInv'
<1> DEFINE r == [verdict |-> v, prefers |-> p, councilFirst |-> councilFirst,
                 started |-> started]
<1>1. r \in Result /\ results' = Append(results, r)
  BY DEF EvaluationTypeOK, Done, Result
<1> HIDE DEF r
<1>2. /\ results' \in Seq(Result)
      /\ Len(results') = Len(results) + 1
      /\ \A i \in 1 .. Len(results) : results'[i] = results[i]
      /\ results'[Len(results) + 1] = r
  BY <1>1 DEF EvaluationTypeOK
<1>3. cost' \in Nat
  BY MeterAdds
<1>4. /\ Len(results) \in Nat /\ Len(results) < total
      /\ step' = IF cost' > MaxCost \/ Len(results) + 1 = total THEN "report"
                 ELSE IF mode = "batch" THEN "pause" ELSE "check"
  BY DEF EvaluationTypeOK, LoopInv, Done, OverBudget, Case
<1>5. step' \in {"check", "pause", "report"}
  BY <1>4
<1>6. LoopInv'
  BY <1>2, <1>3, <1>4, EvaluationAssumption DEF EvaluationTypeOK, LoopInv, fixed
<1> QED BY <1>2, <1>5, <1>6 DEF Case, r

\* What the judge says of a hidden order, once remapped, is what it preferred.
LEMMA VerdictIsHonest ==
  ASSUME councilFirst \in BOOLEAN, NEW p \in {"council", "baseline", "tie"}
  PROVE  remapVerdict(RawVerdict(p)) = p
BY DEF remapVerdict, RawVerdict

\* A case that ends in an error: the order of the later cases of a suite is no
\* longer that of their numbers.
LEMMA ErrorKeepsOrder ==
  ASSUME EvaluationInv, step \notin {"report", "done"}, Meter, Done("error", NotJudged),
         UNCHANGED <<fixed, draws, interrupted, started, report>>
  PROVE  OrderInv' /\ OrderIsReplayable'
<1>1. /\ results' \in Seq(Result)
      /\ Len(results') = Len(results) + 1
      /\ \A i \in 1 .. Len(results) : results'[i] = results[i]
      /\ results'[Case].verdict = "error" /\ results'[Case].prefers = NotJudged
      /\ step' # "judge"
  BY DoneKeepsLoop DEF EvaluationInv, Verdicts
<1>2. /\ Len(results) \in Nat /\ DOMAIN results = 1 .. Len(results)
      /\ DOMAIN results' = 1 .. Len(results) + 1
      /\ Case = Len(results) + 1
  BY <1>1 DEF EvaluationInv, EvaluationTypeOK, Case
<1>3. \A i \in DOMAIN results' : Honest(results'[i])
  BY <1>1, <1>2 DEF EvaluationInv, OrderInv, Honest
<1>4. ~AllJudged'
  BY <1>1, <1>2 DEF AllJudged, Failed
<1>5. OrderIsReplayable'
  BY <1>1, <1>2 DEF EvaluationInv, OrderIsReplayable, Failed, fixed
<1>6. draws' <= Len(results')
  <2>1. draws' = draws /\ draws \in Nat
    BY DEF EvaluationInv, EvaluationTypeOK
  <2>2. draws <= Len(results) + 1
    BY <1>2, <2>1 DEF EvaluationInv, OrderInv
  <2> QED BY <1>1, <1>2, <2>1, <2>2
<1>7. Len(results') \in Nat /\ draws' \in Nat
  BY <1>1 DEF EvaluationInv, EvaluationTypeOK
<1>8. OrderInv'
  BY <1>1, <1>3, <1>4, <1>6, <1>7 DEF OrderInv
<1> QED BY <1>5, <1>8

\* A case that is judged, under the number its order was decided by.
LEMMA JudgedKeepsOrder ==
  ASSUME EvaluationInv, step = "judge", Meter,
         NEW p \in {"council", "baseline", "tie"}, Done(remapVerdict(RawVerdict(p)), p),
         UNCHANGED <<fixed, draws, interrupted, started, report>>
  PROVE  OrderInv' /\ OrderIsReplayable'
<1> DEFINE v == remapVerdict(RawVerdict(p))
<1>1. v = p
  BY VerdictIsHonest DEF EvaluationInv, EvaluationTypeOK
<1>2. v \in Verdicts /\ p \in {"council", "baseline", "tie", NotJudged}
  BY <1>1 DEF Verdicts
<1> HIDE DEF v
<1>3. /\ results' \in Seq(Result)
      /\ Len(results') = Len(results) + 1
      /\ \A i \in 1 .. Len(results) : results'[i] = results[i]
      /\ results'[Case] = [verdict |-> v, prefers |-> p,
                           councilFirst |-> councilFirst, started |-> started]
      /\ step' # "judge"
  BY <1>2, DoneKeepsLoop DEF EvaluationInv, v
<1>4. /\ Len(results) \in Nat /\ DOMAIN results = 1 .. Len(results)
      /\ DOMAIN results' = 1 .. Len(results) + 1
      /\ Case = Len(results) + 1
  BY <1>3 DEF EvaluationInv, EvaluationTypeOK, Case
<1>5. Honest(results'[Case])
  <2>1. results'[Case].verdict = p /\ results'[Case].prefers = p
    BY <1>1, <1>3
  <2>2. p # "error" /\ p # NotJudged
    BY DEF NotJudged
  <2> QED BY <2>1, <2>2 DEF Honest
<1>6. \A i \in DOMAIN results' : Honest(results'[i])
  BY <1>3, <1>4, <1>5 DEF EvaluationInv, OrderInv
<1>7. AllJudged' => AllJudged
  BY <1>3, <1>4 DEF AllJudged, Failed
<1>8. mode = "suite" /\ AllJudged => draws = Len(results) + 1
  BY DEF EvaluationInv, OrderInv
<1>9. \A i \in DOMAIN results' :
        /\ ~Failed(i)'
        /\ mode = "suite" => \A j \in 1 .. i - 1 : ~Failed(j)'
        => results'[i].councilFirst = coins[i]
  <2> TAKE i \in DOMAIN results'
  <2> HAVE /\ ~Failed(i)'
           /\ mode = "suite" => \A j \in 1 .. i - 1 : ~Failed(j)'
  <2>1. CASE i = Case
    <3>1. mode = "suite" => AllJudged
      BY <1>3, <1>4, <2>1 DEF AllJudged, Failed
    <3> QED BY <1>3, <2>1, <3>1 DEF EvaluationInv, OrderInv
  <2>2. CASE i # Case
    BY <1>3, <1>4, <2>2 DEF EvaluationInv, OrderIsReplayable, Failed
  <2> QED BY <2>1, <2>2
<1>10. OrderIsReplayable'
  BY <1>9 DEF OrderIsReplayable, fixed
<1>11. draws' <= Len(results')
  BY <1>3, <1>4 DEF EvaluationInv, EvaluationTypeOK, OrderInv
<1>12. Len(results') \in Nat /\ draws' \in Nat
  BY <1>3 DEF EvaluationInv, EvaluationTypeOK
<1>13. mode' = "suite" /\ AllJudged' => draws' = Len(results')
  BY <1>3, <1>7, <1>8 DEF fixed
<1>14. OrderInv'
  BY <1>3, <1>6, <1>11, <1>12, <1>13 DEF OrderInv
<1> QED BY <1>10, <1>14

---------------------------------------------------------------------------
(* Every step preserves the invariant.                                     *)

\* A call that ends.
LEMMA CallsPreserve ==
  ASSUME EvaluationInv, Council \/ Baseline \/ Judge
  PROVE  EvaluationInv'
<1> USE DEF EvaluationInv
<1>1. Meter /\ cost' \in Nat /\ cost' >= cost
  BY MeterAdds DEF Council, Baseline, Judge
<1>2. ASSUME step \in {"council", "baseline", "judge"}, Done("error", NotJudged),
             UNCHANGED <<fixed, draws, councilFirst, interrupted, started, report>>
      PROVE  EvaluationInv'
  <2>1. OrderInv' /\ OrderIsReplayable'
    BY <1>1, <1>2, ErrorKeepsOrder
  <2>2. results' \in Seq(Result) /\ step' \in {"check", "pause", "report"} /\ LoopInv'
    BY <1>1, <1>2, DoneKeepsLoop DEF Verdicts
  <2> QED BY <1>1, <1>2, <2>1, <2>2 DEF EvaluationTypeOK, Steps, fixed
<1>3. CASE Council
  <2>1. CASE begun /\ Begin("baseline") /\ UNCHANGED results
    BY <1>1, <1>3, <2>1
    DEF Council, Begin, EvaluationTypeOK, LoopInv, OrderInv, OrderIsReplayable, AllJudged, Failed,
        Steps, fixed
  <2> QED BY <1>2, <1>3, <2>1 DEF Council
<1>4. CASE Baseline
  <2>1. CASE /\ begun
             /\ Begin("judge")
             /\ councilFirst' = coins[Number]
             /\ draws' = draws + 1
             /\ UNCHANGED results
    <3>1. step = "baseline" /\ UNCHANGED <<fixed, interrupted, started, report>> /\ step' = "judge"
      BY <1>4, <2>1 DEF Baseline, Begin
    <3>2. mode = "suite" /\ AllJudged => draws = Len(results)
      BY <3>1 DEF OrderInv
    <3>3. EvaluationTypeOK'
      <4>1. Number \in 1 .. total
        BY <3>1 DEF EvaluationTypeOK, LoopInv, OrderInv, Number, Case
      <4> QED BY <1>1, <2>1, <3>1, <4>1 DEF EvaluationTypeOK, Steps, fixed
    <3>4. LoopInv'
      BY <1>1, <2>1, <3>1 DEF LoopInv, fixed
    <3>5. /\ Len(results) \in Nat /\ draws \in Nat
          /\ results' = results /\ mode' = mode /\ coins' = coins
      BY <2>1, <3>1 DEF EvaluationTypeOK, fixed
    <3>6. AllJudged' = AllJudged /\ Case' = Case
      BY <3>5 DEF AllJudged, Failed, Case
    <3>7. (mode = "suite" => AllJudged) => Number = Case
      BY <3>2 DEF Number, Case
    <3>8. OrderInv'
      BY <2>1, <3>1, <3>2, <3>5, <3>6, <3>7 DEF OrderInv
    <3>9. OrderIsReplayable'
      BY <3>5 DEF OrderIsReplayable, Failed
    <3> QED BY <3>3, <3>4, <3>8, <3>9
  <2> QED BY <1>2, <1>4, <2>1 DEF Baseline
<1>5. CASE Judge
  <2>1. ASSUME NEW p \in {"council", "baseline", "tie"},
               begun /\ Done(remapVerdict(RawVerdict(p)), p)
        PROVE  EvaluationInv'
    <3>1. /\ step = "judge"
          /\ UNCHANGED <<fixed, draws, councilFirst, interrupted, started, report>>
      BY <1>5 DEF Judge
    <3>2. OrderInv' /\ OrderIsReplayable'
      BY <1>1, <2>1, <3>1, JudgedKeepsOrder
    <3>3. remapVerdict(RawVerdict(p)) \in Verdicts
      BY VerdictIsHonest DEF EvaluationTypeOK, Verdicts
    <3>4. results' \in Seq(Result) /\ step' \in {"check", "pause", "report"} /\ LoopInv'
      BY <1>1, <2>1, <3>1, <3>3, DoneKeepsLoop
    <3> QED BY <1>1, <3>1, <3>2, <3>4 DEF EvaluationTypeOK, Steps, fixed
  <2> QED BY <1>2, <1>5, <2>1 DEF Judge
<1> QED BY <1>3, <1>4, <1>5

\* The loop, the report and the interruption.
LEMMA LoopPreserves ==
  ASSUME EvaluationInv, Check \/ Pause \/ Report \/ Interrupt \/ UNCHANGED vars
  PROVE  EvaluationInv'
<1>1. UNCHANGED <<mode, total, coins, draws, councilFirst, cost, results>>
  BY DEF Check, Pause, Report, Interrupt, vars, fixed
<1>2. \/ step # "judge" /\ step' # "judge"
      \/ step' = step
  BY DEF Check, Pause, Report, Interrupt, vars, Quit, Begin
<1>3. AllJudged' = AllJudged /\ Case' = Case
  BY <1>1 DEF AllJudged, Failed, Case
<1>4. OrderInv' /\ OrderIsReplayable'
  BY <1>1, <1>2, <1>3 DEF EvaluationInv, OrderInv, OrderIsReplayable, Failed
<1>5. EvaluationTypeOK'
  BY <1>1
  DEF EvaluationInv, EvaluationTypeOK, Check, Pause, Report, Interrupt, vars, Quit, Begin, Steps
<1>6. LoopInv'
  BY <1>1 DEF EvaluationInv, LoopInv, Check, Pause, Report, Interrupt, vars, Quit, Begin
<1> QED BY <1>4, <1>5, <1>6 DEF EvaluationInv

\* The invariant holds of every suite and every batch.
LEMMA EvaluationInvariant == Spec => []EvaluationInv
<1>1. Init => EvaluationInv
  <2> SUFFICES ASSUME Init PROVE EvaluationInv
    OBVIOUS
  <2>1. results = <<>> /\ <<>> \in Seq(Result) /\ Len(<<>>) = 0
    BY DEF Init
  <2>2. EvaluationTypeOK
    <3>1. total \in Nat \ {0} /\ draws \in Nat /\ started \in Nat /\ cost \in Nat
      BY EvaluationAssumption DEF Init
    <3>2. mode \in {"suite", "batch"} /\ councilFirst \in BOOLEAN /\ step \in Steps
      BY DEF Init, Steps
    <3>3. coins \in [1 .. total -> BOOLEAN]
      BY DEF Init
    <3> QED BY <2>1, <3>1, <3>2, <3>3 DEF EvaluationTypeOK
  <2>3. LoopInv
    BY <2>1, EvaluationAssumption DEF Init, LoopInv
  <2>4. OrderInv /\ OrderIsReplayable
    BY <2>1 DEF Init, OrderInv, OrderIsReplayable
  <2> QED BY <2>2, <2>3, <2>4 DEF EvaluationInv
<1>2. EvaluationInv /\ [Next]_vars => EvaluationInv'
  BY CallsPreserve, LoopPreserves DEF Next, Progress
<1> QED BY <1>1, <1>2, PTL DEF Spec

---------------------------------------------------------------------------
(* The theorems.                                                           *)

\* The order in which the judge saw the answers of a case that was judged is
\* the one its number decides: in a batch always, in a suite as long as every
\* case before it was judged too (randomizeAB, runBatch).
THEOREM OrdersReplay == Spec => []OrderIsReplayable
BY EvaluationInvariant, PTL DEF EvaluationInv

\* No case is begun over the budget, and a report is never short of cases
\* unless the budget is spent (runBatch, eval.Run).
THEOREM ReportsAreComplete == Spec => []ReportIsComplete
<1>1. Init => ReportIsComplete
  BY EvaluationAssumption DEF Init, ReportIsComplete, Written
<1>2. EvaluationInv /\ EvaluationInv' /\ ReportIsComplete /\ [Next]_vars => ReportIsComplete'
  <2> SUFFICES ASSUME EvaluationInv, EvaluationInv', ReportIsComplete, [Next]_vars
               PROVE  ReportIsComplete'
    OBVIOUS
  <2>1. started' <= MaxCost
    BY DEF EvaluationInv, LoopInv
  <2>2. CASE step = "report" /\ Report
    <3>1. Len(results) = total \/ cost > MaxCost
      BY <2>2 DEF EvaluationInv, LoopInv
    <3>2. report' = NoReport \/ report'.results = results
      BY <2>2 DEF Report
    <3> QED BY <2>1, <2>2, <3>1, <3>2 DEF ReportIsComplete, Written, Report, fixed
  <2>3. CASE UNCHANGED vars
    BY <2>3 DEF ReportIsComplete, Written, vars
  <2>4. CASE Check \/ Council \/ Baseline \/ Judge \/ Pause \/ Interrupt
    <3>1. step # "done" /\ report' = report
      BY <2>4 DEF Check, Council, Baseline, Judge, Pause, Interrupt
    <3> QED BY <2>1, <3>1 DEF EvaluationInv, LoopInv, ReportIsComplete, Written
  <2> QED BY <2>2, <2>3, <2>4 DEF Next, Progress, Report
<1> QED BY <1>1, <1>2, EvaluationInvariant, PTL DEF Spec

\* The summary of a report counts how often the judge preferred whose answer
\* (Aggregate, remapVerdict).
THEOREM SummariesAreTrue == Spec => []SummaryIsTrue
<1>1. Init => SummaryIsTrue
  BY DEF Init, SummaryIsTrue, Written
<1>2. EvaluationInv /\ SummaryIsTrue /\ [Next]_vars => SummaryIsTrue'
  <2> SUFFICES ASSUME EvaluationInv, SummaryIsTrue, [Next]_vars
               PROVE  SummaryIsTrue'
    OBVIOUS
  <2>1. CASE Report /\ report' # NoReport
    <3> DEFINE Times(p) == Cardinality({i \in DOMAIN results : results[i].prefers = p})
               Buckets(v) == Cardinality({i \in DOMAIN results : results[i].verdict = v})
    <3>1. report' = [results |-> results, summary |-> Summary]
      BY <2>1 DEF Report
    <3>2. \A i \in DOMAIN results : Honest(results[i]) /\ results[i] \in Result
      BY DEF EvaluationInv, EvaluationTypeOK, OrderInv
    <3>3. ASSUME NEW v \in {"council", "baseline", "tie"}
          PROVE  {i \in DOMAIN results : results[i].verdict = v}
                   = {i \in DOMAIN results : results[i].prefers = v}
      BY <3>2 DEF Honest, Result, NotJudged
    <3>4. {i \in DOMAIN results : results[i].verdict = "error"}
            = {i \in DOMAIN results : results[i].prefers = NotJudged}
      BY <3>2 DEF Honest
    <3>5. /\ Buckets("council") = Times("council") /\ Buckets("baseline") = Times("baseline")
          /\ Buckets("tie") = Times("tie") /\ Buckets("error") = Times(NotJudged)
      BY <3>3, <3>4
    <3>6. Summary = [council |-> Times("council"), baseline |-> Times("baseline"),
                     tie |-> Times("tie"), error |-> Times(NotJudged)]
      <4>1. Summary = [v \in {"council", "baseline", "tie", "error"} |-> Buckets(v)]
        BY DEF Summary
      <4> HIDE DEF Times, Buckets
      <4>2. [v \in {"council", "baseline", "tie", "error"} |-> Buckets(v)]
              = [council |-> Buckets("council"), baseline |-> Buckets("baseline"),
                 tie |-> Buckets("tie"), error |-> Buckets("error")]
        OBVIOUS
      <4> QED BY <3>5, <4>1, <4>2
    <3> QED BY <3>1, <3>6 DEF SummaryIsTrue
  <2>2. CASE report' = NoReport
    BY <2>2 DEF SummaryIsTrue, Written
  <2>3. CASE report' = report
    BY <2>3 DEF SummaryIsTrue, Written
  <2> QED
    BY <2>1, <2>2, <2>3 DEF Next, Progress, Check, Council, Baseline, Judge, Pause, Interrupt, vars
<1> QED BY <1>1, <1>2, EvaluationInvariant, PTL DEF Spec

---------------------------------------------------------------------------
(* Every step is one towards the end.  A case takes at most five steps,    *)
(* its pause among them, which comes after the case is over.               *)

StepsOfCase ==
  [check |-> 4, council |-> 3, baseline |-> 2, judge |-> 1, pause |-> 5, report |-> 1,
   done |-> 0]

Signals == IF interrupted THEN 0 ELSE 1
StepsAhead ==
  IF step = "done" THEN Signals
  ELSE 5 * (total - Len(results)) + StepsOfCase[step] + Signals

InterruptedInv ==
  /\ interrupted \in BOOLEAN
  /\ Len(results) <= total

\* There are never more results than cases, and a signal counts once.
LEMMA InterruptedStep ==
  EvaluationInv /\ InterruptedInv /\ [Next]_vars => InterruptedInv'
<1> SUFFICES ASSUME EvaluationInv, InterruptedInv, [Next]_vars PROVE InterruptedInv'
  OBVIOUS
<1>1. ASSUME NEW v, NEW p, Done(v, p), UNCHANGED <<fixed, interrupted>>,
             step \notin {"report", "done"}
      PROVE  InterruptedInv'
  <2>1. Len(results') = Len(results) + 1 /\ Len(results) < total
    BY <1>1 DEF Done, EvaluationInv, EvaluationTypeOK, LoopInv
  <2>2. QED
    BY <1>1, <2>1 DEF InterruptedInv, EvaluationInv, EvaluationTypeOK, fixed
<1>2. CASE UNCHANGED <<fixed, results>> /\ interrupted' \in BOOLEAN
  BY <1>2 DEF InterruptedInv, fixed
<1>3. QED
  BY <1>1, <1>2 DEF Next, Progress, Check, Council, Baseline, Judge, Pause, Report, Interrupt,
                    InterruptedInv, vars

\* A case that ends takes its share of the steps ahead with it.
LEMMA DoneGetsOn ==
  ASSUME EvaluationInv, InterruptedInv, step \in {"council", "baseline", "judge"},
         NEW v, NEW p, Done(v, p), UNCHANGED <<fixed, interrupted>>
  PROVE  StepsAhead' < StepsAhead
<1>1. /\ Len(results') = Len(results) + 1 /\ Len(results) \in Nat
      /\ total' = total /\ total \in Nat
  BY DEF Done, EvaluationInv, EvaluationTypeOK, fixed
<1>2. step' \in {"check", "pause", "report"}
  BY DEF Done
<1>3. StepsOfCase[step] >= 1 /\ StepsOfCase[step] \in Nat
  BY DEF StepsOfCase
<1>4. StepsOfCase[step'] <= 5 /\ StepsOfCase[step'] \in Nat
  BY <1>2 DEF StepsOfCase
<1>5. Signals' = Signals /\ Signals \in Nat
  BY DEF Signals
<1>6. StepsAhead = 5 * (total - Len(results)) + StepsOfCase[step] + Signals
  BY DEF StepsAhead
<1>7. StepsAhead' = 5 * (total - (Len(results) + 1)) + StepsOfCase[step'] + Signals
  BY <1>1, <1>2, <1>5 DEF StepsAhead
<1>8. QED
  BY <1>1, <1>3, <1>4, <1>5, <1>6, <1>7

\* No evaluation goes on for ever, whatever the calls cost and whichever of
\* them fail: from its start every step, a signal among them, leaves fewer
\* steps ahead.
THEOREM EvaluationsGetOn == Spec => [](StepsAhead \in Nat) /\ [][StepsAhead' < StepsAhead]_vars
<1>1. Init => InterruptedInv
  <2> SUFFICES ASSUME Init PROVE InterruptedInv
    OBVIOUS
  <2>1. total \in Nat /\ Len(results) = 0
    BY EvaluationAssumption DEF Init
  <2>2. Len(results) <= total
    BY <2>1
  <2>3. interrupted \in BOOLEAN
    BY DEF Init
  <2>4. QED
    BY <2>2, <2>3 DEF InterruptedInv
<1>2. EvaluationInv /\ InterruptedInv => StepsAhead \in Nat
  <2> SUFFICES ASSUME EvaluationInv, InterruptedInv PROVE StepsAhead \in Nat
    OBVIOUS
  <2>1. StepsOfCase[step] \in Nat /\ Len(results) \in Nat /\ total \in Nat
    BY DEF EvaluationInv, EvaluationTypeOK, Steps, StepsOfCase
  <2>2. Signals \in Nat /\ Len(results) <= total
    BY DEF Signals, InterruptedInv
  <2>3. QED
    BY <2>1, <2>2 DEF StepsAhead
<1>3. EvaluationInv /\ InterruptedInv /\ Next => StepsAhead' < StepsAhead
  <2> SUFFICES ASSUME EvaluationInv, InterruptedInv, Next PROVE StepsAhead' < StepsAhead
    OBVIOUS
  <2>1. /\ Len(results) \in Nat /\ total \in Nat /\ Len(results) <= total
        /\ interrupted \in BOOLEAN
    BY DEF EvaluationInv, EvaluationTypeOK, InterruptedInv
  <2>2. CASE Interrupt
    <3>1. /\ step # "done" /\ UNCHANGED <<step, total, results>>
          /\ Signals = 1 /\ Signals' = 0
      BY <2>2 DEF Interrupt, fixed, Signals
    <3>2. StepsOfCase[step] \in Nat
      BY DEF EvaluationInv, EvaluationTypeOK, Steps, StepsOfCase
    <3>3. PICK n \in Int : n = 5 * (total - Len(results)) + StepsOfCase[step]
      BY <2>1, <3>2
    <3>4. StepsAhead = n + 1 /\ StepsAhead' = n + 0
      BY <3>1, <3>3 DEF StepsAhead
    <3>5. QED
      BY <3>4
  <2>3. CASE \E v, p : Done(v, p) /\ UNCHANGED <<fixed, interrupted>>
                                  /\ step \in {"council", "baseline", "judge"}
    BY <2>3, DoneGetsOn
  <2>4. CASE Check \/ Pause \/ Report
    BY <2>1, <2>4 DEF Check, Pause, Report, Quit, Begin, fixed, StepsAhead, StepsOfCase, Signals
  <2>5. CASE /\ UNCHANGED <<fixed, interrupted, results>>
             /\ \/ step = "council" /\ step' = "baseline"
                \/ step = "baseline" /\ step' = "judge"
    BY <2>1, <2>5 DEF fixed, StepsAhead, StepsOfCase, Signals
  <2>6. QED
    BY <2>2, <2>3, <2>4, <2>5 DEF Next, Progress, Council, Baseline, Judge, Begin
<1>4. QED
  BY EvaluationInvariant, InterruptedStep, <1>1, <1>2, <1>3, PTL DEF Spec

===========================================================================
