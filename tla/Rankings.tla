------------------------------ MODULE Rankings -----------------------------
(***************************************************************************)
(* CalculateAggregateRankings of internal/council/rankings.go.  Ranks are  *)
(* doubled, which makes the midrank (n + 1) / 2 an integer, and Kendall's  *)
(* W is a fraction; the code uses float64 for both.                        *)
(***************************************************************************)
EXTENDS Integers, Sequences, FiniteSets, SequencesExt

\* Twice the rank a judge gives a label: the last position at which the label
\* is listed counts, and the midrank when it is not listed.
TwiceRank(ranking, l, n) ==
  LET at == {p \in DOMAIN ranking : ranking[p] = l}
  IN  IF at = {} THEN n + 1 ELSE 2 * Max(at)

\* judges is a sequence of rankings, the empty one where a judge gave none.
TwiceRankSum(judges, l, n) ==
  SumFunction([j \in DOMAIN judges |-> TwiceRank(judges[j], l, n)])

\* Ascending by score; ties in any order, for sort.Slice is not stable.
RankedBefore(judges, a, b, n) ==
  TwiceRankSum(judges, a, n) <= TwiceRankSum(judges, b, n)

JudgeCount_WithRankingOnly(judges) == Cardinality({j \in DOMAIN judges : judges[j] # <<>>})

\* Every reviewer counts, those that gave no ranking too.
JudgeCount(judges) == Len(judges)

\* Twice the deviation from the mean rank sum, k * (n + 1) / 2.
TwiceDeviation(judges, l, n) == TwiceRankSum(judges, l, n) - JudgeCount(judges) * (n + 1)

\* Four times S, the sum of the squared deviations.
FourS(judges, labelSet, n) ==
  SumFunction([l \in labelSet |-> TwiceDeviation(judges, l, n) * TwiceDeviation(judges, l, n)])

NoRankings == [order |-> <<>>, w |-> <<0, 1>>]

\* The labels by score, and W = 12 S / (k^2 (n^3 - n)), clamped to 1.
CalculateAggregateRankings(judges, labelSet) ==
  LET n == Cardinality(labelSet)
      k == JudgeCount(judges)
      fourS == FourS(judges, labelSet, n)
      denominator == k * k * (n * n * n - n)
  IN  IF \/ denominator = 0
         \/ \A j \in DOMAIN judges : judges[j] = <<>>
      THEN {NoRankings}
      ELSE {[order |-> order,
             w     |-> IF 3 * fourS > denominator THEN <<1, 1>> ELSE <<3 * fourS, denominator>>] :
              order \in {o \in SetToSeqs(labelSet) :
                \A i, j \in DOMAIN o :
                  i < j => RankedBefore(judges, o[i], o[j], n)}}

===========================================================================
