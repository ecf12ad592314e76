------------------------------- MODULE Delphi ------------------------------
(***************************************************************************)
(* The Delphi strategy, internal/council/delphi.go: after Stage 1 the      *)
(* raters score the answers by a few criteria, round after round, each     *)
(* shown the statistics of the rounds before, until the means settle, the  *)
(* rounds are over or too few raters are left.                             *)
(*                                                                         *)
(* Scores run from 0 to Top here (0.0 to 1.0 in the code) and means are    *)
(* compared exactly, as fractions, where the code uses float64; standard   *)
(* deviations, which decide nothing, are left out.                         *)
(***************************************************************************)
EXTENDS CouncilRounds

CONSTANTS
  Criteria,   \* defaultDelphiCriteria
  Top,        \* bound: the number of steps of the score scale
  Threshold,  \* DelphiConvergenceThreshold, in tenths of a step
  Unscored    \* a criterion missing from the reply of a rater

\* A threshold of zero or less is replaced by the default before it is used.
ASSUME DelphiAssumption ==
  /\ Top \in Nat \ {0}
  /\ Threshold \in Nat \ {0}
  /\ IsFiniteSet(Criteria) /\ Criteria # {}

VARIABLES
  ratings,   \* the scores each rater gave in the round under way
  stats,     \* the statistics of each round that is over
  converged  \* DelphiPanel.Converged

delphiVars == <<ratings, stats, converged>>

RatedByPanel == ct.strategy = "delphi"

DelphiConfigured == ct.models # <<>> /\ ct.chairman

\* MaxDelphiRounds: 0 or less for 3.
DelphiRounds == IF ct.rounds <= 0 THEN 3 ELSE ct.rounds
DelphiNeed == Need(3)

\* What a rater may reply: no entry, or a number on or off the scale, for
\* each criterion.
RaterReplies == [Criteria -> {Unscored} \cup (-1 .. Top + 1)]

clamp_FloorOnly(v) == IF v < 0 THEN 0 ELSE v

clamp(v) == IF v < 0 THEN 0 ELSE IF v > Top THEN Top ELSE v

Scores(reply) ==
  [c \in Criteria |-> IF reply[c] = Unscored THEN 0 ELSE clamp(reply[c])]

NoScores == [c \in Criteria |-> 0]

DelphiInit ==
  /\ ratings = <<>>
  /\ stats = <<>>
  /\ converged = FALSE

DelphiStage1Done ==
  /\ RatedByPanel
  /\ Stage1Joined(DelphiNeed, assignLabels(Answered), <<>>, "stage2")
  /\ FirstRound(<<>>)
  /\ ratings' = [i \in alive' |-> NoScores]
  /\ UNCHANGED <<transcript, stats, converged>>

---------------------------------------------------------------------------
(* The rounds: runDelphiRound, computeDelphiStats and the loop.            *)

\* The goroutine of a rater: its scores, or "failed" for an error, a reply
\* that is not JSON or has no ratings.
Rate(i) ==
  /\ RatedByPanel /\ phase = "stage2"
  /\ \/ Write(i, "failed") /\ UNCHANGED ratings
     \/ \E reply \in RaterReplies :
          Write(i, "rated") /\ ratings' = [ratings EXCEPT ![i] = Scores(reply)]
  /\ UNCHANGED <<configVars, ct, phase, seated, labels, events, outcome>>
  /\ UNCHANGED <<roundVars, stats, converged>>

\* The raters of the next round are those that rated in this one.
Rated == With("rated")

\* The mean of a criterion is sum / raters; without raters there is none.
computeDelphiStats ==
  [raters |-> Cardinality(Rated),
   sum    |-> [c \in Criteria |-> SumFunction([i \in Rated |-> ratings[i][c]])]]

HasMeans(now) == now.raters > 0

Abs(n) == IF n < 0 THEN -n ELSE n

\* |mean(now) - mean(before)| < Threshold / 10, multiplied out.
Settled(now, before, c) ==
  10 * Abs(now.sum[c] * before.raters - before.sum[c] * now.raters)
    < Threshold * now.raters * before.raters

Converges_AnyCriterion(now, r) ==
  /\ r >= 2
  /\ HasMeans(now) /\ HasMeans(Last(stats))
  /\ \E c \in Criteria : Settled(now, Last(stats), c)

\* Every criterion has settled since the round before.
Converges(now, r) ==
  /\ r >= 2
  /\ HasMeans(now) /\ HasMeans(Last(stats))
  /\ \A c \in Criteria : Settled(now, Last(stats), c)

\* The loop ends with the last round, or once the means have settled.
Finishes(now) == round = DelphiRounds \/ Converges(now, round)

\* Convergence is looked at after the raters have been counted.
DelphiRoundDone ==
  LET now == computeDelphiStats
  IN  /\ RatedByPanel
      /\ RoundEnds(Rated, DelphiNeed, Finishes(now))
      /\ transcript' = Append(transcript, Rated)
      /\ previous' = [l \in DOMAIN previous \cup LabelsOf(Rated) |->
                        IF l \in LabelsOf(Rated) THEN round ELSE previous[l]]
      /\ stats' = Append(stats, now)
      /\ converged' = (phase' = "stage3" /\ Converges(now, round))
      /\ ratings' = [i \in alive' |-> NoScores]

DelphiStep ==
  \/ DelphiStage1Done
  \/ \E i \in DOMAIN slots : Rate(i)
  \/ DelphiRoundDone

---------------------------------------------------------------------------
(* Properties.                                                             *)

DelphiTypeOK ==
  \A i \in DOMAIN stats : \A c \in Criteria :
    stats[i].sum[c] \in 0 .. Top * stats[i].raters

\* The means of rounds i - 1 and i differ by less than the threshold, by every
\* criterion.
Agree(i) ==
  /\ stats[i].raters > 0 /\ stats[i - 1].raters > 0
  /\ \A c \in Criteria : Settled(stats[i], stats[i - 1], c)

\* A run that claims convergence stopped at the first round whose means
\* agree with the round before, and a run that does not never passed one.
ConvergedAtFirstAgreement ==
  RatedByPanel /\ phase = "stage3" =>
    LET agreements == {i \in 2 .. Len(stats) : Agree(i)}
    IN  /\ converged <=> agreements # {}
        /\ agreements \subseteq {Len(stats)}
        /\ ~converged => Len(stats) = DelphiRounds

===========================================================================
