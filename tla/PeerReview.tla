----------------------------- MODULE PeerReview ----------------------------
(***************************************************************************)
(* The PeerReview strategy, runPeerReview of internal/council/runner.go:   *)
(* the members answer (Stage 1), those that did rank the anonymous answers *)
(* (Stage 2), the rankings are aggregated, and the chairman concludes      *)
(* (Stage 3).                                                              *)
(***************************************************************************)
EXTENDS Council, Rankings

CONSTANTS
  ReviewReplies,  \* bound: the rankings a reviewer may reply with, sequences
                  \* of labels, of Unknown ones too
  Unknown         \* a label that was not given out

ASSUME PeerReviewAssumption ==
  \A reply \in ReviewReplies : Len(reply) \in Nat /\ DOMAIN reply = 1 .. Len(reply)

VARIABLES
  rankings,   \* what each reviewer's StageTwoResult holds, by position
  reviewers,  \* the label of each reviewer
  responses,  \* the position whose answer labeledResponses has for each label
  aggregate   \* AggregateRankings and ConsensusW, by label

reviewVars == <<rankings, reviewers, responses, aggregate>>

PeersReview == ct.strategy = "peerReview"

PeerReviewInit ==
  /\ rankings = <<>>
  /\ reviewers = <<>>
  /\ responses = <<>>
  /\ aggregate = NoRankings

\* A set of positions in their order.
Seats(S) == [k \in 1 .. Cardinality(S) |-> CHOOSE p \in S : Cardinality({q \in S : q <= p}) = k]

\* The answer of the last of several members with the same label is shown.
LabeledResponses(S, of) ==
  [l \in {of[i] : i \in S} |-> Max({i \in S : of[i] = l})]

\* The answers in the order of the models: one reviewer for each.
PeerReviewStage1Done ==
  /\ PeersReview
  /\ Stage1Joined(ct.quorumMin, assignLabels(Answered), <<>>, "stage2")
  /\ IF phase' = "stage2"
     THEN /\ reviewers' = [k \in DOMAIN Seats(seated') |-> labels'.of[Seats(seated')[k]]]
          /\ responses' = LabeledResponses(seated', labels'.of)
          /\ slots' = [k \in DOMAIN reviewers' |-> Waiting]
          /\ rankings' = [k \in DOMAIN reviewers' |-> <<>>]
     ELSE UNCHANGED <<reviewers, responses, slots, rankings>>
  /\ UNCHANGED aggregate

\* The labels of a reply that an answer carries, in the order of the reply.
Known(reply) ==
  LET at == Seats({p \in DOMAIN reply : reply[p] \in Labels})
  IN  [k \in DOMAIN at |-> reply[at[k]]]

\* The goroutine of the k-th reviewer.  An error, a reply that does not parse
\* and one without rankings leave no ranking.
Review(k) ==
  /\ PeersReview /\ phase = "stage2"
  /\ \/ Write(k, "failed") /\ UNCHANGED rankings
     \/ \E reply \in ReviewReplies :
          Write(k, "ranked") /\ rankings' = [rankings EXCEPT ![k] = Known(reply)]
  /\ UNCHANGED <<configVars, ct, phase, seated, labels, events, outcome>>
  /\ UNCHANGED <<reviewers, responses, aggregate>>

\* The aggregate is over every label of labelToModel, whether an answer
\* carries it or not.
PeerReviewStage2Done ==
  /\ PeersReview /\ phase = "stage2"
  /\ Joined
  /\ aggregate' \in CalculateAggregateRankings(rankings, DOMAIN labels.toModel)
  /\ events' = Append(events, Event("stage2_complete", 0))
  /\ phase' = "stage3"
  /\ UNCHANGED <<configVars, ct, slots, seated, labels, outcome, rankings, reviewers, responses>>

PeerReviewStep ==
  \/ PeerReviewStage1Done
  \/ \E k \in DOMAIN slots : Review(k)
  \/ PeerReviewStage2Done

---------------------------------------------------------------------------
(* Properties.                                                             *)

Reviewed == aggregate # NoRankings

PeerReviewTypeOK ==
  /\ \A k \in DOMAIN rankings : ToSet(rankings[k]) \subseteq Labels
  /\ aggregate.w[1] \in 0 .. aggregate.w[2]

\* "All k Stage 1 responses with labels and model ids visible" go to the
\* chairman (docs/pipeline.md:398), and to the reviewers: no answer is hidden
\* behind another, and none of the labels ranked is without an answer.  Not so
\* for a model configured twice: both its answers go under one label.
EveryAnswerIsReviewed ==
  PeersReview /\ NoModelTwice /\ phase \in {"stage2", "stage3"} =>
    /\ {responses[l] : l \in DOMAIN responses} = seated
    /\ DOMAIN responses = DOMAIN labels.toModel

\* A label that every judge with an opinion ranks above another, none of them
\* listing a label twice, is above it in the aggregate; and W, "1.0 = perfect
\* agreement" (rankings.go:17), is 1 only if every reviewer gave the same
\* ranking of all the answers.  Not so where a ranking repeats a label, which
\* nothing prevents: its ranks exceed the number of answers, and the clamp then
\* reports agreement there is not.
ConsensusIsSound ==
  LET judges == {k \in DOMAIN rankings : rankings[k] # <<>>}
      Prefers(k, a, b) == \E p, q \in DOMAIN rankings[k] :
                            p < q /\ rankings[k][p] = a /\ rankings[k][q] = b
  IN  Reviewed /\ (\A k \in judges : IsInjective(rankings[k])) =>
        /\ \A i, j \in DOMAIN aggregate.order :
             i < j => ~(\A k \in judges : Prefers(k, aggregate.order[j], aggregate.order[i]))
        /\ aggregate.w[1] = aggregate.w[2] =>
             \A k \in DOMAIN rankings : /\ rankings[k] = rankings[1]
                                        /\ ToSet(rankings[k]) = DOMAIN labels.toModel

===========================================================================
