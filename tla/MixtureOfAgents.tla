-------------------------- MODULE MixtureOfAgents --------------------------
(***************************************************************************)
(* The MixtureOfAgents strategy, internal/council/moa.go: the aggregators  *)
(* each read all the answers of the proposers, and the refiner writes the  *)
(* final answer from what the aggregators wrote.  Proposers are Stage 1.   *)
(***************************************************************************)
EXTENDS Council

VARIABLE drafts  \* the aggregators whose output the refiner is given

Mixes == ct.strategy = "mixture"

MixtureConfigured == ct.proposers # <<>> /\ ct.aggregators # <<>> /\ ct.refiner

MixtureInit == drafts = {}

\* An aggregator has a label of its own, by position.
MixtureStage1Done ==
  /\ Mixes
  /\ Stage1Joined(ct.quorumMin, assignLabels(Answered), <<>>, "stage2")
  /\ slots' = IF phase' = "stage2" THEN [a \in DOMAIN ct.aggregators |-> Waiting] ELSE slots
  /\ UNCHANGED drafts

\* The goroutine of an aggregator: a draft, perhaps an empty one, or an error.
Aggregate(a) ==
  /\ Mixes /\ phase = "stage2"
  /\ \E result \in {"draft", "empty", "failed"} : Write(a, result)
  /\ UNCHANGED <<configVars, ct, phase, seated, labels, events, outcome, drafts>>

SuccessfulAggregators == {a \in DOMAIN slots : slots[a] = "draft"}

\* The second quorum: one draft.
MixtureStage2Done ==
  /\ Mixes /\ phase = "stage2"
  /\ Joined
  /\ \/ /\ SuccessfulAggregators # {}
        /\ drafts' = SuccessfulAggregators
        /\ events' = Append(events, Event("stage2_complete", 0))
        /\ phase' = "stage3"
        /\ UNCHANGED outcome
     \/ /\ SuccessfulAggregators = {}
        /\ Return("noAggregator")
        /\ UNCHANGED <<events, drafts>>
  /\ UNCHANGED <<configVars, ct, slots, seated, labels>>

MixtureStep ==
  \/ MixtureStage1Done
  \/ \E a \in DOMAIN slots : Aggregate(a)
  \/ MixtureStage2Done

===========================================================================
