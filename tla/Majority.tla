------------------------------ MODULE Majority -----------------------------
(***************************************************************************)
(* The Majority strategy, internal/council/majority.go: the answers that   *)
(* are the same once normalised form a cluster, and the cluster with the   *)
(* most votes is the final answer.  A tie is for the chairman to break,    *)
(* and an error where the council type has none.                           *)
(***************************************************************************)
EXTENDS Council

CONSTANTS
  Answers,   \* bound: what normaliseAnswer may make of the answers, as naturals
             \* in the order of their Representatives
  NoAnswer   \* no answer was emitted verbatim

ASSUME MajorityAssumption == Answers \subseteq Nat

VARIABLES
  vote,     \* the answer of each position
  verbatim  \* the answer stage3_complete carries when no model is called

majorityVars == <<vote, verbatim>>

ByMajority == ct.strategy = "majority"

MajorityConfigured == ct.models # <<>>

MajorityInit ==
  /\ vote = <<>>
  /\ verbatim = NoAnswer

MajorityNeed ==
  IF ct.quorumMin = 0 THEN DefaultQuorum(3, Len(Pool(ct))) ELSE ct.quorumMin

\* The tally follows Stage 1 at once: no model is called in between.
MajorityStage1Done ==
  /\ ByMajority
  /\ Stage1Joined(MajorityNeed, assignLabels(Answered), <<Event("stage2_complete", 0)>>, "stage3")
  /\ vote' \in [seated' -> Answers]
  /\ UNCHANGED <<slots, verbatim>>

---------------------------------------------------------------------------
(* buildVoteTally and runMajorityStage3.                                   *)

Votes(a) == Cardinality({i \in DOMAIN vote : vote[i] = a})
Clusters == {vote[i] : i \in DOMAIN vote}

\* The clusters with the most votes.
Tied == {a \in Clusters : \A b \in Clusters : Votes(b) <= Votes(a)}

\* The chairman polishes the winner or breaks the tie; without one a single
\* winner is emitted as it is and a tie is an error.
MajorityStage3 ==
  \/ /\ ct.chairman
     /\ Stage3
     /\ UNCHANGED verbatim
  \/ /\ ~ct.chairman /\ phase = "stage3"
     /\ Cardinality(Tied) = 1
     /\ verbatim' = Min(Tied)
     /\ events' = Append(events, Event("stage3_complete", 0))
     /\ Return("ok")
     /\ UNCHANGED <<configVars, ct, slots, seated, labels>>
  \/ /\ ~ct.chairman /\ phase = "stage3"
     /\ Cardinality(Tied) > 1
     /\ Return("tie")
     /\ UNCHANGED <<configVars, ct, slots, seated, labels, events, verbatim>>

MajorityStep ==
  \/ MajorityStage1Done
  \/ ByMajority /\ MajorityStage3 /\ UNCHANGED vote

---------------------------------------------------------------------------
(* Properties.                                                             *)

MajorityTypeOK ==
  /\ DOMAIN vote \subseteq Members
  /\ verbatim \in Answers \cup {NoAnswer}

===========================================================================
