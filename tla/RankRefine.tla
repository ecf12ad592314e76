----------------------------- MODULE RankRefine ----------------------------
(***************************************************************************)
(* The GenerateRankRefine strategy, internal/council/generaterankrefine.go:*)
(* the arbiter ranks the answers in one call, and the chairman refines the *)
(* best of them into the final answer.  A candidate has a total only; the  *)
(* scores by criterion, clamped to [0, 1] each, can add up to any.         *)
(***************************************************************************)
EXTENDS Council, SequencesExt

CONSTANTS
  ArbiterReplies,  \* bound: what the arbiter may reply with, sequences of
                   \* [label, total], labels nobody was given among them
  Totals           \* bound: the totals of a candidate, once clamped

ASSUME RankRefineAssumption ==
  /\ Totals \subseteq Nat
  /\ \A reply \in ArbiterReplies :
       /\ Len(reply) \in Nat /\ DOMAIN reply = 1 .. Len(reply)
       /\ \A p \in DOMAIN reply : reply[p].total \in Totals

VARIABLE ranked  \* RankRefine.Rankings: [label, total, advancing], best first

Refines == ct.strategy = "rankRefine"

RankRefineConfigured == ct.models # <<>> /\ ct.chairman

RankRefineInit == ranked = <<>>

TopK == IF ct.topK = 0 THEN 3 ELSE ct.topK

\* max(K + 1, 3): one candidate at least must not advance.
RankRefineNeed_NoReject == Max({TopK, 3})

RankRefineNeed == IF ct.quorumMin = 0 THEN Max({TopK + 1, 3}) ELSE ct.quorumMin

RankRefineStage1Done ==
  /\ Refines
  /\ Stage1Joined(RankRefineNeed, assignLabels(Answered), <<>>, "stage2")
  /\ UNCHANGED <<slots, ranked>>

---------------------------------------------------------------------------
(* runRankStage, and the marking of the candidates that advance.           *)

Better(a, b) == a.total > b.total \/ (a.total = b.total /\ a.label < b.label)

\* Sorted.  Unknown labels are dropped; a label that comes twice is kept twice.
RankedCandidates(reply) ==
  LET known == {p \in DOMAIN reply : reply[p].label \in Labels}
  IN  {[i \in DOMAIN order |-> reply[order[i]]] :
         order \in {o \in Bijection(1 .. Cardinality(known), known) :
                     \A i, j \in DOMAIN o : i < j => ~Better(reply[o[j]], reply[o[i]])}}

Marked(candidates) ==
  [i \in DOMAIN candidates |->
     [label     |-> candidates[i].label,
      total     |-> candidates[i].total,
      advancing |-> i <= TopK]]

Rank ==
  /\ Refines /\ phase = "stage2"
  /\ \/ /\ \E reply \in ArbiterReplies : \E candidates \in RankedCandidates(reply) :
             ranked' = Marked(candidates)
        /\ events' = Append(events, Event("stage2_complete", 0))
        /\ phase' = "stage3"
        /\ UNCHANGED outcome
     \/ /\ Return("arbiter")
        /\ UNCHANGED <<ranked, events>>
  /\ UNCHANGED <<configVars, ct, slots, seated, labels>>

RankRefineStep == RankRefineStage1Done \/ Rank

---------------------------------------------------------------------------
(* Properties.                                                             *)

RankRefineTypeOK ==
  \A i \in DOMAIN ranked : ranked[i].label \in Labels /\ ranked[i].total \in Totals

\* The candidates the chairman is given (pickAdvancing).
Advancing == {ranked[i].label : i \in {j \in DOMAIN ranked : ranked[j].advancing}}

\* "the K+1 floor enforces 'at least one rejection'. Refining all candidates
\* defeats the rank-to-filter point" (generaterankrefine.go:46): with the
\* quorum of the strategy, and whatever the arbiter replies, somebody that
\* answered does not advance; and nobody that was ranked and does not is above
\* somebody that does.
OnlyTheBestAdvance ==
  /\ Refines /\ phase = "stage3" /\ ct.quorumMin = 0 =>
       Cardinality(Advancing) < Cardinality(seated)
  /\ \A i, j \in DOMAIN ranked :
       ranked[i].advancing /\ ~ranked[j].advancing => ranked[i].total >= ranked[j].total

===========================================================================
