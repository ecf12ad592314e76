------------------------------- MODULE Debate ------------------------------
(***************************************************************************)
(* The MultiAgentDebate strategy, internal/council/debate.go: after Stage  *)
(* 1 the debaters revise their answers for a number of rounds.  In a round *)
(* the debaters still in run concurrently; one that fails is out of the    *)
(* rounds after it, and the run fails when too few are left.               *)
(***************************************************************************)
EXTENDS CouncilRounds

VARIABLE dropouts  \* [label, lastRound, reason] of those that fell out

Debating == ct.strategy = "debate"

DebateConfigured == ct.models # <<>> /\ ct.chairman

\* MaxDebateRounds: 0 or less for 2.
DebateRounds == IF ct.rounds <= 0 THEN 2 ELSE ct.rounds
DebateNeed == Need(2)

Reasons == {"error", "json_parse", "empty_revision"}

DebateInit == dropouts = {}

\* Round 0 is Stage 1.
DebateStage1Done ==
  /\ Debating
  /\ Stage1Joined(DebateNeed, assignLabels(Answered), <<>>, "stage2")
  /\ FirstRound([l \in Labels' |-> 0])
  /\ UNCHANGED <<transcript, dropouts>>

\* The goroutine of a debater: a revision, or the reason there is none.
Revise(i) ==
  /\ Debating /\ phase = "stage2"
  /\ \E result \in {"revised"} \cup Reasons : Write(i, result)
  /\ UNCHANGED <<configVars, ct, phase, seated, labels, events, outcome, roundVars, dropouts>>

Fallen_CountsThisRound ==
  {[label |-> labels.of[i], lastRound |-> round, reason |-> slots[i]] :
     i \in alive \ With("revised")}

Fallen == {[label |-> labels.of[i], lastRound |-> round - 1, reason |-> slots[i]] :
             i \in alive \ With("revised")}

Latest_Kept(answers) == answers

\* previousByLabel takes the revisions of the round.
Latest(answers) ==
  [l \in DOMAIN answers |-> IF l \in LabelsOf(With("revised")) THEN round ELSE answers[l]]

DebateRoundDone ==
  /\ Debating
  /\ RoundEnds(With("revised"), DebateNeed, round = DebateRounds)
  /\ transcript' = Append(transcript, With("revised"))
  /\ previous' = Latest(previous)
  /\ dropouts' = dropouts \cup Fallen

DebateStep ==
  \/ DebateStage1Done
  \/ \E i \in DOMAIN slots : Revise(i)
  \/ DebateRoundDone

---------------------------------------------------------------------------
(* Properties.                                                             *)

DebateTypeOK ==
  \A d \in dropouts : d.label \in Labels /\ d.lastRound \in 0 .. DebateRounds - 1

RevisedIn(r) == IF r = 0 THEN Labels ELSE LabelsOf(transcript[r])

\* "Per-debater failures within a round ... drop that debater from subsequent
\* rounds" (debate.go:40) and "last round in which they produced a successful
\* revision" (types.go:284): a dropout took part up to its last round and in
\* no round after it, and everybody that was seated and is not in the last
\* round is one dropout.  Not so for a model configured twice: its two debaters
\* share a label, and one may go on without the other.
DropoutsTellTheTruth ==
  NoModelTwice =>
    /\ \A d \in dropouts : \A r \in 0 .. Len(transcript) :
         d.label \in RevisedIn(r) <=> r <= d.lastRound
    /\ Debating /\ transcript # <<>> =>
         \A l \in Labels \ LabelsOf(Last(transcript)) :
           Cardinality({d \in dropouts : d.label = l}) = 1

===========================================================================
