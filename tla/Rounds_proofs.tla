---------------------------- MODULE Rounds_proofs --------------------------
(***************************************************************************)
(* Proofs about the strategies with rounds, MultiAgentDebate and Delphi,   *)
(* for any council type and any number of rounds and participants.         *)
(***************************************************************************)
EXTENDS Council_proofs, SequenceTheorems

InRounds == Debating \/ RatedByPanel

roundsVars == <<roundVars, dropouts, stats, converged>>

NotBegun ==
  /\ alive = {} /\ round = 0 /\ previous = <<>> /\ transcript = <<>>
  /\ dropouts = {}
  /\ stats = <<>> /\ ~converged

\* Those that came through round r, Stage 1 being round 0.
Through(r) == IF r = 0 THEN seated ELSE transcript[r]
Over == Len(transcript)

---------------------------------------------------------------------------
(* The steps, as far as the rounds can tell them apart.                    *)

\* Before the rounds, or of a strategy without any.
EarlierStep ==
  /\ UNCHANGED roundsVars
  /\ phase \in BeforeLabels
  /\ phase' \in BeforeLabels \cup {"done"} \/ (UNCHANGED ct /\ ~InRounds)

\* After Stage 1, no round being over.
WithinRound ==
  /\ UNCHANGED <<roundsVars, ct, seated, labels>>
  /\ phase \notin BeforeLabels
  /\ phase' \in {phase, "done"} \/ (~InRounds /\ phase' \notin BeforeLabels)

\* Stage 1 of a strategy with rounds is over, and the first round begins.
RoundsBegin ==
  /\ phase = "stage1" /\ InRounds
  /\ UNCHANGED <<ct, transcript, dropouts, stats, converged>>
  /\ \/ /\ phase' = "stage2"
        /\ alive' = seated' /\ round' = 1
        /\ Debating => previous' = [l \in Labels' |-> 0]
        /\ RatedByPanel => previous' = <<>>
     \/ /\ phase' = "done"
        /\ UNCHANGED <<roundVars, seated, labels>>

\* A round is over: too few stay, or there is another, or the chairman is next.
RoundOver(stay) ==
  /\ phase = "stage2" /\ InRounds
  /\ UNCHANGED <<ct, seated, labels>>
  /\ stay \subseteq alive
  /\ alive' = stay
  /\ transcript' = Append(transcript, stay)
  /\ previous' = [l \in (IF Debating THEN DOMAIN previous
                          ELSE DOMAIN previous \cup LabelsOf(stay)) |->
                    IF l \in LabelsOf(stay) THEN round ELSE previous[l]]
  /\ \/ phase' = "done" /\ UNCHANGED round
     \/ phase' = "stage2" /\ round' = round + 1
     \/ /\ phase' = "stage3" /\ UNCHANGED round
        /\ Debating => Cardinality(stay) >= DebateNeed
        /\ RatedByPanel => Cardinality(stay) >= DelphiNeed

DebateJoins == (DebateStage1Done \/ DebateRoundDone) /\ UNCHANGED delphiVars
DelphiJoins == (DelphiStage1Done \/ DelphiRoundDone) /\ UNCHANGED dropouts

\* Every step of a run is before the rounds, within one, or ends one.
LEMMA RoundsSteps ==
  ASSUME Next
  PROVE  EarlierStep \/ WithinRound \/ DebateJoins \/ DelphiJoins
<1> USE DEF roundsVars, roundVars, strategyVars, delphiVars, Return, BeforeLabels, configVars,
            InRounds
<1>1. CASE UNCHANGED strategyVars /\ (Startup \/ Request)
  BY <1>1 DEF Startup, Request, EarlierStep
<1>2. CASE UNCHANGED strategyVars /\ (Stage0Step \/ RunFull)
  BY <1>2 DEF Stage0Step, Clarify, Propose, Arbiter, Proceed, RunFull, EarlierStep
<1>3. CASE UNCHANGED strategyVars /\ CommonStep
  BY <1>3 DEF CommonStep, Stage1Answer, Stage3, EarlierStep, WithinRound
<1>4. CASE PeerReviewStep /\ UNCHANGED <<roundVars, dropouts, delphiVars>>
  BY <1>4 DEF PeerReviewStep, PeerReviewStage1Done, Review, PeerReviewStage2Done, Stage1Joined,
              PeersReview, Debating, RatedByPanel, EarlierStep, WithinRound
<1>5. CASE RoleBasedStep /\ UNCHANGED strategyVars
  BY <1>5 DEF RoleBasedStep, Stage1Joined, PlaysRoles, Debating, RatedByPanel, EarlierStep
<1>6. CASE MajorityStep /\ UNCHANGED <<roundVars, dropouts, delphiVars>>
  BY <1>6 DEF MajorityStep, MajorityStage1Done, MajorityStage3, Stage3, Stage1Joined,
              ByMajority, Debating, RatedByPanel, EarlierStep, WithinRound
<1>7. CASE RankRefineStep /\ UNCHANGED <<roundVars, dropouts, delphiVars>>
  BY <1>7 DEF RankRefineStep, RankRefineStage1Done, Rank, Stage1Joined, Refines, Debating,
              RatedByPanel, EarlierStep, WithinRound
<1>8. CASE MixtureStep /\ UNCHANGED <<roundVars, dropouts, delphiVars>>
  BY <1>8 DEF MixtureStep, MixtureStage1Done, Aggregate, MixtureStage2Done, Stage1Joined,
              Mixes, Debating, RatedByPanel, EarlierStep, WithinRound
<1>9. CASE DebateStep /\ UNCHANGED delphiVars
  BY <1>9 DEF DebateStep, Revise, WithinRound, DebateJoins
<1>10. CASE DelphiStep /\ UNCHANGED dropouts
  BY <1>10 DEF DelphiStep, Rate, WithinRound, DelphiJoins
<1>11. QED
  BY <1>1, <1>2, <1>3, <1>4, <1>5, <1>6, <1>7, <1>8, <1>9, <1>10
     DEF Next, RunStep, StrategyStep

\* A round of a debate that is over, or Stage 1 before it, as rounds see it.
LEMMA DebateJoinsRounds ==
  ASSUME DebateJoins
  PROVE  \/ RoundsBegin
         \/ RoundOver(With("revised")) /\ dropouts' = dropouts \cup Fallen /\ Debating
<1>1. ~RatedByPanel \/ ~Debating
  BY DEF RatedByPanel, Debating
<1>2. CASE DebateStage1Done
  BY <1>1, <1>2 DEF DebateJoins, DebateStage1Done, Stage1Joined, FirstRound, RoundsBegin, Return,
                    InRounds, delphiVars, roundVars
<1>3. CASE DebateRoundDone
  <2>1. With("revised") \subseteq alive
    BY DEF With
  <2>2. QED
    BY <1>1, <1>3, <2>1 DEF DebateRoundDone, RoundEnds, Survives, Return, RoundOver, InRounds,
                            Latest, configVars
<1>4. QED
  BY <1>2, <1>3 DEF DebateJoins

\* Likewise of Delphi.
LEMMA DelphiJoinsRounds ==
  ASSUME DelphiJoins
  PROVE  RoundsBegin \/ RoundOver(Rated)
<1>1. ~RatedByPanel \/ ~Debating
  BY DEF RatedByPanel, Debating
<1>2. CASE DelphiStage1Done
  BY <1>1, <1>2 DEF DelphiJoins, DelphiStage1Done, Stage1Joined, FirstRound, RoundsBegin, Return,
                    InRounds, roundVars
<1>3. CASE DelphiRoundDone
  <2>1. Rated \subseteq alive
    BY DEF Rated, With
  <2>2. RoundEnds(Rated, DelphiNeed, Finishes(computeDelphiStats)) /\ RatedByPanel
    BY <1>3 DEF DelphiRoundDone
  <2>3. /\ transcript' = Append(transcript, Rated)
        /\ previous' = [l \in DOMAIN previous \cup LabelsOf(Rated) |->
                          IF l \in LabelsOf(Rated) THEN round ELSE previous[l]]
    BY <1>3 DEF DelphiRoundDone
  <2> HIDE DEF Rated
  <2>4. QED
    BY <1>1, <2>1, <2>2, <2>3 DEF RoundEnds, Survives, Return, RoundOver, InRounds, configVars
<1>4. QED
  BY <1>2, <1>3 DEF DelphiJoins

---------------------------------------------------------------------------
(* The inductive invariant of the rounds: who is still in came through the *)
(* last round, nobody comes back, and what is kept of everybody still in   *)
(* is from the round before the one under way.                             *)

RoundsInv ==
  /\ phase \in BeforeLabels \/ ~InRounds => NotBegun
  /\ transcript \in Seq(SUBSET seated)
  /\ \A r, s \in 0 .. Over : r <= s => Through(s) \subseteq Through(r)
  /\ phase = "stage2" /\ InRounds =>
       /\ round = Over + 1
       /\ alive = Through(Over)
       /\ \/ \A i \in alive : labels.of[i] \in DOMAIN previous
                              /\ previous[labels.of[i]] = round - 1
          \/ RatedByPanel /\ round = 1 /\ previous = <<>>
  /\ phase = "stage3" /\ InRounds =>
       /\ transcript # <<>>
       /\ Debating => Cardinality(Through(Over)) >= DebateNeed
       /\ RatedByPanel => Cardinality(Through(Over)) >= DelphiNeed

\* In the beginning there are no rounds.
LEMMA InitialRounds == Init => RoundsInv
<1> SUFFICES ASSUME Init PROVE RoundsInv
  OBVIOUS
<1>1. NotBegun /\ phase = "startup"
  BY DEF Init, CouncilInit, RoundsInit, DebateInit, DelphiInit, NotBegun
<1>2. QED
  BY <1>1 DEF RoundsInv, NotBegun, BeforeLabels, Over

\* A round that is over is one more in the transcript.
LEMMA RoundOverExtends ==
  ASSUME RoundsInv, NEW stay, RoundOver(stay), NEW over, over = Over
  PROVE  /\ over \in Nat /\ Over' = over + 1 /\ round = over + 1
         /\ transcript' \in Seq(SUBSET seated') /\ transcript' # <<>>
         /\ \A r \in 0 .. over : Through(r)' = Through(r)
         /\ Through(over + 1)' = stay
         /\ stay \subseteq Through(over) /\ alive = Through(over)
<1>1. /\ transcript \in Seq(SUBSET seated) /\ over \in Nat
      /\ stay \subseteq alive /\ alive = Through(over)
      /\ round = over + 1
  BY DEF RoundOver, RoundsInv, Over
<1>2. stay \in SUBSET seated
  BY <1>1 DEF Through, Over
<1>3. /\ transcript' = Append(transcript, stay)
      /\ UNCHANGED <<seated, labels>>
  BY DEF RoundOver
<1>4. /\ transcript' \in Seq(SUBSET seated') /\ Over' = over + 1 /\ transcript' # <<>>
      /\ \A r \in 1 .. over : transcript'[r] = transcript[r]
      /\ transcript'[over + 1] = stay
  BY <1>1, <1>2, <1>3 DEF Over
<1>5. ASSUME NEW r \in 0 .. over PROVE Through(r)' = Through(r)
  <2>1. r = 0 \/ transcript'[r] = transcript[r]
    BY <1>1, <1>4
  <2>2. QED
    BY <1>3, <2>1 DEF Through
<1>6. Through(over + 1)' = stay
  BY <1>1, <1>4 DEF Through
<1>7. QED
  BY <1>1, <1>4, <1>5, <1>6

\* No step brings anybody back or shows an old answer.
LEMMA RoundsStep ==
  ASSUME CouncilInv, RoundsInv, [Next]_vars
  PROVE  RoundsInv'
<1>1. CASE EarlierStep
  <2>1. NotBegun /\ UNCHANGED roundsVars
    BY <1>1 DEF EarlierStep, RoundsInv
  <2>2. NotBegun'
    BY <2>1 DEF NotBegun, roundsVars, roundVars
  <2>3. phase' # "stage2" \/ ~InRounds'
    BY <1>1 DEF EarlierStep, BeforeLabels, InRounds, Debating, RatedByPanel
  <2>4. phase' # "stage3" \/ ~InRounds'
    BY <1>1 DEF EarlierStep, BeforeLabels, InRounds, Debating, RatedByPanel
  <2>5. QED
    BY <2>2, <2>3, <2>4 DEF RoundsInv, NotBegun, Over
<1>2. CASE WithinRound \/ UNCHANGED vars
  <2>1. UNCHANGED <<alive, round, previous, transcript, dropouts, stats, converged, ct, seated,
                    labels>>
    BY <1>2 DEF WithinRound, roundsVars, roundVars, vars, councilVars, strategyVars, delphiVars
  <2>2. phase' = phase \/ (phase \notin BeforeLabels /\
                          (phase' = "done" \/ (~InRounds /\ phase' \notin BeforeLabels)))
    BY <1>2 DEF WithinRound, vars, councilVars
  <2>3. InRounds' = InRounds /\ Debating' = Debating /\ RatedByPanel' = RatedByPanel
    BY <2>1 DEF InRounds, Debating, RatedByPanel
  <2>4. /\ NotBegun' = NotBegun /\ Over' = Over
        /\ DebateNeed' = DebateNeed /\ DelphiNeed' = DelphiNeed
    BY <2>1 DEF NotBegun, Over, DebateNeed, DelphiNeed, Need
  <2>5. QED
    BY <2>1, <2>2, <2>3, <2>4 DEF RoundsInv, Through, BeforeLabels
<1>3. CASE RoundsBegin
  <2>1. NotBegun /\ InRounds' /\ Over' = 0 /\ transcript' = <<>>
    BY <1>3 DEF RoundsBegin, RoundsInv, NotBegun, Over, InRounds, Debating, RatedByPanel,
                BeforeLabels, roundVars
  <2>2. CASE phase' = "stage2"
    <3>1. /\ alive' = seated' /\ round' = 1 /\ UNCHANGED ct
          /\ Debating => previous' = [l \in Labels' |-> 0]
          /\ RatedByPanel => previous' = <<>>
      BY <1>3, <2>2 DEF RoundsBegin
    <3>2. \A i \in seated' : labels'.of[i] \in Labels'
      BY DEF Labels, LabelsOf
    <3>3. CASE Debating
      BY <2>1, <2>2, <3>1, <3>2, <3>3 DEF RoundsInv, Through, BeforeLabels
    <3>4. CASE RatedByPanel
      <4>1. RatedByPanel'
        BY <3>1, <3>4 DEF RatedByPanel
      <4>2. QED
        BY <2>1, <2>2, <3>1, <3>4, <4>1 DEF RoundsInv, Through, BeforeLabels
    <3>5. QED
      BY <1>3, <3>3, <3>4 DEF RoundsBegin, InRounds
  <2>3. CASE phase' = "done"
    BY <2>1, <2>3 DEF RoundsInv, Through, BeforeLabels
  <2>4. QED
    BY <1>3, <2>2, <2>3 DEF RoundsBegin
<1>4. ASSUME NEW stay, RoundOver(stay) PROVE RoundsInv'
  <2>1. PICK over : over = Over
    OBVIOUS
  <2>2. /\ over \in Nat /\ Over' = over + 1 /\ round = over + 1
        /\ transcript' \in Seq(SUBSET seated') /\ transcript' # <<>>
        /\ \A r \in 0 .. over : Through(r)' = Through(r)
        /\ Through(over + 1)' = stay
        /\ stay \subseteq Through(over) /\ alive = Through(over)
    BY <1>4, <2>1, RoundOverExtends
  <2>3. \A r, s \in 0 .. Over' : r <= s => Through(s)' \subseteq Through(r)'
    <3>1. ASSUME NEW r \in 0 .. over + 1, NEW s \in 0 .. over + 1, r <= s
          PROVE  Through(s)' \subseteq Through(r)'
      <4>1. CASE s \in 0 .. over
        <5>1. r \in 0 .. over
          BY <2>2, <3>1, <4>1
        <5>2. Through(s) \subseteq Through(r)
          BY <2>1, <3>1, <4>1, <5>1 DEF RoundsInv
        <5>3. QED
          BY <2>2, <4>1, <5>1, <5>2
      <4>2. CASE s = over + 1 /\ r \in 0 .. over
        <5>1. Through(over) \subseteq Through(r)
          BY <2>1, <2>2, <4>2 DEF RoundsInv
        <5>2. QED
          BY <2>2, <4>2, <5>1
      <4>3. CASE s = over + 1 /\ r = over + 1
        BY <4>3
      <4>4. QED
        BY <2>2, <3>1, <4>1, <4>2, <4>3
    <3>2. QED
      BY <2>2, <3>1
  <2>4. UNCHANGED <<ct, seated, labels>>
    BY <1>4 DEF RoundOver
  <2>5. alive' = stay /\ alive' = Through(Over)'
    BY <1>4, <2>2 DEF RoundOver, Through
  <2>6. ASSUME NEW i \in stay
        PROVE  labels.of[i] \in DOMAIN previous' /\ previous'[labels.of[i]] = round
    <3>1. labels.of[i] \in LabelsOf(stay)
      BY DEF LabelsOf
    <3>2. Debating => labels.of[i] \in DOMAIN previous
      BY <1>4, <2>2 DEF RoundOver, RoundsInv, Debating, RatedByPanel
    <3>3. QED
      BY <1>4, <3>1, <3>2 DEF RoundOver
  <2>7. /\ InRounds' /\ phase' \notin BeforeLabels
        /\ Debating' = Debating /\ RatedByPanel' = RatedByPanel
        /\ DebateNeed' = DebateNeed /\ DelphiNeed' = DelphiNeed
    BY <1>4, <2>4
       DEF RoundOver, InRounds, Debating, RatedByPanel, BeforeLabels, DebateNeed, DelphiNeed, Need
  <2>8. CASE phase' = "stage2" /\ round' = round + 1
    BY <2>2, <2>3, <2>4, <2>5, <2>6, <2>7, <2>8 DEF RoundsInv
  <2>9. CASE /\ phase' = "stage3"
             /\ Debating => Cardinality(stay) >= DebateNeed
             /\ RatedByPanel => Cardinality(stay) >= DelphiNeed
    BY <2>2, <2>3, <2>5, <2>7, <2>9 DEF RoundsInv
  <2>10. CASE phase' = "done"
    BY <2>2, <2>3, <2>7, <2>10 DEF RoundsInv
  <2>11. QED
    BY <1>4, <2>8, <2>9, <2>10 DEF RoundOver
<1>5. QED
  BY <1>1, <1>2, <1>3, <1>4, RoundsSteps, DebateJoinsRounds, DelphiJoinsRounds

\* The invariant of the rounds holds of every run, with that of the council.
THEOREM RoundsInvariant == Spec => [](CouncilInv /\ RoundsInv)
<1>1. CouncilInv /\ RoundsInv /\ [Next]_vars => RoundsInv'
  BY RoundsStep
<1>2. QED
  BY CouncilInvariant, InitialRounds, <1>1, PTL DEF Spec

\* No participant of a round is shown something older than the round before,
\* and one that is out stays out (PromptsAreCurrent), however many rounds and
\* participants there are.
THEOREM PromptsStayCurrent == Spec => []PromptsAreCurrent
<1>1. RoundsInv => PromptsAreCurrent
  <2> SUFFICES ASSUME RoundsInv PROVE PromptsAreCurrent
    OBVIOUS
  <2>1. ASSUME phase = "stage2", round > 1 \/ previous # <<>>, NEW i \in alive
        PROVE  previous[labels.of[i]] = round - 1
    <3>1. InRounds
      BY <2>1 DEF RoundsInv, NotBegun
    <3>2. QED
      BY <2>1, <3>1 DEF RoundsInv
  <2>2. ASSUME NEW r \in 2 .. Len(transcript)
        PROVE  transcript[r] \subseteq transcript[r - 1]
    <3>1. Over \in Nat
      BY DEF RoundsInv, Over
    <3>2. r \in 0 .. Over /\ r - 1 \in 0 .. Over /\ r - 1 <= r /\ r # 0 /\ r - 1 # 0
      BY <2>2, <3>1 DEF Over
    <3>3. Through(r) \subseteq Through(r - 1)
      BY <3>2 DEF RoundsInv
    <3>4. QED
      BY <3>2, <3>3 DEF Through
  <2>3. QED
    BY <2>1, <2>2 DEF PromptsAreCurrent
<1>2. QED
  BY RoundsInvariant, <1>1, PTL

\* A quorum that is not negative asks for somebody at least.
LEMMA NeedIsPositive ==
  ASSUME CouncilInv, ct.quorumMin >= 0, NEW floor \in Nat \ {0}
  PROVE  Need(floor) \in Int /\ Need(floor) >= 1
<1>1. ct.quorumMin \in Int /\ Len(Pool(ct)) \in Nat
  BY PoolIsSequence DEF CouncilInv, RegistryInv, FittedTypes, CouncilTypes
<1> DEFINE formula == (Len(Pool(ct)) + 1) \div 2 + 1
<1>2. formula \in Int
  BY <1>1
<1> HIDE DEF formula
<1>3. Max({floor, formula}) \in Int /\ Max({floor, formula}) >= floor
  BY <1>2, GreaterOfTwo
<1>4. QED
  BY <1>1, <1>3 DEF Need, DefaultQuorum, formula

\* The chairman of a debate or of a panel is given a last round that as many
\* came through as the quorum asks for, and somebody at least
\* (ChairmanHearsAQuorum), for every quorum that is not negative.
THEOREM ChairmenHearAQuorum == Spec => []ChairmanHearsAQuorum
<1>1. CouncilInv /\ RoundsInv => ChairmanHearsAQuorum
  <2> SUFFICES ASSUME CouncilInv, RoundsInv,
                      phase = "stage3", ct.quorumMin >= 0, ct.strategy \in {"debate", "delphi"}
               PROVE  /\ Cardinality(Last(transcript)) >=
                           (IF Debating THEN DebateNeed ELSE DelphiNeed)
                      /\ Last(transcript) # {}
    BY DEF ChairmanHearsAQuorum
  <2>1. /\ InRounds /\ (Debating \/ RatedByPanel)
    BY DEF InRounds, Debating, RatedByPanel
  <2>2. Last(transcript) = Through(Over)
    BY <2>1 DEF RoundsInv, Last, Through, Over
  <2>3. /\ DebateNeed \in Int /\ DebateNeed >= 1
        /\ DelphiNeed \in Int /\ DelphiNeed >= 1
    BY NeedIsPositive DEF DebateNeed, DelphiNeed
  <2>4. Cardinality({}) = 0
    BY FS_EmptySet
  <2> DEFINE need == IF Debating THEN DebateNeed ELSE DelphiNeed
             last == Last(transcript)
  <2>5. Cardinality(last) >= need
    BY <2>1, <2>2 DEF RoundsInv
  <2>6. need \in Int /\ need >= 1
    BY <2>3
  <2> HIDE DEF need, last
  <2>7. last # {}
    BY <2>4, <2>5, <2>6
  <2>8. QED
    BY <2>5, <2>7 DEF need, last
<1>2. QED
  BY RoundsInvariant, <1>1, PTL

---------------------------------------------------------------------------
(* The dropouts of a debate.  The inductive invariant says of each record  *)
(* whose it is: of a debater that came through its last round and not      *)
(* through the next.                                                       *)

\* d is the record of the debater i.
RecordOf(d, i) ==
  /\ d.label = labels.of[i]
  /\ d.lastRound \in 0 .. Over - 1
  /\ i \in Through(d.lastRound)
  /\ i \notin Through(d.lastRound + 1)

DropoutsInv ==
  /\ ~Debating => dropouts = {}
  /\ \A d \in dropouts : \E i \in seated : RecordOf(d, i)
  /\ \A i \in seated \ Through(Over) : Debating => \E d \in dropouts : RecordOf(d, i)
  /\ NoModelTwice => \A d, e \in dropouts : d.label = e.label => d = e

LabelsDistinct == \A i, j \in seated : labels.of[i] = labels.of[j] => i = j

\* Labels lead back to models: two members share a label only if they are the
\* same model.
LEMMA DistinctLabels == CouncilInv /\ NoModelTwice => LabelsDistinct
BY DEF CouncilInv, LabelsInv, LabelsMapBack, Members, NoModelTwice, IsInjective, LabelsDistinct

\* In the beginning nobody has dropped out.
LEMMA InitialDropouts == Init => DropoutsInv
BY DEF Init, CouncilInit, RoundsInit, DebateInit, DropoutsInv, Over, Through

\* The records of a round are those of the debaters that did not come through
\* it, one for each.
LEMMA FallenRecords ==
  ASSUME CouncilInv, RoundsInv, DropoutsInv, RoundOver(With("revised")), Debating,
         dropouts' = dropouts \cup Fallen
  PROVE  DropoutsInv'
<1> DEFINE stay == With("revised")
           Record(i) == [label |-> labels.of[i], lastRound |-> round - 1, reason |-> slots[i]]
<1>1. PICK over : over = Over
  OBVIOUS
<1> HIDE DEF stay
<1>2. /\ over \in Nat /\ Over' = over + 1 /\ round = over + 1
      /\ \A r \in 0 .. over : Through(r)' = Through(r)
      /\ Through(over + 1)' = stay
      /\ stay \subseteq Through(over) /\ alive = Through(over)
      /\ Through(over) \subseteq seated
  <2>1. RoundOver(stay)
    BY DEF stay
  <2>2. /\ over \in Nat /\ Over' = over + 1 /\ round = over + 1
        /\ \A r \in 0 .. over : Through(r)' = Through(r)
        /\ Through(over + 1)' = stay
        /\ stay \subseteq Through(over) /\ alive = Through(over)
    BY <1>1, <2>1, RoundOverExtends
  <2>3. Through(over) \subseteq seated
    BY <1>1, <2>2 DEF RoundsInv, Through, Over
  <2>4. QED
    BY <2>2, <2>3
<1>3. UNCHANGED <<ct, seated, labels>>
  BY DEF RoundOver
<1>4. ASSUME NEW d, NEW i \in seated, RecordOf(d, i)
      PROVE  RecordOf(d, i)'
  <2>1. /\ d.label = labels.of[i]
        /\ d.lastRound \in 0 .. over - 1
        /\ i \in Through(d.lastRound)
        /\ i \notin Through(d.lastRound + 1)
    BY <1>1, <1>4 DEF RecordOf
  <2>2. d.lastRound \in 0 .. over /\ d.lastRound + 1 \in 0 .. over /\ d.lastRound \in 0 .. Over' - 1
    BY <1>2, <2>1
  <2>3. PICK r : r = d.lastRound
    OBVIOUS
  <2>4. Through(r)' = Through(r) /\ Through(r + 1)' = Through(r + 1)
    BY <1>2, <2>2, <2>3
  <2>5. QED
    BY <1>3, <2>1, <2>2, <2>3, <2>4 DEF RecordOf
<1>5. ASSUME NEW i \in Through(over) \ stay, NEW f, f = Record(i)
      PROVE  f \in Fallen /\ i \in seated /\ RecordOf(f, i)'
  <2>1. f \in Fallen /\ i \in seated
    BY <1>2, <1>5 DEF Fallen, stay
  <2>2. f.label = labels.of[i] /\ f.lastRound = over
    BY <1>2, <1>5
  <2>3. i \in Through(over)' /\ i \notin Through(over + 1)' /\ over \in 0 .. Over' - 1
    BY <1>2
  <2>4. QED
    BY <1>3, <2>1, <2>2, <2>3 DEF RecordOf
<1>6. \A d \in Fallen : \E i \in Through(over) \ stay : d = Record(i)
  BY <1>2 DEF Fallen, stay
<1>7. ~Debating' => dropouts' = {}
  BY <1>3 DEF Debating
<1>8. \A d \in dropouts' : \E i \in seated' : RecordOf(d, i)'
  <2>1. ASSUME NEW d \in dropouts PROVE \E i \in seated' : RecordOf(d, i)'
    BY <1>3, <1>4 DEF DropoutsInv
  <2>2. ASSUME NEW d \in Fallen PROVE \E i \in seated' : RecordOf(d, i)'
    <3>1. PICK i \in Through(over) \ stay : d = Record(i)
      BY <1>6
    <3>2. RecordOf(d, i)' /\ i \in seated
      BY <1>5, <3>1
    <3>3. QED
      BY <1>3, <3>2
  <2>3. QED
    BY <2>1, <2>2
<1>9. ASSUME NEW i \in seated' \ Through(Over)'
      PROVE  \E d \in dropouts' : RecordOf(d, i)'
  <2>1. i \in seated /\ i \notin stay
    BY <1>2, <1>3
  <2>2. CASE i \in Through(over)
    <3>1. PICK f : f = Record(i)
      OBVIOUS
    <3>2. f \in dropouts' /\ RecordOf(f, i)'
      BY <1>5, <2>1, <2>2, <3>1
    <3>3. QED
      BY <3>2
  <2>3. CASE i \notin Through(over)
    <3>1. PICK d \in dropouts : RecordOf(d, i)
      BY <1>1, <2>1, <2>3 DEF DropoutsInv
    <3>2. QED
      BY <1>4, <2>1, <3>1
  <2>4. QED
    BY <2>2, <2>3
<1>10. ASSUME NoModelTwice', NEW d \in dropouts', NEW e \in dropouts', d.label = e.label
       PROVE  d = e
  <2>1. NoModelTwice
    BY <1>3, <1>10 DEF NoModelTwice
  <2>2. LabelsDistinct
    BY <2>1, DistinctLabels
  <2>3. ASSUME NEW f \in dropouts, NEW g \in Fallen PROVE f.label # g.label
    <3>1. PICK i \in seated : RecordOf(f, i)
      BY DEF DropoutsInv
    <3>2. PICK j \in Through(over) \ stay : g = Record(j)
      BY <1>6
    <3>3. f.lastRound + 1 \in 0 .. over /\ f.lastRound + 1 <= over
      BY <1>1, <1>2, <3>1 DEF RecordOf
    <3>4. Through(over) \subseteq Through(f.lastRound + 1)
      BY <1>1, <1>2, <3>3 DEF RoundsInv
    <3>5. i # j
      BY <3>1, <3>4 DEF RecordOf
    <3>6. f.label = labels.of[i] /\ g.label = labels.of[j] /\ j \in seated
      BY <1>2, <3>1, <3>2 DEF RecordOf
    <3>7. QED
      BY <2>2, <3>5, <3>6 DEF LabelsDistinct
  <2>4. CASE d \in dropouts /\ e \in dropouts
    BY <1>10, <2>1, <2>4 DEF DropoutsInv
  <2>5. CASE d \in Fallen /\ e \in Fallen
    <3>1. PICK i \in Through(over) \ stay : d = Record(i)
      BY <1>6, <2>5
    <3>2. PICK j \in Through(over) \ stay : e = Record(j)
      BY <1>6, <2>5
    <3>3. d.label = labels.of[i] /\ e.label = labels.of[j] /\ i \in seated /\ j \in seated
      BY <1>2, <3>1, <3>2
    <3>4. i = j
      BY <1>10, <2>2, <3>3 DEF LabelsDistinct
    <3>5. QED
      BY <3>1, <3>2, <3>4
  <2>6. QED
    BY <1>10, <2>3, <2>4, <2>5
<1>11. QED
  BY <1>7, <1>8, <1>9, <1>10 DEF DropoutsInv

\* A round adds those that fell in it to the dropouts, and nobody else.
LEMMA DropoutsStep ==
  ASSUME CouncilInv, RoundsInv, DropoutsInv, [Next]_vars
  PROVE  DropoutsInv'
<1>1. CASE EarlierStep \/ RoundsBegin
  <2>1. NotBegun /\ transcript' = transcript /\ dropouts' = dropouts
    BY <1>1 DEF EarlierStep, RoundsBegin, RoundsInv, roundsVars, roundVars, BeforeLabels
  <2>2. transcript' = <<>> /\ dropouts' = {}
    BY <2>1 DEF NotBegun
  <2>3. Through(Over)' = seated'
    BY <2>2 DEF Through, Over
  <2>4. QED
    BY <2>2, <2>3 DEF DropoutsInv
<1>2. CASE WithinRound \/ UNCHANGED vars
  <2>1. UNCHANGED <<transcript, dropouts, ct, seated, labels>>
    BY <1>2 DEF WithinRound, roundsVars, roundVars, vars, councilVars, strategyVars
  <2>2. Debating' = Debating /\ NoModelTwice' = NoModelTwice /\ Over' = Over
    BY <2>1 DEF Debating, NoModelTwice, Over
  <2>3. QED
    BY <2>1, <2>2 DEF DropoutsInv, RecordOf, Through, Over
<1>3. CASE RoundOver(With("revised")) /\ dropouts' = dropouts \cup Fallen /\ Debating
  BY <1>3, FallenRecords
<1>4. CASE RoundOver(Rated) /\ DelphiJoins
  <2>1. ~Debating /\ UNCHANGED <<ct, dropouts>>
    BY <1>4 DEF RoundOver, DelphiJoins, DelphiStage1Done, DelphiRoundDone, RatedByPanel, Debating
  <2>2. dropouts' = {} /\ ~Debating'
    BY <2>1 DEF DropoutsInv, Debating
  <2>3. QED
    BY <2>2 DEF DropoutsInv
<1>5. QED
  BY <1>1, <1>2, <1>3, <1>4, RoundsSteps, DebateJoinsRounds, DelphiJoinsRounds

\* The records say what happened.
LEMMA RecordsTellTheTruth ==
  ASSUME CouncilInv, RoundsInv, DropoutsInv, NoModelTwice
  PROVE  /\ \A d \in dropouts : \A r \in 0 .. Over : d.label \in RevisedIn(r) <=> r <= d.lastRound
         /\ Debating /\ transcript # <<>> =>
              \A l \in Labels \ LabelsOf(Last(transcript)) :
                Cardinality({d \in dropouts : d.label = l}) = 1
<1>1. LabelsDistinct
  BY DistinctLabels
<1>2. \A r \in 0 .. Over : RevisedIn(r) = LabelsOf(Through(r)) /\ Through(r) \subseteq seated
  <2>1. ASSUME NEW r \in 0 .. Over
        PROVE  RevisedIn(r) = LabelsOf(Through(r)) /\ Through(r) \subseteq seated
    <3>1. r = 0 \/ (r \in 1 .. Over /\ transcript[r] \subseteq seated)
      BY DEF RoundsInv, Over
    <3>2. QED
      BY <3>1 DEF RevisedIn, Labels, LabelsOf, Through
  <2>2. QED
    BY <2>1
<1>3. Over \in Nat
  BY DEF RoundsInv, Over
<1>4. ASSUME NEW d \in dropouts, NEW r \in 0 .. Over
      PROVE  d.label \in RevisedIn(r) <=> r <= d.lastRound
  <2>1. PICK i \in seated : RecordOf(d, i)
    BY DEF DropoutsInv
  <2>2. /\ d.label = labels.of[i]
        /\ d.lastRound \in 0 .. Over /\ d.lastRound + 1 \in 0 .. Over
        /\ i \in Through(d.lastRound) /\ i \notin Through(d.lastRound + 1)
    BY <1>3, <2>1 DEF RecordOf
  <2>3. d.label \in RevisedIn(r) <=> i \in Through(r)
    BY <1>1, <1>2, <2>2 DEF LabelsOf, LabelsDistinct
  <2>4. CASE r <= d.lastRound
    <3>1. Through(d.lastRound) \subseteq Through(r)
      BY <2>2, <2>4 DEF RoundsInv
    <3>2. QED
      BY <2>2, <2>3, <2>4, <3>1
  <2>5. CASE ~(r <= d.lastRound)
    <3>1. d.lastRound + 1 <= r
      BY <1>3, <2>2, <2>5
    <3>2. Through(r) \subseteq Through(d.lastRound + 1)
      BY <2>2, <3>1 DEF RoundsInv
    <3>3. QED
      BY <2>2, <2>3, <2>5, <3>2
  <2>6. QED
    BY <2>4, <2>5
<1>5. ASSUME Debating, transcript # <<>>, NEW l \in Labels \ LabelsOf(Last(transcript))
      PROVE  Cardinality({d \in dropouts : d.label = l}) = 1
  <2>1. Last(transcript) = Through(Over)
    BY <1>5 DEF RoundsInv, Last, Through, Over
  <2>2. PICK i \in seated : l = labels.of[i]
    BY <1>5 DEF Labels, LabelsOf
  <2>3. i \notin Through(Over)
    BY <1>5, <2>1, <2>2 DEF LabelsOf
  <2>4. PICK d \in dropouts : RecordOf(d, i)
    BY <1>5, <2>3 DEF DropoutsInv
  <2>5. {e \in dropouts : e.label = l} = {d}
    BY <2>2, <2>4 DEF DropoutsInv, RecordOf
  <2>6. QED
    BY <2>5, FS_Singleton
<1>6. QED
  BY <1>4, <1>5

\* A debater's record tells the last round it came through, it took part in
\* every round up to that one and in none after it, and whoever is missing from
\* the last round has exactly one record (DropoutsTellTheTruth), where no model
\* is configured twice.
THEOREM DropoutsAreTrue == Spec => []DropoutsTellTheTruth
<1>1. CouncilInv /\ RoundsInv /\ DropoutsInv /\ [Next]_vars => DropoutsInv'
  BY DropoutsStep
<1>2. CouncilInv /\ RoundsInv /\ DropoutsInv => DropoutsTellTheTruth
  BY RecordsTellTheTruth DEF DropoutsTellTheTruth, Over
<1>3. QED
  BY RoundsInvariant, InitialDropouts, <1>1, <1>2, PTL DEF Spec

---------------------------------------------------------------------------
(* Convergence.  While a panel is rating, no round so far has agreed with  *)
(* the one before.                                                         *)

ConvergenceInv ==
  /\ stats \in Seq(Range(stats))
  /\ phase = "stage2" /\ RatedByPanel =>
       /\ Len(stats) = round - 1
       /\ round <= DelphiRounds
       /\ \A i \in 2 .. Len(stats) : ~Agree(i)
  /\ ConvergedAtFirstAgreement

\* In the beginning there are no ratings to converge.
LEMMA InitialConvergence == Init => ConvergenceInv
<1> SUFFICES ASSUME Init PROVE ConvergenceInv
  OBVIOUS
<1>1. stats = <<>> /\ phase = "startup"
  BY DEF Init, CouncilInit, DelphiInit
<1>2. QED
  BY <1>1 DEF ConvergenceInv, ConvergedAtFirstAgreement

\* Delphi has at least one round, whatever the configuration says.
LEMMA DelphiRoundsPositive ==
  ASSUME CouncilInv
  PROVE  DelphiRounds \in Int /\ DelphiRounds >= 1
<1>1. ct.rounds \in Int
  BY DEF CouncilInv, RegistryInv, FittedTypes, CouncilTypes
<1>2. QED
  BY <1>1 DEF DelphiRounds

\* What a round adds to the statistics: it agrees with the round before just
\* when the code finds that they converge.
LEMMA AgreesIfConverges ==
  ASSUME ConvergenceInv, RoundsInv, RatedByPanel, phase = "stage2", NEW now, NEW n,
         n = Len(stats) + 1, stats' = Append(stats, now)
  PROVE  /\ n \in Nat \ {0} /\ n = round /\ Len(stats') = n
         /\ stats' \in Seq(Range(stats'))
         /\ \A i \in 2 .. n - 1 : ~Agree(i)'
         /\ n >= 2 => (Agree(n)' <=> Converges(now, round))
         /\ n < 2 => ~Converges(now, round)
<1>1. /\ stats \in Seq(Range(stats)) /\ n \in Nat \ {0} /\ n = round
      /\ Over \in Nat /\ round = Over + 1
  BY DEF ConvergenceInv, RoundsInv, Over, InRounds
<1>2. /\ stats' \in Seq(Range(stats) \cup {now}) /\ Len(stats') = n
      /\ stats'[n] = now
      /\ \A i \in 1 .. n - 1 : stats'[i] = stats[i]
  BY <1>1
<1>3. stats' \in Seq(Range(stats'))
  <2>1. stats' \in [1 .. n -> Range(stats) \cup {now}]
    BY <1>2, LenProperties
  <2>2. \A i \in 1 .. n : stats'[i] \in Range(stats')
    BY <2>1 DEF Range
  <2>3. stats' \in [1 .. n -> Range(stats')]
    BY <2>1, <2>2
  <2>4. QED
    BY <1>1, <2>3, IsSequence
<1>4. ASSUME NEW i \in 2 .. n - 1 PROVE ~Agree(i)'
  <2>1. stats'[i] = stats[i] /\ stats'[i - 1] = stats[i - 1]
    BY <1>1, <1>2
  <2>2. ~Agree(i)
    BY DEF ConvergenceInv
  <2>3. QED
    BY <2>1, <2>2 DEF Agree, Settled
<1>5. ASSUME n >= 2 PROVE Agree(n)' <=> Converges(now, round)
  <2>1. stats'[n] = now /\ stats'[n - 1] = Last(stats)
    BY <1>1, <1>2, <1>5 DEF Last
  <2>2. Agree(n)' <=> /\ now.raters > 0 /\ Last(stats).raters > 0
                      /\ \A c \in Criteria : Settled(now, Last(stats), c)
    BY <2>1 DEF Agree, Settled
  <2>3. QED
    BY <1>1, <1>5, <2>2 DEF Converges, HasMeans
<1>6. n < 2 => ~Converges(now, round)
  BY <1>1 DEF Converges
<1>7. QED
  BY <1>1, <1>2, <1>3, <1>4, <1>5, <1>6

\* A panel that has converged has no further round.
LEMMA ConvergenceStep ==
  ASSUME CouncilInv, RoundsInv, ConvergenceInv, [Next]_vars
  PROVE  ConvergenceInv'
<1>1. CASE EarlierStep \/ RoundsBegin
  <2>1. NotBegun /\ stats' = stats /\ converged' = converged
    BY <1>1 DEF EarlierStep, RoundsBegin, RoundsInv, roundsVars, BeforeLabels
  <2>2. stats' = <<>> /\ ~converged'
    BY <2>1 DEF NotBegun
  <2>3. CASE phase' = "stage2" /\ RatedByPanel'
    <3>1. round' = 1 /\ UNCHANGED ct
      BY <1>1, <2>3 DEF EarlierStep, RoundsBegin, BeforeLabels, InRounds, RatedByPanel
    <3>2. DelphiRounds' = DelphiRounds
      BY <3>1 DEF DelphiRounds
    <3>3. QED
      BY <2>2, <2>3, <3>1, <3>2, DelphiRoundsPositive
         DEF ConvergenceInv, ConvergedAtFirstAgreement
  <2>4. CASE phase' # "stage2" \/ ~RatedByPanel'
    <3>1. phase' # "stage3" \/ ~RatedByPanel'
      BY <1>1 DEF EarlierStep, RoundsBegin, BeforeLabels, InRounds, RatedByPanel
    <3>2. QED
      BY <2>2, <2>4, <3>1 DEF ConvergenceInv, ConvergedAtFirstAgreement
  <2>5. QED
    BY <2>3, <2>4
<1>2. CASE WithinRound \/ UNCHANGED vars
  <2>1. UNCHANGED <<round, ct, stats, converged>>
    BY <1>2 DEF WithinRound, roundsVars, roundVars, vars, councilVars, strategyVars, delphiVars
  <2>2. RatedByPanel' = RatedByPanel /\ DelphiRounds' = DelphiRounds
    BY <2>1 DEF RatedByPanel, DelphiRounds
  <2>3. RatedByPanel => phase' \in {phase, "done"}
    BY <1>2 DEF WithinRound, InRounds, vars, councilVars
  <2>4. QED
    BY <2>1, <2>2, <2>3 DEF ConvergenceInv, ConvergedAtFirstAgreement, Agree, Settled
<1>3. CASE DebateJoins /\ Debating
  <2>1. UNCHANGED <<ct, stats>> /\ ~RatedByPanel
    BY <1>3 DEF DebateJoins, DebateStage1Done, Stage1Joined, DebateRoundDone, RoundEnds,
                delphiVars, Debating, RatedByPanel
  <2>2. ~RatedByPanel'
    BY <2>1 DEF RatedByPanel
  <2>3. QED
    BY <2>1, <2>2 DEF ConvergenceInv, ConvergedAtFirstAgreement
<1>4. CASE DelphiRoundDone
  <2>1. PICK now, n : now = computeDelphiStats /\ n = Len(stats) + 1
    OBVIOUS
  <2>2. /\ RatedByPanel /\ phase = "stage2" /\ UNCHANGED ct
        /\ stats' = Append(stats, now)
        /\ converged' <=> phase' = "stage3" /\ Converges(now, round)
        /\ \/ phase' = "done"
           \/ phase' = "stage2" /\ ~Finishes(now) /\ round' = round + 1
           \/ phase' = "stage3" /\ Finishes(now)
    BY <1>4, <2>1 DEF DelphiRoundDone, RoundEnds, Return, configVars
  <2>3. /\ n \in Nat \ {0} /\ n = round /\ Len(stats') = n
        /\ stats' \in Seq(Range(stats'))
        /\ \A i \in 2 .. n - 1 : ~Agree(i)'
        /\ n >= 2 => (Agree(n)' <=> Converges(now, round))
        /\ n < 2 => ~Converges(now, round)
    BY <2>1, <2>2, AgreesIfConverges
  <2>4. DelphiRounds' = DelphiRounds /\ RatedByPanel'
    BY <2>2 DEF DelphiRounds, RatedByPanel
  <2>5. CASE phase' = "done"
    BY <2>3, <2>5 DEF ConvergenceInv, ConvergedAtFirstAgreement
  <2>6. CASE phase' = "stage2" /\ ~Finishes(now) /\ round' = round + 1
    <3>1. ~Converges(now, round) /\ round # DelphiRounds
      BY <2>6 DEF Finishes
    <3>2. ASSUME NEW i \in 2 .. n PROVE ~Agree(i)'
      <4>1. i \in 2 .. n - 1 \/ i = n
        BY <2>3
      <4>2. QED
        BY <2>3, <3>1, <4>1
    <3>3. n <= DelphiRounds /\ DelphiRounds \in Int
      BY <2>2, <2>3, DelphiRoundsPositive DEF ConvergenceInv
    <3>4. round' <= DelphiRounds /\ Len(stats') = round' - 1
      BY <2>3, <2>6, <3>1, <3>3
    <3>5. \A i \in 2 .. Len(stats') : ~Agree(i)'
      BY <2>3, <3>2
    <3>6. QED
      BY <2>3, <2>4, <2>6, <3>4, <3>5 DEF ConvergenceInv, ConvergedAtFirstAgreement
  <2>7. CASE phase' = "stage3" /\ Finishes(now)
    <3> DEFINE agreements == {i \in 2 .. n : Agree(i)'}
    <3>1. agreements \subseteq {n}
      <4>1. ASSUME NEW i \in 2 .. n, i # n PROVE ~Agree(i)'
        <5>1. i \in 2 .. n - 1
          BY <2>3, <4>1
        <5>2. QED
          BY <2>3, <5>1
      <4>2. QED
        BY <4>1
    <3>2. Converges(now, round) <=> agreements # {}
      <4>1. CASE n >= 2
        <5>1. n \in 2 .. n
          BY <2>3, <4>1
        <5>2. Agree(n)' <=> n \in agreements
          BY <5>1
        <5> HIDE DEF agreements
        <5>3. QED
          BY <2>3, <3>1, <4>1, <5>2
      <4>2. CASE n < 2
        <5>1. 2 .. n = {}
          BY <2>3, <4>2
        <5>2. QED
          BY <2>3, <4>2, <5>1
      <4>3. QED
        BY <2>3, <4>1, <4>2
    <3>3. ~converged' => n = DelphiRounds'
      BY <2>2, <2>3, <2>4, <2>7 DEF Finishes
    <3>4. agreements = {i \in 2 .. Len(stats)' : Agree(i)'}
      BY <2>3
    <3> HIDE DEF agreements
    <3>5. ConvergedAtFirstAgreement'
      BY <2>2, <2>3, <2>7, <3>1, <3>2, <3>3, <3>4 DEF ConvergedAtFirstAgreement
    <3>6. QED
      BY <2>3, <2>7, <3>5 DEF ConvergenceInv
  <2>8. QED
    BY <2>2, <2>5, <2>6, <2>7
<1>5. DelphiJoins => RoundsBegin \/ DelphiRoundDone
  BY DelphiJoinsRounds DEF DelphiJoins, DelphiStage1Done, Stage1Joined, RoundOver
<1>6. DebateJoins => Debating
  BY DEF DebateJoins, DebateStage1Done, DebateRoundDone
<1>7. QED
  BY <1>1, <1>2, <1>3, <1>4, <1>5, <1>6, RoundsSteps

\* A panel stops at the first round whose means agree with those of the round
\* before, says so exactly then, and otherwise uses all its rounds
\* (ConvergedAtFirstAgreement), whatever the scores, criteria and threshold.
THEOREM ConvergesAtFirstAgreement == Spec => []ConvergedAtFirstAgreement
<1>1. CouncilInv /\ RoundsInv /\ ConvergenceInv /\ [Next]_vars => ConvergenceInv'
  BY ConvergenceStep
<1>2. ConvergenceInv => ConvergedAtFirstAgreement
  BY DEF ConvergenceInv
<1>3. QED
  BY RoundsInvariant, InitialConvergence, <1>1, <1>2, PTL DEF Spec

---------------------------------------------------------------------------
(* The types of what the rounds keep.                                      *)

\* The first round that has been begun or is over is the first, and so on.
LEMMA RoundsTypedStep ==
  CouncilInv /\ RoundsInv /\ RoundsTypeOK /\ [Next]_vars => RoundsTypeOK'
<1> SUFFICES ASSUME CouncilInv, RoundsInv, RoundsTypeOK, [Next]_vars PROVE RoundsTypeOK'
  OBVIOUS
<1>1. CASE EarlierStep
  <2>1. NotBegun /\ UNCHANGED roundsVars
    BY <1>1 DEF EarlierStep, RoundsInv
  <2>2. alive' = {} /\ round' = 0 /\ previous' = <<>> /\ transcript' = <<>>
    BY <2>1 DEF NotBegun, roundsVars, roundVars
  <2>3. QED
    BY <2>2 DEF RoundsTypeOK
<1>2. CASE WithinRound \/ UNCHANGED vars
  <2>1. UNCHANGED <<alive, round, previous, transcript, seated, labels>>
    BY <1>2 DEF WithinRound, roundsVars, roundVars, vars, councilVars, strategyVars
  <2>2. QED
    BY <2>1 DEF RoundsTypeOK, Labels, LabelsOf
<1>3. CASE RoundsBegin
  <2>1. transcript' = <<>>
    BY <1>3 DEF RoundsBegin, RoundsInv, NotBegun, BeforeLabels
  <2>2. CASE phase' = "stage2"
    <3>1. alive' = seated' /\ round' = 1 /\ DOMAIN previous' \in {Labels', {}}
      BY <1>3, <2>2 DEF RoundsBegin, InRounds
    <3>2. QED
      BY <2>1, <3>1 DEF RoundsTypeOK
  <2>3. CASE UNCHANGED <<roundVars, seated, labels>>
    BY <2>3 DEF RoundsTypeOK, roundVars, Labels, LabelsOf
  <2>4. QED
    BY <1>3, <2>2, <2>3 DEF RoundsBegin
<1>4. ASSUME NEW stay, RoundOver(stay) PROVE RoundsTypeOK'
  <2>1. PICK over : over = Over
    OBVIOUS
  <2>2. /\ over \in Nat /\ Over' = over + 1 /\ round = over + 1
        /\ alive = Through(over)
    BY <1>4, <2>1, RoundOverExtends
  <2>3. UNCHANGED <<seated, labels>> /\ alive' \subseteq alive
    BY <1>4 DEF RoundOver
  <2>4. LabelsOf(stay) \subseteq Labels
    BY <1>4 DEF RoundOver, RoundsTypeOK, Labels, LabelsOf
  <2>5. DOMAIN previous' \subseteq Labels
    BY <1>4, <2>4 DEF RoundOver, RoundsTypeOK
  <2>6. round' \in {round, round + 1}
    BY <1>4 DEF RoundOver
  <2>7. round' \in Nat /\ Len(transcript') \in {round' - 1, round', 0}
    <3>1. Len(transcript') = over + 1
      BY <2>2 DEF Over
    <3>2. PICK r \in Nat : r = over + 1 /\ round = r
      BY <2>2
    <3>3. round' = r \/ round' = r + 1
      BY <2>6, <3>2
    <3>4. QED
      BY <3>1, <3>2, <3>3
  <2>8. QED
    BY <2>3, <2>5, <2>7 DEF RoundsTypeOK, Labels, LabelsOf
<1>5. QED
  BY <1>1, <1>2, <1>3, <1>4, RoundsSteps, DebateJoinsRounds, DelphiJoinsRounds

\* No debate has more rounds than DebateRounds.
LastRoundInv ==
  Debating => /\ Over <= DebateRounds
              /\ phase = "stage2" => round <= DebateRounds

\* There is at least one, whatever the configuration says.
LEMMA DebateRoundsPositive ==
  CouncilInv => DebateRounds \in Int /\ DebateRounds >= 1
<1> SUFFICES ASSUME CouncilInv PROVE DebateRounds \in Int /\ DebateRounds >= 1
  OBVIOUS
<1>1. ct.rounds \in Int
  BY DEF CouncilInv, RegistryInv, FittedTypes, CouncilTypes
<1>2. QED
  BY <1>1 DEF DebateRounds

\* Another round begins only if the one that is over was not the last.
LEMMA LastRoundStep ==
  CouncilInv /\ CouncilInv' /\ RoundsInv /\ LastRoundInv /\ [Next]_vars => LastRoundInv'
<1> SUFFICES ASSUME CouncilInv, CouncilInv', RoundsInv, LastRoundInv, [Next]_vars
             PROVE  LastRoundInv'
  OBVIOUS
<1>0. DebateRounds' \in Int /\ DebateRounds' >= 1
  <2>1. ct'.rounds \in Int
    BY DEF CouncilInv, RegistryInv, FittedTypes, CouncilTypes
  <2>2. QED
    BY <2>1 DEF DebateRounds
<1>1. CASE EarlierStep
  <2>1. NotBegun /\ UNCHANGED roundsVars
    BY <1>1 DEF EarlierStep, RoundsInv
  <2>2. round' = 0 /\ Over' = 0
    BY <2>1 DEF NotBegun, roundsVars, roundVars, Over
  <2>3. QED
    BY <1>0, <2>2 DEF LastRoundInv
<1>2. CASE WithinRound \/ UNCHANGED vars
  <2>1. UNCHANGED <<round, transcript, ct>>
    BY <1>2 DEF WithinRound, roundsVars, roundVars, vars, councilVars, strategyVars
  <2>2. Debating' = Debating /\ DebateRounds' = DebateRounds /\ Over' = Over
    BY <2>1 DEF Debating, DebateRounds, Over
  <2>3. Debating /\ phase' = "stage2" => phase = "stage2"
    BY <1>2 DEF WithinRound, InRounds, vars, councilVars
  <2>4. QED
    BY <2>1, <2>2, <2>3 DEF LastRoundInv
<1>3. CASE RoundsBegin
  <2>1. transcript' = <<>> /\ (phase' = "stage2" => round' = 1)
    BY <1>3 DEF RoundsBegin, RoundsInv, NotBegun, BeforeLabels
  <2>2. QED
    BY <1>0, <2>1 DEF LastRoundInv, Over
<1>4. CASE DebateJoins /\ ~RoundsBegin
  <2>1. RoundOver(With("revised")) /\ Debating
    BY <1>4, DebateJoinsRounds
  <2>2. PICK over : over = Over
    OBVIOUS
  <2>3. over \in Nat /\ Over' = over + 1 /\ round = over + 1
    BY <2>1, <2>2, RoundOverExtends
  <2>4. UNCHANGED ct /\ phase = "stage2"
    BY <2>1 DEF RoundOver
  <2>5. DebateRounds' = DebateRounds /\ round <= DebateRounds
    BY <2>1, <2>4 DEF DebateRounds, LastRoundInv
  <2>6. phase' = "stage2" => round' = round + 1 /\ round # DebateRounds
    BY <1>4, <2>4
    DEF DebateJoins, DebateStage1Done, Stage1Joined, DebateRoundDone, RoundEnds, Return
  <2>7. QED
    BY <1>0, <2>3, <2>5, <2>6 DEF LastRoundInv
<1>5. CASE DelphiJoins /\ ~RoundsBegin
  <2>1. RatedByPanel /\ UNCHANGED ct
    BY <1>5 DEF DelphiJoins, DelphiStage1Done, Stage1Joined, DelphiRoundDone, RoundEnds, configVars
  <2>2. ~Debating'
    BY <2>1 DEF RatedByPanel, Debating
  <2>3. QED
    BY <2>2 DEF LastRoundInv
<1>6. QED
  BY <1>1, <1>2, <1>3, <1>4, <1>5, RoundsSteps

\* So nobody drops out after the last round.
LEMMA DropoutsTyped ==
  CouncilInv /\ RoundsInv /\ LastRoundInv /\ DropoutsInv => DebateTypeOK
<1> SUFFICES ASSUME CouncilInv, RoundsInv, LastRoundInv, DropoutsInv, NEW d \in dropouts
             PROVE  d.label \in Labels /\ d.lastRound \in 0 .. DebateRounds - 1
  BY DEF DebateTypeOK
<1>1. PICK i \in seated : RecordOf(d, i)
  BY DEF DropoutsInv
<1>2. Debating
  BY DEF DropoutsInv
<1>3. Over \in Nat /\ Over <= DebateRounds /\ DebateRounds \in Int
  BY <1>2, DebateRoundsPositive DEF RoundsInv, LastRoundInv, Over
<1>4. d.lastRound \in 0 .. Over - 1 /\ d.label = labels.of[i]
  BY <1>1 DEF RecordOf
<1>5. QED
  BY <1>3, <1>4 DEF Labels, LabelsOf

---------------------------------------------------------------------------
(* The types of the ratings and their statistics.                          *)

Scale == 0 .. Top

\* A panel that is rating has scores on the scale for everybody still in.
RatingsInv ==
  /\ RatedByPanel /\ phase = "stage2" => ratings \in [alive -> [Criteria -> Scale]]
  /\ DOMAIN stats = 1 .. Len(stats) /\ Len(stats) \in Nat
  /\ DelphiTypeOK

\* A step that ends no round of ratings: it has no panel, or changes one rating
\* at most, or the ratings begin.
RatingsGiven ==
  /\ UNCHANGED stats
  /\ \/ ~(RatedByPanel' /\ phase' = "stage2")
     \/ UNCHANGED <<ct, phase, alive, ratings>>
     \/ /\ UNCHANGED <<ct, phase, alive>>
        /\ \E i \in DOMAIN slots : \E reply \in RaterReplies :
             ratings' = [ratings EXCEPT ![i] = Scores(reply)]
     \/ ratings' = [i \in alive' |-> NoScores]

\* Every other step ends a round.
LEMMA RatingsSteps ==
  ASSUME Next
  PROVE  RatingsGiven \/ DelphiRoundDone
<1> USE DEF RatingsGiven, Return, strategyVars, delphiVars, RatedByPanel
<1>1. CASE UNCHANGED strategyVars /\ (Startup \/ Request)
  BY <1>1 DEF Startup, Request
<1>2. CASE UNCHANGED strategyVars /\ (Stage0Step \/ RunFull)
  BY <1>2 DEF Stage0Step, Clarify, Propose, Arbiter, Proceed, RunFull
<1>3. CASE UNCHANGED strategyVars /\ CommonStep
  BY <1>3 DEF CommonStep, Stage1Answer, Stage3
<1>4. CASE PeerReviewStep /\ UNCHANGED delphiVars
  BY <1>4 DEF PeerReviewStep, PeerReviewStage1Done, Review, PeerReviewStage2Done, Stage1Joined,
              PeersReview
<1>5. CASE RoleBasedStep /\ UNCHANGED strategyVars
  BY <1>5 DEF RoleBasedStep, Stage1Joined, PlaysRoles
<1>6. CASE MajorityStep /\ UNCHANGED delphiVars
  BY <1>6 DEF MajorityStep, MajorityStage1Done, MajorityStage3, Stage3, Stage1Joined, ByMajority
<1>7. CASE RankRefineStep /\ UNCHANGED delphiVars
  BY <1>7 DEF RankRefineStep, RankRefineStage1Done, Rank, Stage1Joined, Refines
<1>8. CASE MixtureStep /\ UNCHANGED delphiVars
  BY <1>8 DEF MixtureStep, MixtureStage1Done, Aggregate, MixtureStage2Done, Stage1Joined, Mixes
<1>9. CASE DebateStep /\ UNCHANGED delphiVars
  BY <1>9 DEF DebateStep, DebateStage1Done, Revise, DebateRoundDone, RoundEnds, Stage1Joined,
              Debating
<1>10. CASE DelphiStage1Done
  BY <1>10 DEF DelphiStage1Done
<1>11. CASE \E i \in DOMAIN slots : Rate(i)
  BY <1>11 DEF Rate, roundVars
<1>12. QED
  BY <1>1, <1>2, <1>3, <1>4, <1>5, <1>6, <1>7, <1>8, <1>9, <1>10, <1>11
     DEF Next, RunStep, StrategyStep, DelphiStep

\* Whatever a rater replies, its scores are on the scale.
LEMMA ScoresOnScale ==
  /\ NoScores \in [Criteria -> Scale]
  /\ \A reply \in RaterReplies : Scores(reply) \in [Criteria -> Scale]
<1>1. Top \in Nat /\ 0 \in Scale
  BY DelphiAssumption DEF DelphiAssumption, Scale
<1>2. ASSUME NEW v \in -1 .. Top + 1 PROVE clamp(v) \in Scale
  BY <1>1 DEF clamp, Scale
<1>3. ASSUME NEW reply \in RaterReplies, NEW c \in Criteria
      PROVE  (IF reply[c] = Unscored THEN 0 ELSE clamp(reply[c])) \in Scale
  <2>1. reply[c] = Unscored \/ reply[c] \in -1 .. Top + 1
    BY DEF RaterReplies
  <2>2. QED
    BY <1>1, <1>2, <2>1
<1>4. QED
  BY <1>1, <1>3 DEF NoScores, Scores

\* The sum of scores on the scale is between nothing and all that can be given.
LEMMA SumOnScale ==
  ASSUME NEW S, IsFiniteSet(S), NEW f \in [S -> Scale]
  PROVE  SumFunction(f) \in 0 .. Top * Cardinality(S)
<1>1. PICK top \in Int : top = Top
  BY DelphiAssumption DEF DelphiAssumption
<1>2. /\ \A x \in S : f[x] \in Int /\ 0 <= f[x] /\ f[x] <= top
  BY <1>1 DEF Scale
<1>3. f \in [S -> Int]
  BY <1>2
<1>4. PICK low \in [S -> Int], high \in [S -> Int] :
        low = [x \in S |-> 0] /\ high = [x \in S |-> top]
  <2>1. [x \in S |-> 0] \in [S -> Int]
    OBVIOUS
  <2>2. [x \in S |-> top] \in [S -> Int]
    OBVIOUS
  <2>3. QED
    BY <2>1, <2>2
<1>5. PICK n \in Nat : n = Cardinality(S)
  BY FS_CardinalityType
<1>6. SumFunction(low) = 0 * n /\ SumFunction(high) = top * n
  <2>1. 0 \in Int
    OBVIOUS
  <2>2. SumFunction(low) = 0 * n
    BY <1>4, <1>5, <2>1, SumConstant
  <2>3. SumFunction(high) = top * n
    BY <1>4, <1>5, SumConstant
  <2>4. QED
    BY <2>2, <2>3
<1>7. SumFunction(low) <= SumFunction(f)
  <2>1. \A x \in S : low[x] <= f[x]
    BY <1>2, <1>4
  <2>2. QED
    BY <1>3, <2>1, SumMonotonic
<1>8. SumFunction(f) <= SumFunction(high)
  <2>1. \A x \in S : f[x] <= high[x]
    BY <1>2, <1>4
  <2>2. QED
    BY <1>3, <2>1, SumMonotonic
<1>9. SumFunction(f) \in Int
  BY <1>3, SumOf
<1>10. PICK sum \in Int, most \in Int : sum = SumFunction(f) /\ most = top * n
  BY <1>9
<1>11. 0 <= sum /\ sum <= most
  BY <1>6, <1>7, <1>8, <1>10
<1>12. QED
  BY <1>1, <1>5, <1>10, <1>11

\* So the sums of a round are.
LEMMA RoundOnScale ==
  ASSUME CouncilInv, RoundsTypeOK, RatingsInv, RatedByPanel, phase = "stage2", NEW c \in Criteria
  PROVE  computeDelphiStats.sum[c] \in 0 .. Top * computeDelphiStats.raters
<1>1. Rated \subseteq alive /\ Rated \in SUBSET Members
  BY DEF Rated, With, RoundsTypeOK, CouncilInv, LabelsInv
<1>2. IsFiniteSet(Rated)
  BY <1>1, MembersFinite DEF CouncilInv, RegistryInv, FittedTypes
<1>3. PICK f : f = [i \in Rated |-> ratings[i][c]]
  OBVIOUS
<1>4. f \in [Rated -> Scale]
  BY <1>1, <1>3 DEF RatingsInv
<1>5. SumFunction(f) \in 0 .. Top * Cardinality(Rated)
  BY <1>2, <1>4, SumOnScale
<1>6. computeDelphiStats.sum[c] = SumFunction(f)
  BY <1>3 DEF computeDelphiStats
<1>7. computeDelphiStats.raters = Cardinality(Rated)
  BY DEF computeDelphiStats
<1>8. QED
  BY <1>5, <1>6, <1>7

\* Every round adds statistics on the scale.
LEMMA RatingsStep ==
  CouncilInv /\ RoundsTypeOK /\ RatingsInv /\ [Next]_vars => RatingsInv'
<1> SUFFICES ASSUME CouncilInv, RoundsTypeOK, RatingsInv, [Next]_vars PROVE RatingsInv'
  OBVIOUS
<1>1. CASE RatingsGiven
  <2>1. (RatedByPanel /\ phase = "stage2" => ratings \in [alive -> [Criteria -> Scale]])'
    <3>1. CASE UNCHANGED <<ct, phase, alive, ratings>>
      BY <3>1 DEF RatingsInv, RatedByPanel
    <3>2. ASSUME UNCHANGED <<ct, phase, alive>>, NEW i, NEW reply \in RaterReplies,
                 ratings' = [ratings EXCEPT ![i] = Scores(reply)]
          PROVE  (RatedByPanel /\ phase = "stage2"
                    => ratings \in [alive -> [Criteria -> Scale]])'
      <4>1. PICK given : given = Scores(reply)
        OBVIOUS
      <4>2. PICK AllScores : AllScores = [Criteria -> Scale]
        OBVIOUS
      <4>3. given \in AllScores
        BY <4>1, <4>2, ScoresOnScale
      <4>4. RatedByPanel /\ phase = "stage2" => ratings \in [alive -> AllScores]
        BY <4>2 DEF RatingsInv
      <4>5. RatedByPanel' = RatedByPanel /\ phase' = phase /\ alive' = alive
        BY <3>2 DEF RatedByPanel
      <4>6. ratings' = [ratings EXCEPT ![i] = given]
        BY <3>2, <4>1
      <4>7. QED
        BY <4>2, <4>3, <4>4, <4>5, <4>6
    <3>3. CASE ratings' = [i \in alive' |-> NoScores]
      BY <3>3, ScoresOnScale
    <3>4. QED
      BY <1>1, <3>1, <3>2, <3>3 DEF RatingsGiven
  <2>2. UNCHANGED stats
    BY <1>1 DEF RatingsGiven
  <2>3. QED
    BY <2>1, <2>2 DEF RatingsInv, DelphiTypeOK
<1>2. CASE DelphiRoundDone
  <2>1. PICK now : now = computeDelphiStats
    OBVIOUS
  <2>2. /\ RatedByPanel /\ phase = "stage2"
        /\ stats' = Append(stats, now)
        /\ ratings' = [i \in alive' |-> NoScores]
    BY <1>2, <2>1 DEF DelphiRoundDone, RoundEnds
  <2>3. ASSUME NEW c \in Criteria PROVE now.sum[c] \in 0 .. Top * now.raters
    BY <2>1, <2>2, RoundOnScale
  <2>4. PICK n \in Nat : n = Len(stats) /\ DOMAIN stats = 1 .. n
    BY DEF RatingsInv
  <2>5. /\ DOMAIN stats' = 1 .. n + 1 /\ Len(stats') = n + 1
        /\ stats'[n + 1] = now
        /\ \A i \in 1 .. n : stats'[i] = stats[i]
    BY <2>2, <2>4
  <2>6. ASSUME NEW i \in 1 .. n + 1, NEW c \in Criteria
        PROVE  stats'[i].sum[c] \in 0 .. Top * stats'[i].raters
    <3>1. i \in 1 .. n \/ i = n + 1
      OBVIOUS
    <3>2. QED
      BY <2>3, <2>4, <2>5, <3>1 DEF RatingsInv, DelphiTypeOK
  <2>7. ratings' \in [alive' -> [Criteria -> Scale]]
    BY <2>2, ScoresOnScale
  <2>8. DelphiTypeOK'
    BY <2>5, <2>6 DEF DelphiTypeOK
  <2>9. QED
    BY <2>5, <2>7, <2>8 DEF RatingsInv
<1>3. CASE UNCHANGED vars
  BY <1>3, <1>1 DEF vars, councilVars, strategyVars, delphiVars, roundVars, RatingsGiven
<1>4. QED
  BY <1>1, <1>2, <1>3, RatingsSteps

\* What the strategies with rounds keep is of its type at every moment.
THEOREM RoundsAreTyped == Spec => [](RoundsTypeOK /\ DebateTypeOK /\ DelphiTypeOK)
<1>1. Init => RoundsTypeOK /\ LastRoundInv /\ RatingsInv
  <2> SUFFICES ASSUME Init PROVE RoundsTypeOK /\ LastRoundInv /\ RatingsInv
    OBVIOUS
  <2>1. /\ ct = NoCouncilType /\ alive = {} /\ round = 0 /\ previous = <<>>
        /\ transcript = <<>> /\ stats = <<>> /\ phase = "startup"
    BY DEF Init, CouncilInit, RoundsInit, DelphiInit
  <2>2. RoundsTypeOK
    BY <2>1 DEF RoundsTypeOK
  <2>3. ~Debating
    BY <2>1 DEF Debating, NoCouncilType
  <2>4. RatingsInv
    BY <2>1 DEF RatingsInv, DelphiTypeOK
  <2>5. QED
    BY <2>2, <2>3, <2>4 DEF LastRoundInv
<1>2. CouncilInv /\ RoundsInv /\ DropoutsInv /\ [Next]_vars => DropoutsInv'
  BY DropoutsStep
<1>3. RatingsInv => DelphiTypeOK
  BY DEF RatingsInv
<1>4. QED
  BY RoundsInvariant, RoundsTypedStep, LastRoundStep, RatingsStep, InitialDropouts,
     DropoutsTyped, <1>1, <1>2, <1>3, PTL DEF Spec

===========================================================================
