----------------------------- MODULE Rada_proofs ---------------------------
(***************************************************************************)
(* Proofs about what a run of the council shows its client, about what     *)
(* PeerReview and GenerateRankRefine give their chairman, about the limits *)
(* of Stage 0 and what it tells the models, about the types of it all, and *)
(* that every step of a run is one towards its end.                        *)
(***************************************************************************)
EXTENDS Rounds_proofs

---------------------------------------------------------------------------
(* A story as a function of a position: b is 1 if Stage 0 comes first and  *)
(* 0 if not, and n is the number of rounds.                                *)

Kinds == {"stage0_done", "stage0_round_complete", "stage1_complete", "stage2_round_complete",
          "stage2_complete", "stage3_complete"}
AllEvents == [kind : Kinds, round : Int]

At(b, n, k) ==
  IF k <= b THEN Event("stage0_done", 0)
  ELSE IF k = b + 1 THEN Event("stage1_complete", 0)
  ELSE IF k <= b + 1 + n THEN Event("stage2_round_complete", k - b - 1)
  ELSE IF k = b + n + 2 THEN Event("stage2_complete", 0)
  ELSE Event("stage3_complete", 0)

\* The first m events of a story.
Beginning(b, n, m) == [k \in 1 .. m |-> At(b, n, k)]

\* Events are records of a kind and a round.
LEMMA EventIsEvent ==
  ASSUME NEW kind \in Kinds, NEW r \in Int
  PROVE  Event(kind, r) \in AllEvents
BY DEF Event, AllEvents

\* So is what stands at a position of a story.
LEMMA AtIsEvent ==
  ASSUME NEW b \in {0, 1}, NEW n \in Nat, NEW k \in Nat \ {0}
  PROVE  At(b, n, k) \in AllEvents
<1>1. k - b - 1 \in Int
  OBVIOUS
<1>2. QED
  BY <1>1, EventIsEvent DEF At, Kinds

\* The beginning of a story is a sequence of as many events as it is long.
LEMMA BeginningIsSequence ==
  ASSUME NEW b \in {0, 1}, NEW n \in Nat, NEW m \in Nat
  PROVE  /\ Beginning(b, n, m) \in Seq(AllEvents)
         /\ Len(Beginning(b, n, m)) = m
         /\ \A k \in 1 .. m : Beginning(b, n, m)[k] = At(b, n, k)
<1>1. Beginning(b, n, m) \in [1 .. m -> AllEvents]
  BY AtIsEvent DEF Beginning
<1>2. \A k \in 1 .. m : Beginning(b, n, m)[k] = At(b, n, k)
  BY DEF Beginning
<1>3. QED
  BY <1>1, <1>2, IsSequence

\* One event more.
LEMMA NextEvent ==
  ASSUME NEW b \in {0, 1}, NEW n \in Nat, NEW m \in Nat
  PROVE  Append(Beginning(b, n, m), At(b, n, m + 1)) = Beginning(b, n, m + 1)
<1> DEFINE s == Beginning(b, n, m)
           e == At(b, n, m + 1)
           t == Beginning(b, n, m + 1)
<1> HIDE DEF s, t
<1>1. /\ s \in Seq(AllEvents) /\ Len(s) = m
      /\ \A k \in 1 .. m : s[k] = At(b, n, k)
  <2>1. /\ Beginning(b, n, m) \in Seq(AllEvents)
        /\ Len(Beginning(b, n, m)) = m
        /\ \A k \in 1 .. m : Beginning(b, n, m)[k] = At(b, n, k)
    BY BeginningIsSequence
  <2>2. QED
    BY <2>1 DEF s
<1>2. /\ t \in Seq(AllEvents) /\ Len(t) = m + 1
      /\ \A k \in 1 .. m : t[k] = At(b, n, k)
      /\ t[m + 1] = e
  <2>1. PICK len \in Nat : len = m + 1
    OBVIOUS
  <2>2. /\ Beginning(b, n, len) \in Seq(AllEvents)
        /\ Len(Beginning(b, n, len)) = len
        /\ \A k \in 1 .. len : Beginning(b, n, len)[k] = At(b, n, k)
    BY BeginningIsSequence
  <2>3. t = Beginning(b, n, len) /\ e = At(b, n, len)
    BY <2>1 DEF t, e
  <2> HIDE DEF e
  <2>4. /\ t \in Seq(AllEvents) /\ Len(t) = len
        /\ \A k \in 1 .. len : t[k] = At(b, n, k)
    BY <2>2, <2>3
  <2>5. t[len] = e
    <3>1. len \in 1 .. len
      BY <2>1
    <3>2. QED
      BY <2>3, <2>4, <3>1
  <2>6. \A k \in 1 .. m : k \in 1 .. len
    BY <2>1
  <2>7. QED
    BY <2>1, <2>4, <2>5, <2>6
<1>3. e \in AllEvents
  <2>1. m + 1 \in Nat \ {0}
    OBVIOUS
  <2>2. QED
    BY <2>1, AtIsEvent
<1> HIDE DEF e
<1>4. /\ Append(s, e) \in Seq(AllEvents) /\ Len(Append(s, e)) = m + 1
      /\ \A k \in 1 .. m : Append(s, e)[k] = s[k]
      /\ Append(s, e)[m + 1] = e
  BY <1>1, <1>3, AppendProperties
<1>5. ASSUME NEW k \in 1 .. m + 1 PROVE Append(s, e)[k] = t[k]
  <2>1. k \in 1 .. m \/ k = m + 1
    OBVIOUS
  <2>2. QED
    BY <1>1, <1>2, <1>4, <2>1
<1>6. Append(s, e) = t
  BY <1>1, <1>2, <1>4, <1>5, SeqEqual
<1>7. QED
  BY <1>6 DEF s, t, e

\* A story with one round more begins the same.
LEMMA OneRoundMore ==
  ASSUME NEW b \in {0, 1}, NEW n \in Nat
  PROVE  Beginning(b, n + 1, b + 1 + n) = Beginning(b, n, b + 1 + n)
BY DEF Beginning, At, Event

\* A story with Over rounds is its own beginning of full length.
LEMMA StoriesAreFull ==
  ASSUME Over \in Nat
  PROVE  Stories = {Beginning(b, Over, b + Over + 3) : b \in {0, 1}}
<1> DEFINE n == Over
           Before(b) == IF b = 0 THEN <<>> ELSE <<Event("stage0_done", 0)>>
           one == <<Event("stage1_complete", 0)>>
           rounds == [r \in 1 .. n |-> Event("stage2_round_complete", r)]
           end == <<Event("stage2_complete", 0), Event("stage3_complete", 0)>>
           Story(b) == Before(b) \o one \o rounds \o end
<1>1. Stories = {Story(b) : b \in {0, 1}}
  <2>1. Stories = {before \o one \o rounds \o end : before \in {Before(0), Before(1)}}
    BY DEF Stories, Over
  <2> HIDE DEF one, rounds, end, Before
  <2>2. QED
    BY <2>1
<1>2. ASSUME NEW b \in {0, 1} PROVE Story(b) = Beginning(b, n, b + n + 3)
  <2>1. /\ Before(b) \in Seq(AllEvents) /\ Len(Before(b)) = b
        /\ \A k \in 1 .. b : Before(b)[k] = At(b, n, k)
    <3>1. Event("stage0_done", 0) \in AllEvents
      BY EventIsEvent DEF Kinds
    <3>2. CASE b = 0
      BY <3>2
    <3>3. CASE b = 1
      BY <3>1, <3>3 DEF At
    <3>4. QED
      BY <3>2, <3>3
  <2>2. /\ one \in Seq(AllEvents) /\ Len(one) = 1
        /\ one[1] = At(b, n, b + 1)
    <3>1. Event("stage1_complete", 0) \in AllEvents
      BY EventIsEvent DEF Kinds
    <3>2. At(b, n, b + 1) = Event("stage1_complete", 0)
      BY DEF At
    <3>3. QED
      BY <3>1, <3>2
  <2>3. /\ rounds \in Seq(AllEvents) /\ Len(rounds) = n
        /\ \A k \in 1 .. n : rounds[k] = At(b, n, k + b + 1)
    <3>1. rounds \in [1 .. n -> AllEvents]
      BY EventIsEvent DEF Kinds
    <3>2. ASSUME NEW k \in 1 .. n PROVE rounds[k] = At(b, n, k + b + 1)
      BY DEF At, Event
    <3>3. QED
      BY <3>1, <3>2, IsSequence
  <2>4. /\ end \in Seq(AllEvents) /\ Len(end) = 2
        /\ end[1] = At(b, n, b + n + 2) /\ end[2] = At(b, n, b + n + 3)
    <3>1. /\ Event("stage2_complete", 0) \in AllEvents
          /\ Event("stage3_complete", 0) \in AllEvents
      BY EventIsEvent DEF Kinds
    <3>2. /\ At(b, n, b + n + 2) = Event("stage2_complete", 0)
          /\ At(b, n, b + n + 3) = Event("stage3_complete", 0)
      BY DEF At
    <3>3. QED
      BY <3>1, <3>2
  <2>5. n \in Nat
    OBVIOUS
  <2> HIDE DEF n, one, rounds, end, Before
  <2>6. PICK first : first = Before(b) \o one
    OBVIOUS
  <2>7. /\ first \in Seq(AllEvents) /\ Len(first) = b + 1
        /\ \A k \in 1 .. b + 1 : first[k] = At(b, n, k)
    <3>1. /\ first \in Seq(AllEvents) /\ Len(first) = b + 1
          /\ \A k \in 1 .. b + 1 : first[k] = IF k <= b THEN Before(b)[k] ELSE one[k - b]
      <4>1. /\ first \in Seq(AllEvents) /\ Len(first) = Len(Before(b)) + Len(one)
            /\ \A k \in 1 .. Len(Before(b)) + Len(one) :
                 first[k] = IF k <= Len(Before(b)) THEN Before(b)[k] ELSE one[k - Len(Before(b))]
        BY <2>1, <2>2, <2>6, ConcatProperties
      <4>2. QED
        BY <2>1, <2>2, <4>1
    <3>2. ASSUME NEW k \in 1 .. b + 1 PROVE first[k] = At(b, n, k)
      <4>1. k \in 1 .. b \/ (k = b + 1 /\ k - b = 1)
        OBVIOUS
      <4>2. QED
        BY <2>1, <2>2, <3>1, <4>1
    <3>3. QED
      BY <3>1, <3>2
  <2>8. PICK middle : middle = first \o rounds
    OBVIOUS
  <2>9. /\ middle \in Seq(AllEvents) /\ Len(middle) = b + 1 + n
        /\ \A k \in 1 .. b + 1 + n : middle[k] = At(b, n, k)
    <3>1. /\ middle \in Seq(AllEvents) /\ Len(middle) = b + 1 + n
          /\ \A k \in 1 .. b + 1 + n :
               middle[k] = IF k <= b + 1 THEN first[k] ELSE rounds[k - (b + 1)]
      BY <2>3, <2>5, <2>7, <2>8, ConcatProperties
    <3>2. ASSUME NEW k \in 1 .. b + 1 + n PROVE middle[k] = At(b, n, k)
      <4>1. CASE k <= b + 1
        BY <2>5, <2>7, <3>1, <4>1
      <4>2. CASE ~(k <= b + 1)
        <5>1. k - (b + 1) \in 1 .. n /\ k - (b + 1) + b + 1 = k
          BY <2>5, <4>2
        <5>2. QED
          BY <2>3, <3>1, <4>2, <5>1
      <4>3. QED
        BY <4>1, <4>2
    <3>3. QED
      BY <3>1, <3>2
  <2>10. PICK whole : whole = middle \o end
    OBVIOUS
  <2>11. /\ whole \in Seq(AllEvents) /\ Len(whole) = b + n + 3
         /\ \A k \in 1 .. b + n + 3 : whole[k] = At(b, n, k)
    <3>1. /\ whole \in Seq(AllEvents) /\ Len(whole) = b + n + 3
          /\ \A k \in 1 .. b + n + 3 :
               whole[k] = IF k <= b + 1 + n THEN middle[k] ELSE end[k - (b + 1 + n)]
      <4>1. b + 1 + n + 2 = b + n + 3
        BY <2>5
      <4>2. /\ whole \in Seq(AllEvents) /\ Len(whole) = Len(middle) + Len(end)
            /\ \A k \in 1 .. Len(middle) + Len(end) :
                 whole[k] = IF k <= Len(middle) THEN middle[k] ELSE end[k - Len(middle)]
        BY <2>4, <2>9, <2>10, ConcatProperties
      <4>3. QED
        BY <2>4, <2>9, <4>1, <4>2
    <3>2. ASSUME NEW k \in 1 .. b + n + 3 PROVE whole[k] = At(b, n, k)
      <4>1. CASE k <= b + 1 + n
        BY <2>5, <2>9, <3>1, <4>1
      <4>2. CASE k = b + n + 2
        BY <2>4, <2>5, <3>1, <4>2
      <4>3. CASE k = b + n + 3
        BY <2>4, <2>5, <3>1, <4>3
      <4>4. QED
        BY <2>5, <4>1, <4>2, <4>3
    <3>3. QED
      BY <3>1, <3>2
  <2>12. whole = Beginning(b, n, b + n + 3)
    <3>1. /\ Beginning(b, n, b + n + 3) \in Seq(AllEvents)
          /\ Len(Beginning(b, n, b + n + 3)) = b + n + 3
          /\ \A k \in 1 .. b + n + 3 : Beginning(b, n, b + n + 3)[k] = At(b, n, k)
      <4>1. b + n + 3 \in Nat
        BY <2>5
      <4>2. QED
        BY <2>5, <4>1, BeginningIsSequence
    <3>2. QED
      BY <2>11, <3>1, SeqEqual
  <2>13. QED
    BY <2>6, <2>8, <2>10, <2>12
<1> HIDE DEF Story, n
<1>3. QED
  BY <1>1, <1>2 DEF n

\* Where a story stands, no other story and no questions are told.
LEMMA UnfinishedStory ==
  ASSUME Over \in Nat, NEW b \in {0, 1}, NEW m \in Nat, m <= b + Over + 3,
         events = Beginning(b, Over, m)
  PROVE  /\ events # Questions
         /\ \E story \in Stories : IsPrefix(events, story)
         /\ events \in Stories <=> m = b + Over + 3
<1> DEFINE n == Over
           story == Beginning(b, n, b + n + 3)
<1>1. /\ events \in Seq(AllEvents) /\ Len(events) = m
      /\ \A k \in 1 .. m : events[k] = At(b, n, k)
  <2>1. /\ Beginning(b, n, m) \in Seq(AllEvents)
        /\ Len(Beginning(b, n, m)) = m
        /\ \A k \in 1 .. m : Beginning(b, n, m)[k] = At(b, n, k)
    BY BeginningIsSequence
  <2>2. QED
    BY <2>1
<1>2. n \in Nat /\ b + n + 3 \in Nat
  OBVIOUS
<1> HIDE DEF n
<1>3. /\ story \in Seq(AllEvents) /\ Len(story) = b + n + 3
      /\ \A k \in 1 .. b + n + 3 : story[k] = At(b, n, k)
  <2>1. PICK len \in Nat : len = b + n + 3
    BY <1>2
  <2>2. /\ Beginning(b, n, len) \in Seq(AllEvents)
        /\ Len(Beginning(b, n, len)) = len
        /\ \A k \in 1 .. len : Beginning(b, n, len)[k] = At(b, n, k)
    BY <1>2, BeginningIsSequence
  <2>3. QED
    BY <2>1, <2>2
<1>4. Stories = {Beginning(c, n, c + n + 3) : c \in {0, 1}}
  BY StoriesAreFull DEF n
<1>5. events # Questions
  <2>1. SUFFICES ASSUME events = Questions PROVE FALSE
    OBVIOUS
  <2>2. Len(events) = 1 /\ events[1].kind = "stage0_round_complete"
    BY <2>1 DEF Questions, Event
  <2>3. events[1] = At(b, n, 1)
    BY <1>1, <2>2
  <2>4. At(b, n, 1).kind # "stage0_round_complete"
    BY DEF At, Event
  <2>5. QED
    BY <2>2, <2>3, <2>4
<1>6. IsPrefix(events, story)
  <2>1. SubSeq(events, 1, m) = SubSeq(story, 1, m)
    <3>1. /\ SubSeq(events, 1, m) \in Seq(AllEvents) /\ Len(SubSeq(events, 1, m)) = m
          /\ \A k \in 1 .. m : SubSeq(events, 1, m)[k] = events[k]
      BY <1>1
    <3>2. /\ SubSeq(story, 1, m) \in Seq(AllEvents) /\ Len(SubSeq(story, 1, m)) = m
          /\ \A k \in 1 .. m : SubSeq(story, 1, m)[k] = story[k]
      <4>1. \A k \in 1 .. m : k \in 1 .. b + n + 3
        BY <1>2 DEF n
      <4> HIDE DEF story
      <4>2. \A k \in 1 .. m : story[k] \in AllEvents
        BY <1>2, <1>3, <4>1
      <4>3. m <= Len(story)
        BY <1>3 DEF n
      <4>4. QED
        BY <1>3, <4>2, <4>3, SubSeqProperties
    <3>3. ASSUME NEW k \in 1 .. m PROVE events[k] = story[k]
      <4>1. k \in 1 .. b + n + 3
        BY <1>2 DEF n
      <4>2. QED
        BY <1>1, <1>3, <4>1
    <3> HIDE DEF story
    <3>4. QED
      BY <3>1, <3>2, <3>3, SeqEqual
  <2> HIDE DEF story
  <2>2. QED
    BY <1>1, <1>3, <2>1 DEF IsPrefix, n
<1>7. story \in Stories
  BY <1>4
<1>8. ASSUME events \in Stories PROVE m = b + n + 3
  <2>1. PICK c \in {0, 1} : events = Beginning(c, n, c + n + 3)
    BY <1>4, <1>8
  <2>2. PICK len \in Nat : len = c + n + 3
    BY <1>2
  <2>3. /\ Len(events) = c + n + 3
        /\ \A k \in 1 .. c + n + 3 : events[k] = At(c, n, k)
    <3>1. /\ Beginning(c, n, len) \in Seq(AllEvents)
          /\ Len(Beginning(c, n, len)) = len
          /\ \A k \in 1 .. len : Beginning(c, n, len)[k] = At(c, n, k)
      BY <1>2, BeginningIsSequence
    <3>2. QED
      BY <2>1, <2>2, <3>1
  <2>4. c = b
    <3>1. 1 \in 1 .. m /\ 1 \in 1 .. c + n + 3
      BY <1>1, <1>2, <2>3
    <3>2. At(b, n, 1) = At(c, n, 1)
      BY <1>1, <2>3, <3>1
    <3>3. At(1, n, 1).kind = "stage0_done" /\ At(0, n, 1).kind = "stage1_complete"
      BY DEF At, Event
    <3>4. QED
      BY <3>2, <3>3
  <2>5. QED
    BY <1>1, <2>3, <2>4
<1>9. m = b + n + 3 => events \in Stories
  BY <1>4 DEF n
<1>10. QED
  BY <1>5, <1>6, <1>7, <1>8, <1>9 DEF n

---------------------------------------------------------------------------
(* The steps, as far as the client can tell them apart.                    *)

\* Nothing is told.
SilentStep ==
  /\ UNCHANGED <<events, transcript>>
  /\ \/ UNCHANGED <<phase, outcome, history>>
     \/ phase \in {"startup", "ready", "clarify"} /\ phase' \in {"ready", "clarify", "stage0"}
     \/ phase = "ready" /\ phase' = "run"
     \/ phase = "run" /\ phase' = "stage1"
     \/ phase # "done" /\ phase' = "done" /\ outcome' \notin {"ok", "questions"}

\* Stage 0 lets the council run, or the request ends with questions.
ProceedStep ==
  /\ UNCHANGED transcript
  /\ phase \in {"clarify", "stage0"} /\ phase' = "run"
  /\ events' = Append(events, Event("stage0_done", 0))

AskStep ==
  /\ UNCHANGED <<transcript, history>>
  /\ phase = "stage0" /\ phase' = "done" /\ outcome' = "questions"
  /\ events' = Append(events, Event("stage0_round_complete", Limits!NextRound(Rounds)))

JoinStep ==
  /\ UNCHANGED transcript
  /\ phase = "stage1"
  /\ \/ /\ phase' = "stage2"
        /\ events' = events \o <<Event("stage1_complete", 0)>> \o <<>>
     \/ /\ phase' = "stage3"
        /\ events' = events \o <<Event("stage1_complete", 0)>> \o <<Event("stage2_complete", 0)>>

RoundStep ==
  /\ \E stay : RoundOver(stay)
  /\ LET shownSoFar == Append(events, Event("stage2_round_complete", round))
     IN  \/ phase' = "stage2" /\ events' = shownSoFar
         \/ phase' = "done" /\ outcome' = "roundQuorum" /\ events' = shownSoFar
         \/ phase' = "stage3" /\ events' = Append(shownSoFar, Event("stage2_complete", 0))

Stage2Step ==
  /\ UNCHANGED transcript
  /\ phase = "stage2" /\ phase' = "stage3"
  /\ events' = Append(events, Event("stage2_complete", 0))

Stage3Step ==
  /\ UNCHANGED transcript
  /\ phase = "stage3" /\ phase' = "done" /\ outcome' = "ok"
  /\ events' = Append(events, Event("stage3_complete", 0))

\* Every step of a run tells the client nothing, or the next event or two.
LEMMA EventSteps ==
  ASSUME Next
  PROVE  \/ SilentStep \/ ProceedStep \/ AskStep \/ JoinStep
         \/ RoundStep \/ Stage2Step \/ Stage3Step
<1> USE DEF Return, configVars, strategyVars, stage0Vars, roundVars
<1>1. CASE Startup /\ UNCHANGED <<stage0Vars, strategyVars>>
  BY <1>1 DEF Startup, SilentStep
<1>2. CASE Request /\ UNCHANGED strategyVars
  BY <1>2 DEF Request, SilentStep
<1>3. CASE Stage0Step /\ UNCHANGED strategyVars
  <2>1. CASE Clarify
    BY <1>3, <2>1 DEF Clarify, Proceed, SilentStep, ProceedStep
  <2>2. CASE \E i \in DOMAIN slots : Propose(i)
    BY <1>3, <2>2 DEF Propose, SilentStep
  <2>3. CASE Arbiter
    BY <1>3, <2>3 DEF Arbiter, Proceed, SilentStep, ProceedStep, AskStep
  <2>4. QED
    BY <1>3, <2>1, <2>2, <2>3 DEF Stage0Step
<1>4. CASE RunFull /\ UNCHANGED strategyVars
  BY <1>4 DEF RunFull, SilentStep
<1>5. CASE CommonStep /\ UNCHANGED <<strategyVars, stage0Vars>>
  BY <1>5 DEF CommonStep, Stage1Answer, Stage3, SilentStep, Stage3Step
<1>6. CASE PeerReviewStep /\ UNCHANGED <<roundVars, stage0Vars>>
  BY <1>6 DEF PeerReviewStep, PeerReviewStage1Done, Review, PeerReviewStage2Done, Stage1Joined,
              SilentStep, JoinStep, Stage2Step
<1>7. CASE RoleBasedStep /\ UNCHANGED <<strategyVars, stage0Vars>>
  BY <1>7 DEF RoleBasedStep, Stage1Joined, SilentStep, JoinStep
<1>8. CASE MajorityStep /\ UNCHANGED <<roundVars, stage0Vars>>
  BY <1>8 DEF MajorityStep, MajorityStage1Done, MajorityStage3, Stage3, Stage1Joined,
              SilentStep, JoinStep, Stage3Step
<1>9. CASE RankRefineStep /\ UNCHANGED <<roundVars, stage0Vars>>
  BY <1>9 DEF RankRefineStep, RankRefineStage1Done, Rank, Stage1Joined, SilentStep, JoinStep,
              Stage2Step
<1>10. CASE MixtureStep /\ UNCHANGED <<roundVars, stage0Vars>>
  BY <1>10 DEF MixtureStep, MixtureStage1Done, Aggregate, MixtureStage2Done, Stage1Joined,
               SilentStep, JoinStep, Stage2Step
<1>11. CASE DebateStep /\ UNCHANGED <<stage0Vars, delphiVars>>
  <2>1. CASE DebateStage1Done
    BY <1>11, <2>1 DEF DebateStage1Done, Stage1Joined, SilentStep, JoinStep
  <2>2. CASE \E i \in DOMAIN slots : Revise(i)
    BY <1>11, <2>2 DEF Revise, SilentStep
  <2>3. CASE DebateRoundDone
    <3>1. \E stay : RoundOver(stay)
      BY <1>11, <2>3, DebateJoinsRounds
         DEF DebateJoins, DebateRoundDone, RoundEnds, RoundsBegin
    <3>2. QED
      BY <2>3, <3>1 DEF DebateRoundDone, RoundEnds, RoundStep
  <2>4. QED
    BY <1>11, <2>1, <2>2, <2>3 DEF DebateStep
<1>12. CASE DelphiStep /\ UNCHANGED <<stage0Vars, dropouts>>
  <2>1. CASE DelphiStage1Done
    BY <1>12, <2>1 DEF DelphiStage1Done, Stage1Joined, SilentStep, JoinStep
  <2>2. CASE \E i \in DOMAIN slots : Rate(i)
    BY <1>12, <2>2 DEF Rate, SilentStep
  <2>3. CASE DelphiRoundDone
    <3>1. \E stay : RoundOver(stay)
      BY <1>12, <2>3, DelphiJoinsRounds
         DEF DelphiJoins, DelphiRoundDone, RoundEnds, RoundsBegin
    <3>2. QED
      BY <2>3, <3>1 DEF DelphiRoundDone, RoundEnds, RoundStep
  <2>4. QED
    BY <1>12, <2>1, <2>2, <2>3 DEF DelphiStep
<1>13. QED
  BY <1>1, <1>2, <1>3, <1>4, <1>5, <1>6, <1>7, <1>8, <1>9, <1>10, <1>11, <1>12
     DEF Next, RunStep, StrategyStep

---------------------------------------------------------------------------
(* The inductive invariant of the events: how far the story has been told  *)
(* follows from the phase and the rounds that are over.                    *)

EventsInv ==
  /\ history \in Histories \cup {<<>>}
  /\ phase \in {"startup", "ready", "clarify", "stage0"} => events = <<>>
  /\ phase \in {"run", "stage1"} => \E b \in {0, 1} : events = Beginning(b, Over, b)
  /\ phase = "stage2" => \E b \in {0, 1} : events = Beginning(b, Over, b + Over + 1)
  /\ phase = "stage3" => \E b \in {0, 1} : events = Beginning(b, Over, b + Over + 2)
  /\ phase = "done" =>
       \/ outcome = "ok" /\ \E b \in {0, 1} : events = Beginning(b, Over, b + Over + 3)
       \/ outcome = "questions" /\ events = Questions
       \/ /\ outcome \notin {"ok", "questions"}
          /\ \E b \in {0, 1} : \E m \in 0 .. b + Over + 2 : events = Beginning(b, Over, m)

\* A story of which nothing has been told is empty.
LEMMA NothingTold ==
  ASSUME NEW n \in Nat
  PROVE  Beginning(0, n, 0) = <<>>
BY DEF Beginning

\* In the beginning nothing has been told.
LEMMA InitialEvents == Init => EventsInv
BY DEF Init, CouncilInit, Stage0Init, EventsInv

\* A run keeps the history its request came with, or drops it.
LEMMA HistoryStep ==
  ASSUME EventsInv, [Next]_vars
  PROVE  history' \in Histories \cup {<<>>}
<1> USE DEF stage0Vars
<1>1. CASE UNCHANGED vars
  BY <1>1 DEF vars, EventsInv
<1>2. CASE Next
  BY <1>2 DEF Next, Request, RunStep, Stage0Step, Clarify, Propose, Arbiter, RunFull, EventsInv
<1>3. QED
  BY <1>1, <1>2

\* A history is a sequence of rounds.
LEMMA HistoryTyped ==
  ASSUME history \in Histories \cup {<<>>}
  PROVE  history \in Seq([questions : Seq(STRING), answers : Seq([id : STRING, text : STRING])])
<1> DEFINE R == [questions : Seq(STRING), answers : Seq([id : STRING, text : STRING])]
<1>1. Histories \subseteq Seq(R)
  BY Stage0Assumption DEF Stage0Assumption
<1> HIDE DEF R
<1>2. history \in Seq(R)
  BY <1>1, EmptySeq
<1>3. QED
  BY <1>2 DEF R

\* Clarification counts as everybody does.
LEMMA SameCardinality ==
  ASSUME NEW S
  PROVE  Limits!Cardinality(S) = Cardinality(S)
BY DEF Limits!Cardinality, Cardinality

\* The round Stage 0 announces comes after those of the history.
LEMMA RoundAnnounced ==
  ASSUME EventsInv
  PROVE  Limits!NextRound(Rounds) = Len(history) + 1
<1>1. DOMAIN history = 1 .. Len(history)
  BY HistoryTyped DEF EventsInv
<1>2. PICK n \in Nat : n = Len(history)
  BY HistoryTyped DEF EventsInv
<1>3. Cardinality(1 .. n) = n
  <2>1. 1 \in Int /\ n \in Int
    OBVIOUS
  <2>2. Cardinality(1 .. n) = IF 1 > n THEN 0 ELSE n - 1 + 1
    BY <2>1, FS_Interval
  <2>3. QED
    BY <2>2
<1>4. DOMAIN Rounds = 1 .. n
  BY <1>1, <1>2 DEF Rounds
<1>5. Limits!NextRound(Rounds) = Cardinality(DOMAIN Rounds) + 1
  BY SameCardinality DEF Limits!NextRound
<1>6. QED
  BY <1>2, <1>3, <1>4, <1>5

\* Every step tells the client what is next in the story, or nothing.
LEMMA EventsStep ==
  ASSUME CouncilInv, RoundsInv, EventsInv, [Next]_vars
  PROVE  EventsInv'
<1>1. PICK n \in Nat : n = Over
  BY DEF RoundsInv, Over
<1>2. history' \in Histories \cup {<<>>}
  BY HistoryStep
<1>3. phase \in BeforeLabels => n = 0
  BY <1>1 DEF RoundsInv, NotBegun, Over
<1>4. UNCHANGED transcript => Over' = n
  BY <1>1 DEF Over
<1>5. CASE UNCHANGED <<events, transcript, phase, outcome, history>>
  <2>1. Questions' = Questions
    BY <1>5 DEF Questions
  <2>2. QED
    BY <1>1, <1>2, <1>4, <1>5, <2>1 DEF EventsInv
<1>6. CASE SilentStep
  <2>1. UNCHANGED <<events, transcript>> /\ Over' = n
    BY <1>4, <1>6 DEF SilentStep
  <2>2. CASE UNCHANGED <<phase, outcome, history>>
    BY <1>5, <2>1, <2>2
  <2>3. CASE phase \in {"startup", "ready", "clarify"} /\ phase' \in {"ready", "clarify", "stage0"}
    BY <1>2, <2>1, <2>3 DEF EventsInv
  <2>4. CASE phase = "ready" /\ phase' = "run"
    <3>1. events' = Beginning(0, n, 0)
      BY <2>1, <2>4, NothingTold DEF EventsInv
    <3>2. QED
      BY <1>2, <2>1, <2>4, <3>1 DEF EventsInv
  <2>5. CASE phase = "run" /\ phase' = "stage1"
    BY <1>1, <1>2, <2>1, <2>5 DEF EventsInv
  <2>6. CASE phase # "done" /\ phase' = "done" /\ outcome' \notin {"ok", "questions"}
    <3>1. \E b \in {0, 1} : \E m \in 0 .. b + n + 2 : events = Beginning(b, n, m)
      <4>1. CASE phase \in {"startup", "ready", "clarify", "stage0"}
        <5>1. events = Beginning(0, n, 0)
          BY <4>1, NothingTold DEF EventsInv
        <5>2. 0 \in 0 .. 0 + n + 2
          OBVIOUS
        <5>3. QED
          BY <5>1, <5>2
      <4>2. CASE phase \in {"run", "stage1"}
        <5>1. PICK b \in {0, 1} : events = Beginning(b, n, b)
          BY <1>1, <4>2 DEF EventsInv
        <5>2. b \in 0 .. b + n + 2
          OBVIOUS
        <5>3. QED
          BY <5>1, <5>2
      <4>3. CASE phase = "stage2"
        <5>1. PICK b \in {0, 1} : events = Beginning(b, n, b + n + 1)
          BY <1>1, <4>3 DEF EventsInv
        <5>2. b + n + 1 \in 0 .. b + n + 2
          OBVIOUS
        <5>3. QED
          BY <5>1, <5>2
      <4>4. CASE phase = "stage3"
        <5>1. PICK b \in {0, 1} : events = Beginning(b, n, b + n + 2)
          BY <1>1, <4>4 DEF EventsInv
        <5>2. b + n + 2 \in 0 .. b + n + 2
          OBVIOUS
        <5>3. QED
          BY <5>1, <5>2
      <4>5. QED
        BY <2>6, <4>1, <4>2, <4>3, <4>4 DEF CouncilInv, RegistryInv, Phases
    <3>2. QED
      BY <1>2, <2>1, <2>6, <3>1 DEF EventsInv
  <2>7. QED
    BY <1>6, <2>2, <2>3, <2>4, <2>5, <2>6 DEF SilentStep
<1>7. CASE ProceedStep
  <2>1. /\ phase \in {"clarify", "stage0"} /\ phase' = "run"
        /\ events' = Append(events, Event("stage0_done", 0)) /\ Over' = n
    BY <1>4, <1>7 DEF ProceedStep
  <2>2. events = Beginning(1, n, 0)
    BY <2>1, NothingTold DEF EventsInv, Beginning
  <2>3. Event("stage0_done", 0) = At(1, n, 0 + 1)
    BY DEF At
  <2>4. events' = Beginning(1, n, 0 + 1)
    <3>1. Append(Beginning(1, n, 0), At(1, n, 0 + 1)) = Beginning(1, n, 0 + 1)
      BY NextEvent
    <3>2. QED
      BY <2>1, <2>2, <2>3, <3>1
  <2>5. QED
    BY <1>2, <2>1, <2>4 DEF EventsInv
<1>8. CASE AskStep
  <2>1. /\ phase = "stage0" /\ phase' = "done" /\ outcome' = "questions" /\ UNCHANGED history
        /\ events' = Append(events, Event("stage0_round_complete", Limits!NextRound(Rounds)))
    BY <1>8 DEF AskStep
  <2>2. events = <<>>
    BY <2>1 DEF EventsInv
  <2>3. events' = Questions'
    BY <2>1, <2>2, RoundAnnounced DEF Questions
  <2>4. QED
    BY <1>2, <2>1, <2>3 DEF EventsInv
<1>9. CASE JoinStep
  <2>1. n = 0 /\ Over' = 0
    BY <1>3, <1>4, <1>9 DEF JoinStep, BeforeLabels
  <2>2. PICK b \in {0, 1} : events = Beginning(b, 0, b)
    BY <1>1, <1>9, <2>1 DEF JoinStep, EventsInv
  <2>3. /\ Append(events, Event("stage1_complete", 0)) = Beginning(b, 0, b + 1)
        /\ Append(Append(events, Event("stage1_complete", 0)), Event("stage2_complete", 0))
             = Beginning(b, 0, b + 2)
    <3>1. /\ Event("stage1_complete", 0) = At(b, 0, b + 1)
          /\ Event("stage2_complete", 0) = At(b, 0, b + 1 + 1)
      BY DEF At
    <3>2. Append(events, At(b, 0, b + 1)) = Beginning(b, 0, b + 1)
      <4>1. b \in Nat /\ 0 \in Nat
        OBVIOUS
      <4>2. QED
        BY <2>2, <4>1, NextEvent
    <3>3. PICK m \in Nat : m = b + 1
      OBVIOUS
    <3>4. Append(Beginning(b, 0, m), At(b, 0, m + 1)) = Beginning(b, 0, m + 1)
      BY NextEvent
    <3>5. m + 1 = b + 2
      BY <3>3
    <3>6. QED
      BY <3>1, <3>2, <3>3, <3>4, <3>5
  <2>4. events \in Seq(AllEvents)
    BY <2>2, BeginningIsSequence
  <2>5. /\ Event("stage1_complete", 0) \in AllEvents
        /\ Event("stage2_complete", 0) \in AllEvents
    BY EventIsEvent DEF Kinds
  <2>6. ASSUME NEW e \in AllEvents, NEW f \in AllEvents
        PROVE  /\ events \o <<e>> \o <<>> = Append(events, e)
               /\ events \o <<e>> \o <<f>> = Append(Append(events, e), f)
    <3>1. Append(events, e) \in Seq(AllEvents) /\ events \o <<e>> = Append(events, e)
      BY <2>4, AppendIsConcat, AppendProperties
    <3>2. Append(events, e) \o <<>> = Append(events, e)
      BY <3>1, ConcatEmptySeq
    <3>3. Append(events, e) \o <<f>> = Append(Append(events, e), f)
      BY <3>1, AppendIsConcat
    <3>4. QED
      BY <3>1, <3>2, <3>3
  <2> DEFINE e == Event("stage1_complete", 0)
             f == Event("stage2_complete", 0)
  <2>7. /\ events \o <<e>> \o <<>> = Append(events, e)
        /\ events \o <<e>> \o <<f>> = Append(Append(events, e), f)
    <3>1. e \in AllEvents /\ f \in AllEvents
      BY <2>5
    <3> HIDE DEF e, f
    <3>2. QED
      BY <2>6, <3>1
  <2>8. /\ phase' = "stage2" => events' = Append(events, e)
        /\ phase' = "stage3" => events' = Append(Append(events, e), f)
    BY <1>9, <2>7 DEF JoinStep
  <2> HIDE DEF e, f
  <2>9. /\ phase' = "stage2" => events' = Beginning(b, 0, b + 1)
        /\ phase' = "stage3" => events' = Beginning(b, 0, b + 2)
    BY <2>3, <2>8 DEF e, f
  <2>10. b + Over' + 1 = b + 1 /\ b + Over' + 2 = b + 2
    BY <2>1
  <2>11. QED
    BY <1>2, <1>9, <2>1, <2>9, <2>10 DEF JoinStep, EventsInv
<1>10. CASE RoundStep
  <2>1. PICK stay : RoundOver(stay)
    BY <1>10 DEF RoundStep
  <2>2. Over' = n + 1 /\ round = n + 1 /\ phase = "stage2"
    BY <1>1, <2>1, RoundOverExtends DEF RoundOver
  <2>3. PICK b \in {0, 1} : events = Beginning(b, n, b + n + 1)
    BY <1>1, <2>2 DEF EventsInv
  <2> DEFINE once == Append(events, Event("stage2_round_complete", round))
  <2>4. PICK more \in Nat : more = n + 1
    OBVIOUS
  <2>5. once = Beginning(b, more, b + more + 1)
    <3>1. PICK m \in Nat : m = b + n + 1
      OBVIOUS
    <3>2. events = Beginning(b, more, m)
      BY <2>3, <2>4, <3>1, OneRoundMore
    <3>3. Event("stage2_round_complete", round) = At(b, more, m + 1)
      BY <2>2, <2>4, <3>1 DEF At
    <3>4. once = Beginning(b, more, m + 1)
      <4>1. Append(Beginning(b, more, m), At(b, more, m + 1)) = Beginning(b, more, m + 1)
        BY NextEvent
      <4>2. QED
        BY <3>2, <3>3, <4>1
    <3>5. m + 1 = b + more + 1
      BY <2>4, <3>1
    <3>6. QED
      BY <3>4, <3>5
  <2>6. Append(once, Event("stage2_complete", 0)) = Beginning(b, more, b + more + 2)
    <3>1. PICK m \in Nat : m = b + more + 1
      OBVIOUS
    <3>2. Event("stage2_complete", 0) = At(b, more, m + 1)
      BY <3>1 DEF At
    <3> HIDE DEF once
    <3>3. Append(Beginning(b, more, m), At(b, more, m + 1)) = Beginning(b, more, m + 1)
      BY NextEvent
    <3>4. m + 1 = b + more + 2
      BY <3>1
    <3>5. QED
      BY <2>5, <3>1, <3>2, <3>3, <3>4
  <2>7. \/ phase' = "stage2" /\ events' = once
        \/ phase' = "done" /\ outcome' = "roundQuorum" /\ events' = once
        \/ phase' = "stage3" /\ events' = Append(once, Event("stage2_complete", 0))
    BY <1>10 DEF RoundStep
  <2>8. more = Over' /\ b + more + 1 \in 0 .. b + more + 2
    BY <2>2, <2>4
  <2> HIDE DEF once
  <2>9. CASE phase' = "stage2" /\ events' = once
    BY <1>2, <2>5, <2>8, <2>9 DEF EventsInv
  <2>10. CASE phase' = "done" /\ outcome' = "roundQuorum" /\ events' = once
    BY <1>2, <2>5, <2>8, <2>10 DEF EventsInv
  <2>11. CASE phase' = "stage3" /\ events' = Append(once, Event("stage2_complete", 0))
    BY <1>2, <2>6, <2>8, <2>11 DEF EventsInv
  <2>12. QED
    BY <2>7, <2>9, <2>10, <2>11
<1>11. CASE Stage2Step
  <2>1. /\ phase = "stage2" /\ phase' = "stage3" /\ Over' = n
        /\ events' = Append(events, Event("stage2_complete", 0))
    BY <1>4, <1>11 DEF Stage2Step
  <2>2. PICK b \in {0, 1} : events = Beginning(b, n, b + n + 1)
    BY <1>1, <2>1 DEF EventsInv
  <2>3. PICK m \in Nat : m = b + n + 1
    OBVIOUS
  <2>4. Event("stage2_complete", 0) = At(b, n, m + 1)
    BY <2>3 DEF At
  <2>5. Append(Beginning(b, n, m), At(b, n, m + 1)) = Beginning(b, n, m + 1)
    BY NextEvent
  <2>6. m + 1 = b + n + 2
    BY <2>3
  <2>7. events' = Beginning(b, n, b + n + 2)
    BY <2>1, <2>2, <2>3, <2>4, <2>5, <2>6
  <2>8. QED
    BY <1>2, <2>1, <2>7 DEF EventsInv
<1>12. CASE Stage3Step
  <2>1. /\ phase = "stage3" /\ phase' = "done" /\ outcome' = "ok" /\ Over' = n
        /\ events' = Append(events, Event("stage3_complete", 0))
    BY <1>4, <1>12 DEF Stage3Step
  <2>2. PICK b \in {0, 1} : events = Beginning(b, n, b + n + 2)
    BY <1>1, <2>1 DEF EventsInv
  <2>3. PICK m \in Nat : m = b + n + 2
    OBVIOUS
  <2>4. Event("stage3_complete", 0) = At(b, n, m + 1)
    BY <2>3 DEF At
  <2>5. Append(Beginning(b, n, m), At(b, n, m + 1)) = Beginning(b, n, m + 1)
    BY NextEvent
  <2>6. m + 1 = b + n + 3
    BY <2>3
  <2>7. events' = Beginning(b, n, b + n + 3)
    BY <2>1, <2>2, <2>3, <2>4, <2>5, <2>6
  <2>8. QED
    BY <1>2, <2>1, <2>7 DEF EventsInv
<1>13. UNCHANGED vars => UNCHANGED <<events, transcript, phase, outcome, history>>
  BY DEF vars, councilVars, stage0Vars, strategyVars, roundVars
<1>14. QED
  BY <1>5, <1>6, <1>7, <1>8, <1>9, <1>10, <1>11, <1>12, <1>13, EventSteps

\* How far the story has been told, in one statement for every phase.
LEMMA Told ==
  ASSUME CouncilInv, EventsInv, Over \in Nat
  PROVE  \/ outcome = "questions" /\ events = Questions
         \/ /\ outcome # "questions"
            /\ \E b \in {0, 1} : \E m \in 0 .. b + Over + 3 :
                 events = Beginning(b, Over, m) /\ (outcome = "ok" <=> m = b + Over + 3)
<1>1. PICK n \in Nat : n = Over
  OBVIOUS
<1>2. phase # "done" => outcome = "running"
  BY DEF CouncilInv, RegistryInv
<1> DEFINE Goal == \E b \in {0, 1} : \E m \in 0 .. b + n + 3 :
                     events = Beginning(b, n, m) /\ (outcome = "ok" <=> m = b + n + 3)
<1>3. ASSUME NEW b \in {0, 1}, NEW m \in 0 .. b + n + 3, events = Beginning(b, n, m),
             outcome = "ok" <=> m = b + n + 3
      PROVE  Goal
  BY <1>3
<1> HIDE DEF Goal
<1>4. CASE phase \in {"startup", "ready", "clarify", "stage0"}
  <2>1. events = Beginning(0, n, 0)
    BY <1>4, NothingTold DEF EventsInv
  <2>2. 0 \in 0 .. 0 + n + 3 /\ ~(0 = 0 + n + 3)
    OBVIOUS
  <2>3. Goal
    BY <1>2, <1>3, <1>4, <2>1, <2>2
  <2>4. QED
    BY <1>1, <1>2, <1>4, <2>3 DEF Goal
<1>5. CASE phase \in {"run", "stage1"}
  <2>1. PICK b \in {0, 1} : events = Beginning(b, n, b)
    BY <1>1, <1>5 DEF EventsInv
  <2>2. b \in 0 .. b + n + 3 /\ ~(b = b + n + 3)
    OBVIOUS
  <2>3. Goal
    BY <1>2, <1>3, <1>5, <2>1, <2>2
  <2>4. QED
    BY <1>1, <1>2, <1>5, <2>3 DEF Goal
<1>6. CASE phase = "stage2"
  <2>1. PICK b \in {0, 1} : events = Beginning(b, n, b + n + 1)
    BY <1>1, <1>6 DEF EventsInv
  <2>2. PICK m \in 0 .. b + n + 3 : m = b + n + 1
    OBVIOUS
  <2>3. ~(m = b + n + 3) /\ events = Beginning(b, n, m)
    BY <2>1, <2>2
  <2>4. Goal
    BY <1>2, <1>3, <1>6, <2>3
  <2>5. QED
    BY <1>1, <1>2, <1>6, <2>4 DEF Goal
<1>7. CASE phase = "stage3"
  <2>1. PICK b \in {0, 1} : events = Beginning(b, n, b + n + 2)
    BY <1>1, <1>7 DEF EventsInv
  <2>2. PICK m \in 0 .. b + n + 3 : m = b + n + 2
    OBVIOUS
  <2>3. ~(m = b + n + 3) /\ events = Beginning(b, n, m)
    BY <2>1, <2>2
  <2>4. Goal
    BY <1>2, <1>3, <1>7, <2>3
  <2>5. QED
    BY <1>1, <1>2, <1>7, <2>4 DEF Goal
<1>8. CASE phase = "done"
  <2>1. CASE outcome = "ok" /\ \E b \in {0, 1} : events = Beginning(b, n, b + n + 3)
    <3>1. PICK b \in {0, 1} : events = Beginning(b, n, b + n + 3)
      BY <2>1
    <3>2. PICK m \in 0 .. b + n + 3 : m = b + n + 3
      OBVIOUS
    <3>3. events = Beginning(b, n, m)
      BY <3>1, <3>2
    <3>4. Goal
      BY <1>3, <2>1, <3>2, <3>3
    <3>5. QED
      BY <1>1, <2>1, <3>4 DEF Goal
  <2>2. CASE /\ outcome \notin {"ok", "questions"}
             /\ \E b \in {0, 1} : \E m \in 0 .. b + n + 2 : events = Beginning(b, n, m)
    <3>1. PICK b \in {0, 1} : \E m \in 0 .. b + n + 2 : events = Beginning(b, n, m)
      BY <2>2
    <3>2. PICK m \in 0 .. b + n + 2 : events = Beginning(b, n, m)
      BY <3>1
    <3>3. m \in 0 .. b + n + 3 /\ ~(m = b + n + 3)
      OBVIOUS
    <3>4. Goal
      BY <1>3, <2>2, <3>2, <3>3
    <3>5. QED
      BY <1>1, <2>2, <3>4 DEF Goal
  <2>3. QED
    BY <1>1, <1>8, <2>1, <2>2 DEF EventsInv
<1>9. QED
  BY <1>4, <1>5, <1>6, <1>7, <1>8 DEF CouncilInv, RegistryInv, Phases

\* Whatever the strategy, the faults and the number of rounds, the client is
\* shown the beginning of one story of a run (runner.go, stage0.go): the whole
\* of it exactly if the run is a success, and the questions of Stage 0 exactly
\* if it ends with those.
THEOREM StoriesAreTold == Spec => []EventsInOrder
<1>1. ASSUME CouncilInv, RoundsInv, EventsInv PROVE EventsInOrder
  <2>1. Over \in Nat
    BY <1>1 DEF RoundsInv, Over
  <2>2. CASE outcome = "questions" /\ events = Questions
    <3>1. ASSUME events \in Stories PROVE FALSE
      <4>1. PICK b \in {0, 1} : events = Beginning(b, Over, b + Over + 3)
        BY <2>1, <3>1, StoriesAreFull
      <4>2. PICK m \in Nat : m = b + Over + 3
        BY <2>1
      <4>3. events = Beginning(b, Over, m) /\ m <= b + Over + 3
        BY <2>1, <4>1, <4>2
      <4>4. events # Questions
        BY <2>1, <4>3, UnfinishedStory
      <4>5. QED
        BY <2>2, <4>4
    <3>2. QED
      BY <2>2, <3>1 DEF EventsInOrder
  <2>3. CASE /\ outcome # "questions"
             /\ \E b \in {0, 1} : \E m \in 0 .. b + Over + 3 :
                  events = Beginning(b, Over, m) /\ (outcome = "ok" <=> m = b + Over + 3)
    <3>1. PICK b \in {0, 1} : \E m \in 0 .. b + Over + 3 :
            events = Beginning(b, Over, m) /\ (outcome = "ok" <=> m = b + Over + 3)
      BY <2>3
    <3>2. PICK m \in 0 .. b + Over + 3 :
            events = Beginning(b, Over, m) /\ (outcome = "ok" <=> m = b + Over + 3)
      BY <3>1
    <3>3. m \in Nat /\ m <= b + Over + 3
      BY <2>1
    <3>4. /\ events # Questions
          /\ \E story \in Stories : IsPrefix(events, story)
          /\ events \in Stories <=> m = b + Over + 3
      BY <2>1, <3>2, <3>3, UnfinishedStory
    <3>5. QED
      BY <2>3, <3>2, <3>4 DEF EventsInOrder
  <2>4. QED
    BY <1>1, <2>1, <2>2, <2>3, Told
<1>2. CouncilInv /\ RoundsInv /\ EventsInv /\ [Next]_vars => EventsInv'
  BY EventsStep
<1>3. QED
  BY <1>1, <1>2, InitialEvents, CouncilInvariant, RoundsInvariant, PTL DEF Spec

---------------------------------------------------------------------------
(* PeerReview: the answers the reviewers and the chairman are given.       *)

After == {"stage2", "stage3"}

ReviewInv == PeersReview /\ phase \in After => responses = LabeledResponses(seated, labels.of)

\* The answers are collected as Stage 1 ends, and neither they nor who gave
\* them change from there on.
LEMMA ReviewSteps ==
  ASSUME Next
  PROVE  \/ ~(PeersReview' /\ phase' \in After)
         \/ responses' = LabeledResponses(seated', labels'.of)
         \/ UNCHANGED <<ct, seated, labels, responses>> /\ phase \in After
<1> USE DEF After, PeersReview, Return, strategyVars, reviewVars
<1>1. CASE UNCHANGED strategyVars /\ (Startup \/ Request)
  BY <1>1 DEF Startup, Request
<1>2. CASE UNCHANGED strategyVars /\ (Stage0Step \/ RunFull)
  BY <1>2 DEF Stage0Step, Clarify, Propose, Arbiter, Proceed, RunFull
<1>3. CASE UNCHANGED strategyVars /\ CommonStep
  BY <1>3 DEF CommonStep, Stage1Answer, Stage3
<1>4. CASE PeerReviewStep
  BY <1>4 DEF PeerReviewStep, PeerReviewStage1Done, Review, PeerReviewStage2Done, Stage1Joined
<1>5. CASE RoleBasedStep
  BY <1>5 DEF RoleBasedStep, Stage1Joined, PlaysRoles
<1>6. CASE MajorityStep
  BY <1>6 DEF MajorityStep, MajorityStage1Done, MajorityStage3, Stage3, Stage1Joined, ByMajority
<1>7. CASE RankRefineStep
  BY <1>7 DEF RankRefineStep, RankRefineStage1Done, Rank, Stage1Joined, Refines
<1>8. CASE MixtureStep
  BY <1>8 DEF MixtureStep, MixtureStage1Done, Aggregate, MixtureStage2Done, Stage1Joined, Mixes
<1>9. CASE DebateStep
  BY <1>9 DEF DebateStep, DebateStage1Done, Revise, DebateRoundDone, RoundEnds, Stage1Joined,
              Debating
<1>10. CASE DelphiStep
  BY <1>10 DEF DelphiStep, DelphiStage1Done, Rate, DelphiRoundDone, RoundEnds, Stage1Joined,
               RatedByPanel
<1>11. QED
  BY <1>1, <1>2, <1>3, <1>4, <1>5, <1>6, <1>7, <1>8, <1>9, <1>10 DEF Next, RunStep, StrategyStep

\* With no model configured twice, a label is on one answer, and every label
\* is on one.
LEMMA AnswersUnderLabels ==
  ASSUME ct \in CouncilTypes, NoModelTwice, seated \subseteq Members,
         labels \in assignLabels(seated), NEW given, given = LabeledResponses(seated, labels.of)
  PROVE  /\ {given[l] : l \in DOMAIN given} = seated
         /\ DOMAIN given = DOMAIN labels.toModel
<1> DEFINE n == Cardinality(seated)
           Under(l) == {i \in seated : labels.of[i] = l}
<1>1. PICK order \in Orders(seated) : labels = Labelled(order, seated)
  BY DEF assignLabels
<1>2. n \in Nat
  BY MembersFinite
<1>3. /\ order \in [1 .. n -> seated]
      /\ \A i \in seated : \E l \in 1 .. n : order[l] = i
  BY DEF Orders, Bijection, Injection, Surjection
<1>4. /\ DOMAIN labels.toModel = 1 .. n
      /\ \A i \in seated : labels.of[i] \in 1 .. n
      /\ \A l \in 1 .. n : order[l] \in seated /\ labels.of[order[l]] = l
  <2>1. PICK L : L = Labelled(order, seated)
    OBVIOUS
  <2>2. /\ DOMAIN L.toModel = 1 .. n
        /\ DOMAIN L.of = seated
        /\ \A i \in seated : L.of[i] \in DOMAIN L.toModel /\ L.toModel[L.of[i]] = Pool(ct)[i]
        /\ \A l \in 1 .. n : order[l] \in seated /\ L.of[order[l]] = l
    BY <2>1, LabelOfItsModel
  <2> HIDE DEF n
  <2>3. QED
    BY <1>1, <2>1, <2>2
<1> HIDE DEF n
<1>5. ASSUME NEW l \in 1 .. n PROVE Under(l) = {order[l]} /\ Max(Under(l)) = order[l]
  <2>1. ASSUME NEW i \in Under(l) PROVE i = order[l]
    <3>1. PICK k \in 1 .. n : order[k] = i
      BY <1>3
    <3>2. QED
      BY <1>4, <3>1
  <2>2. order[l] \in Under(l) /\ order[l] \in Int
    <3>1. Members = 1 .. Len(Pool(ct)) /\ Len(Pool(ct)) \in Nat
      BY PoolIsSequence DEF Members
    <3>2. order[l] \in Members
      BY <1>4
    <3>3. QED
      BY <1>4, <3>1, <3>2
  <2>3. Under(l) = {order[l]}
    BY <2>1, <2>2
  <2>4. Max({order[l], order[l]}) \in {order[l], order[l]}
    BY <2>2, GreaterOfTwo
  <2>5. {order[l], order[l]} = {order[l]}
    OBVIOUS
  <2>6. QED
    BY <2>3, <2>4, <2>5
<1>6. given = [l \in 1 .. n |-> Max(Under(l))]
  <2>1. {labels.of[i] : i \in seated} = 1 .. n
    BY <1>4
  <2>2. QED
    BY <2>1 DEF LabeledResponses
<1> HIDE DEF Under
<1>7. given = [l \in 1 .. n |-> order[l]]
  BY <1>5, <1>6
<1>8. QED
  BY <1>3, <1>4, <1>7

\* Every answer reaches the reviewers and the chairman, and every label they
\* are told of is on an answer, unless a model is configured twice
\* (runPeerReview of runner.go, assignLabels of council.go).
THEOREM AnswersAreReviewed == Spec => []EveryAnswerIsReviewed
<1>1. CouncilInv /\ ReviewInv => EveryAnswerIsReviewed
  <2>1. SUFFICES ASSUME CouncilInv, ReviewInv, PeersReview, NoModelTwice, phase \in After
                 PROVE  EveryAnswerIsReviewed
    BY DEF EveryAnswerIsReviewed, After
  <2>2. /\ ct \in CouncilTypes /\ seated \subseteq Members
        /\ labels \in assignLabels(seated)
        /\ responses = LabeledResponses(seated, labels.of)
    BY <2>1 DEF CouncilInv, RegistryInv, LabelsInv, FittedTypes, ReviewInv, After, PeersReview,
                PlaysRoles
  <2>3. QED
    BY <2>1, <2>2, AnswersUnderLabels DEF EveryAnswerIsReviewed
<1>2. Init => ReviewInv
  BY DEF Init, CouncilInit, ReviewInv, After
<1>3. ReviewInv /\ [Next]_vars => ReviewInv'
  <2>1. SUFFICES ASSUME ReviewInv, [Next]_vars PROVE ReviewInv'
    OBVIOUS
  <2>2. CASE UNCHANGED vars
    BY <2>1, <2>2 DEF vars, councilVars, strategyVars, reviewVars, ReviewInv, PeersReview,
                      LabeledResponses
  <2>3. CASE Next
    BY <2>1, <2>3, ReviewSteps DEF ReviewInv, PeersReview, LabeledResponses
  <2>4. QED
    BY <2>1, <2>2, <2>3
<1>4. QED
  BY <1>1, <1>2, <1>3, CouncilInvariant, PTL DEF Spec

---------------------------------------------------------------------------
(* PeerReview: the rankings and their aggregate.                           *)

\* The k-th of a finite set of numbers is one of them.
LEMMA KthOfSet ==
  ASSUME NEW n \in Nat, NEW S \in SUBSET (1 .. n)
  PROVE  /\ Cardinality(S) \in Nat
         /\ Seats(S) \in [1 .. Cardinality(S) -> S]
<1> DEFINE Kth(s, k, p) == Cardinality({q \in s : q <= p}) = k
           Bad == {s \in SUBSET (1 .. n) :
                     ~(\A k \in 1 .. Cardinality(s) : \E p \in s : Kth(s, k, p))}
<1>1. IsFiniteSet(1 .. n)
  <2>1. 1 \in Int /\ n \in Int
    OBVIOUS
  <2>2. QED
    BY <2>1, FS_Interval
<1>2. ASSUME NEW s \in SUBSET (1 .. n)
      PROVE  IsFiniteSet(s) /\ Cardinality(s) \in Nat
  BY <1>1, FS_Subset, FS_CardinalityType
<1>3. Bad = {}
  <2>1. SUFFICES ASSUME Bad # {} PROVE FALSE
    OBVIOUS
  <2>2. PICK s \in Bad : \A x \in s : s \ {x} \notin Bad
    <3>1. Bad \in SUBSET SUBSET (1 .. n)
      OBVIOUS
    <3> HIDE DEF Bad
    <3>2. QED
      BY <1>1, <2>1, <3>1, SmallestSubset
  <2>3. s \in SUBSET (1 .. n) /\ Cardinality(s) \in Nat /\ IsFiniteSet(s)
    BY <1>2
  <2>4. PICK k \in 1 .. Cardinality(s) : \A p \in s : ~Kth(s, k, p)
    BY <2>2
  <2>5. s # {}
    BY <2>3, <2>4, FS_EmptySet
  <2>6. PICK m : m \in s /\ \A x \in s : m >= x
    <3>1. n \in Int
      OBVIOUS
    <3>2. Max(s) \in s /\ \A x \in s : Max(s) >= x
      BY <2>3, <2>5, <3>1, GreatestElement
    <3>3. QED
      BY <3>2
  <2>7. {q \in s : q <= m} = s
    BY <2>3, <2>6
  <2>8. k # Cardinality(s)
    BY <2>4, <2>6, <2>7
  <2>9. Cardinality(s \ {m}) = Cardinality(s) - 1
    BY <2>3, <2>6, FS_RemoveElement
  <2>10. k \in 1 .. Cardinality(s \ {m}) /\ s \ {m} \in SUBSET (1 .. n)
    <3>1. PICK c \in Nat : c = Cardinality(s)
      BY <2>3
    <3>2. k \in 1 .. c /\ k # c
      BY <2>8, <3>1
    <3>3. k \in 1 .. c - 1
      BY <3>2
    <3>4. QED
      BY <2>3, <2>9, <3>1, <3>3
  <2>11. PICK p \in s \ {m} : Kth(s \ {m}, k, p)
    <3>1. PICK t \in SUBSET (1 .. n) : t = s \ {m} /\ t \notin Bad
      BY <2>2, <2>6, <2>10
    <3> HIDE DEF Kth
    <3>2. \A h \in 1 .. Cardinality(t) : \E p \in t : Kth(t, h, p)
      BY <3>1
    <3>3. QED
      BY <3>1, <3>2, <2>10
  <2>12. {q \in s \ {m} : q <= p} = {q \in s : q <= p}
    <3>1. m \in Int /\ p \in Int /\ m >= p /\ p # m
      BY <2>3, <2>6
    <3>2. QED
      BY <3>1
  <2>13. QED
    BY <2>4, <2>11, <2>12
<1>4. ASSUME NEW k \in 1 .. Cardinality(S) PROVE Seats(S)[k] \in S
  <2>1. \E p \in S : Kth(S, k, p)
    <3> HIDE DEF Kth
    <3>1. S \notin Bad
      BY <1>3
    <3>2. \A h \in 1 .. Cardinality(S) : \E p \in S : Kth(S, h, p)
      BY <3>1
    <3>3. QED
      BY <3>2
  <2>2. QED
    BY <2>1 DEF Seats
<1>5. QED
  BY <1>2, <1>4 DEF Seats

\* What is kept of a reply is a list of labels that answers carry.
LEMMA KnownAreLabels ==
  ASSUME NEW reply \in ReviewReplies
  PROVE  Known(reply) \in Seq(Labels)
<1>1. PICK n \in Nat : n = Len(reply) /\ DOMAIN reply = 1 .. n
  BY PeerReviewAssumption DEF PeerReviewAssumption
<1>2. PICK S \in SUBSET (1 .. n) : S = {p \in DOMAIN reply : reply[p] \in Labels}
  BY <1>1
<1>3. PICK m \in Nat : m = Cardinality(S) /\ Seats(S) \in [1 .. m -> S]
  BY KthOfSet
<1>4. Known(reply) = [k \in 1 .. m |-> reply[Seats(S)[k]]]
  BY <1>2, <1>3 DEF Known
<1>5. ASSUME NEW k \in 1 .. m PROVE reply[Seats(S)[k]] \in Labels
  BY <1>2, <1>3
<1>6. QED
  BY <1>4, <1>5

\* The rankings are of labels that answers carry, and the aggregate is that of
\* the rankings and the labels as they are.
AggregateInv ==
  /\ phase \in BeforeLabels => rankings = <<>>
  /\ rankings \in Seq(Seq(Labels))
  /\ Reviewed => /\ phase \in {"stage3", "done"}
                 /\ aggregate \in CalculateAggregateRankings(rankings, DOMAIN labels.toModel)

\* A step with nothing to rank.
RankingsKept ==
  /\ UNCHANGED <<rankings, aggregate>>
  /\ \/ UNCHANGED <<seated, labels>>
     \/ phase = "stage1"
  /\ phase' \in BeforeLabels => phase \in BeforeLabels
  /\ phase \in {"stage3", "done"} => phase' \in {"stage3", "done"}

\* The rankings begin empty, are given one by one, and are aggregated once.
RankingsBegun ==
  /\ phase = "stage1" /\ phase' = "stage2"
  /\ \E n \in Nat : rankings' = [k \in 1 .. n |-> <<>>]
  /\ UNCHANGED aggregate

RankingGiven ==
  /\ phase = "stage2"
  /\ UNCHANGED <<phase, seated, labels, aggregate>>
  /\ \E k \in DOMAIN slots : \E reply \in ReviewReplies :
       rankings' = [rankings EXCEPT ![k] = Known(reply)]

RankingsAggregated ==
  /\ phase' = "stage3"
  /\ UNCHANGED <<seated, labels, rankings>>
  /\ aggregate' \in CalculateAggregateRankings(rankings, DOMAIN labels.toModel)

\* The steps of PeerReview, and those of all others.
LEMMA AggregateSteps ==
  ASSUME CouncilInv, Next
  PROVE  RankingsKept \/ RankingsBegun \/ RankingGiven \/ RankingsAggregated
<1> USE DEF RankingsKept, Return, strategyVars, reviewVars, BeforeLabels
<1>1. CASE UNCHANGED strategyVars /\ (Startup \/ Request)
  BY <1>1 DEF Startup, Request
<1>2. CASE UNCHANGED strategyVars /\ (Stage0Step \/ RunFull)
  BY <1>2 DEF Stage0Step, Clarify, Propose, Arbiter, Proceed, RunFull
<1>3. CASE UNCHANGED strategyVars /\ CommonStep
  BY <1>3 DEF CommonStep, Stage1Answer, Stage3
<1>4. CASE PeerReviewStage1Done
  <2>1. CASE phase' = "stage2"
    <3>1. seated' = Answered /\ phase = "stage1"
      BY <1>4, <2>1 DEF PeerReviewStage1Done, Stage1Joined
    <3>2. Cardinality(Answered) \in Nat
      <4>1. Answered \in SUBSET Members
        BY DEF Answered
      <4>2. QED
        BY <4>1, MembersFinite DEF CouncilInv, RegistryInv, FittedTypes
    <3>3. PICK n \in Nat : n = Cardinality(seated')
      BY <3>1, <3>2
    <3>4. DOMAIN reviewers' = 1 .. n
      BY <1>4, <2>1, <3>3 DEF PeerReviewStage1Done, Seats
    <3>5. rankings' = [k \in 1 .. n |-> <<>>]
      BY <1>4, <2>1, <3>4 DEF PeerReviewStage1Done
    <3>6. QED
      BY <1>4, <2>1, <3>1, <3>5 DEF PeerReviewStage1Done, RankingsBegun
  <2>2. CASE phase' # "stage2"
    BY <1>4, <2>2 DEF PeerReviewStage1Done, Stage1Joined
  <2>3. QED
    BY <2>1, <2>2
<1>5. ASSUME NEW k \in DOMAIN slots, Review(k) PROVE RankingsKept \/ RankingGiven
  <2>1. phase = "stage2" /\ UNCHANGED <<phase, seated, labels, aggregate>>
    BY <1>5 DEF Review
  <2>2. \/ UNCHANGED rankings
        \/ \E reply \in ReviewReplies : rankings' = [rankings EXCEPT ![k] = Known(reply)]
    BY <1>5 DEF Review
  <2>3. CASE UNCHANGED rankings
    BY <2>1, <2>3
  <2>4. CASE \E reply \in ReviewReplies : rankings' = [rankings EXCEPT ![k] = Known(reply)]
    BY <2>1, <2>4 DEF RankingGiven
  <2>5. QED
    BY <2>2, <2>3, <2>4
<1>6. CASE PeerReviewStage2Done
  BY <1>6 DEF PeerReviewStage2Done, RankingsAggregated
<1>7. CASE UNCHANGED reviewVars /\ RoleBasedStep
  BY <1>7 DEF RoleBasedStep, Stage1Joined
<1>8. CASE UNCHANGED reviewVars /\ MajorityStep
  BY <1>8 DEF MajorityStep, MajorityStage1Done, MajorityStage3, Stage3, Stage1Joined
<1>9. CASE UNCHANGED reviewVars /\ RankRefineStep
  BY <1>9 DEF RankRefineStep, RankRefineStage1Done, Rank, Stage1Joined
<1>10. CASE UNCHANGED reviewVars /\ MixtureStep
  BY <1>10 DEF MixtureStep, MixtureStage1Done, Aggregate, MixtureStage2Done, Stage1Joined
<1>11. CASE UNCHANGED reviewVars /\ DebateStep
  BY <1>11 DEF DebateStep, DebateStage1Done, Revise, DebateRoundDone, RoundEnds, Stage1Joined
<1>12. CASE UNCHANGED reviewVars /\ DelphiStep
  BY <1>12 DEF DelphiStep, DelphiStage1Done, Rate, DelphiRoundDone, RoundEnds, Stage1Joined
<1>13. QED
  BY <1>1, <1>2, <1>3, <1>4, <1>5, <1>6, <1>7, <1>8, <1>9, <1>10, <1>11, <1>12
     DEF Next, RunStep, StrategyStep, PeerReviewStep

\* Nobody has ranked anything at the start.
LEMMA InitialAggregate == Init => AggregateInv
<1> SUFFICES ASSUME Init PROVE AggregateInv
  OBVIOUS
<1>1. rankings = <<>> /\ aggregate = NoRankings
  BY DEF Init, PeerReviewInit
<1>2. QED
  BY <1>1 DEF AggregateInv, Reviewed

\* The rankings and the labels do not change under their aggregate.
LEMMA AggregateStep == CouncilInv /\ AggregateInv /\ [Next]_vars => AggregateInv'
<1> SUFFICES ASSUME CouncilInv, AggregateInv, [Next]_vars PROVE AggregateInv'
  OBVIOUS
<1>1. CASE RankingsKept
  <2>1. CASE UNCHANGED <<seated, labels>>
    BY <1>1, <2>1 DEF RankingsKept, AggregateInv, Reviewed, Labels, LabelsOf
  <2>2. CASE phase = "stage1"
    <3>1. rankings' = <<>> /\ aggregate' = NoRankings
      BY <1>1, <2>2 DEF RankingsKept, AggregateInv, Reviewed, BeforeLabels
    <3>2. QED
      BY <3>1 DEF AggregateInv, Reviewed
  <2>3. QED
    BY <1>1, <2>1, <2>2 DEF RankingsKept
<1>2. CASE RankingsBegun
  <2>1. aggregate' = NoRankings /\ phase' \notin BeforeLabels
    BY <1>2 DEF RankingsBegun, AggregateInv, Reviewed, BeforeLabels
  <2>2. PICK n \in Nat : rankings' = [k \in 1 .. n |-> <<>>]
    BY <1>2 DEF RankingsBegun
  <2>3. rankings' \in Seq(Seq(Labels'))
    BY <2>2
  <2>4. QED
    BY <2>1, <2>3 DEF AggregateInv, Reviewed
<1>3. CASE RankingGiven
  <2>1. phase = "stage2" /\ phase' = phase /\ Labels' = Labels /\ ~Reviewed' /\ ~Reviewed
    BY <1>3 DEF RankingGiven, AggregateInv, Reviewed, Labels, LabelsOf
  <2>2. PICK k \in DOMAIN slots :
          \E reply \in ReviewReplies : rankings' = [rankings EXCEPT ![k] = Known(reply)]
    BY <1>3 DEF RankingGiven
  <2>3. PICK reply \in ReviewReplies : rankings' = [rankings EXCEPT ![k] = Known(reply)]
    BY <2>2
  <2>4. Known(reply) \in Seq(Labels) /\ rankings \in Seq(Seq(Labels))
    BY KnownAreLabels DEF AggregateInv
  <2>5. rankings' \in Seq(Seq(Labels))
    <3>1. PICK n \in Nat : n = Len(rankings) /\ rankings \in [1 .. n -> Seq(Labels)]
      BY <2>4
    <3>2. PICK S : S = Seq(Labels)
      OBVIOUS
    <3>3. rankings' \in [1 .. n -> S]
      BY <2>3, <2>4, <3>1, <3>2
    <3>4. QED
      BY <3>2, <3>3
  <2>6. QED
    BY <2>1, <2>5 DEF AggregateInv, BeforeLabels
<1>4. CASE RankingsAggregated
  BY <1>4 DEF RankingsAggregated, AggregateInv, Labels, LabelsOf, BeforeLabels
<1>5. CASE UNCHANGED vars
  BY <1>5 DEF vars, councilVars, strategyVars, reviewVars, AggregateInv, Reviewed, Labels,
              LabelsOf
<1>6. QED
  BY <1>1, <1>2, <1>3, <1>4, <1>5, AggregateSteps

\* The aggregate of a run is always that of its rankings and labels.
THEOREM AggregateInvariant == Spec => [](CouncilInv /\ LabelledInv /\ AggregateInv)
BY InitialCouncil, CouncilInvariant, LabelledInvariant, InitialAggregate, AggregateStep, PTL
   DEF Spec

\* No label goes before one that all judges with an opinion rank above it, and
\* W is 1 only for judges that agree on all the answers, for any number of
\* judges, models and answers, and any replies in which no label is repeated
\* (CalculateAggregateRankings, runStage2).
THEOREM AgreementIsReal == Spec => []ConsensusIsSound
<1>1. LabelledInv /\ AggregateInv => ConsensusIsSound
  <2>1. SUFFICES ASSUME LabelledInv, AggregateInv, Reviewed,
                        \A k \in {h \in DOMAIN rankings : rankings[h] # <<>>} :
                          IsInjective(rankings[k])
                 PROVE  ConsensusIsSound
    BY DEF ConsensusIsSound
  <2>2. PICK L : L = DOMAIN labels.toModel /\ IsFiniteSet(L) /\ Labels \subseteq L
    BY <2>1 DEF LabelledInv
  <2>3. Ballots(rankings, L)
    <3>1. rankings \in Seq(Seq(L))
      BY <2>1, <2>2 DEF AggregateInv
    <3>2. ASSUME NEW j \in DOMAIN rankings PROVE IsInjective(rankings[j])
      BY <2>1 DEF IsInjective
    <3>3. QED
      BY <3>1, <3>2 DEF Ballots
  <2>4. aggregate \in CalculateAggregateRankings(rankings, L) /\ aggregate # NoRankings
    BY <2>1, <2>2 DEF AggregateInv, Reviewed
  <2>5. QED
    BY <2>2, <2>3, <2>4, AggregateIsSound DEF ConsensusIsSound
<1>2. QED
  BY <1>1, AggregateInvariant, PTL

---------------------------------------------------------------------------
(* GenerateRankRefine: the candidates that advance.                        *)

\* The first K advance, and no candidate is behind one with a lower total.
BestFirst(list) ==
  /\ Len(list) \in Nat /\ DOMAIN list = 1 .. Len(list)
  /\ \A i \in DOMAIN list : list[i].advancing <=> i <= TopK
  /\ \A i, j \in DOMAIN list : i < j => list[i].total >= list[j].total

\* Nobody is ranked before Stage 2; and with the quorum of the strategy more
\* answered than the K that may advance.
RankInv ==
  /\ phase \in BeforeLabels => ranked = <<>>
  /\ BestFirst(ranked)
  /\ Refines /\ phase \in After /\ ct.quorumMin = 0 => Cardinality(seated) >= RankRefineNeed

\* The only step that ranks is the one of the arbiter.
Ranking ==
  /\ phase' = "stage3" /\ UNCHANGED <<ct, seated, labels>>
  /\ \E reply \in ArbiterReplies : \E candidates \in RankedCandidates(reply) :
       ranked' = Marked(candidates)

NoRanking ==
  /\ UNCHANGED ranked
  /\ phase' \in BeforeLabels => phase \in BeforeLabels
  /\ UNCHANGED <<ct, seated, labels>> \/ phase \in BeforeLabels

\* Only the arbiter's step ranks, and Stage 2 is reached past the quorum only.
LEMMA RankSteps ==
  ASSUME Next
  PROVE  /\ Ranking \/ NoRanking
         /\ \/ ~(Refines' /\ phase' \in After)
            \/ UNCHANGED <<ct, seated>> /\ phase \in After
            \/ /\ UNCHANGED ct /\ seated' = Answered
               /\ checkQuorum(Cardinality(Answered), Len(Pool(ct)), RankRefineNeed)
<1> USE DEF After, Refines, Return, strategyVars, BeforeLabels, Ranking, NoRanking
<1>1. CASE UNCHANGED strategyVars /\ (Startup \/ Request)
  BY <1>1 DEF Startup, Request
<1>2. CASE UNCHANGED strategyVars /\ (Stage0Step \/ RunFull)
  BY <1>2 DEF Stage0Step, Clarify, Propose, Arbiter, Proceed, RunFull
<1>3. CASE UNCHANGED strategyVars /\ CommonStep
  BY <1>3 DEF CommonStep, Stage1Answer, Stage3
<1>4. CASE PeerReviewStep /\ UNCHANGED ranked
  BY <1>4 DEF PeerReviewStep, PeerReviewStage1Done, Review, PeerReviewStage2Done, Stage1Joined,
              PeersReview
<1>5. CASE RoleBasedStep /\ UNCHANGED ranked
  BY <1>5 DEF RoleBasedStep, Stage1Joined, PlaysRoles
<1>6. CASE MajorityStep /\ UNCHANGED ranked
  BY <1>6 DEF MajorityStep, MajorityStage1Done, MajorityStage3, Stage3, Stage1Joined, ByMajority
<1>7. CASE RankRefineStep
  BY <1>7 DEF RankRefineStep, RankRefineStage1Done, Rank, Stage1Joined
<1>8. CASE MixtureStep /\ UNCHANGED ranked
  BY <1>8 DEF MixtureStep, MixtureStage1Done, Aggregate, MixtureStage2Done, Stage1Joined, Mixes
<1>9. CASE DebateStep /\ UNCHANGED ranked
  BY <1>9 DEF DebateStep, DebateStage1Done, Revise, DebateRoundDone, RoundEnds, Stage1Joined,
              Debating
<1>10. CASE DelphiStep /\ UNCHANGED ranked
  BY <1>10 DEF DelphiStep, DelphiStage1Done, Rate, DelphiRoundDone, RoundEnds, Stage1Joined,
               RatedByPanel
<1>11. QED
  BY <1>1, <1>2, <1>3, <1>4, <1>5, <1>6, <1>7, <1>8, <1>9, <1>10 DEF Next, RunStep, StrategyStep

\* The quorum of the strategy is above K.
LEMMA TopKIsNumber ==
  ASSUME ct \in CouncilTypes
  PROVE  /\ TopK \in Int
         /\ ct.quorumMin = 0 =>
              RankRefineNeed \in Int /\ RankRefineNeed > TopK /\ RankRefineNeed >= 3
<1>1. TopK \in Int
  BY DEF TopK, CouncilTypes
<1>2. TopK + 1 \in Int /\ 3 \in Int
  BY <1>1
<1>3. PICK k \in Int : k = TopK + 1
  BY <1>2
<1>4. Max({k, 3}) \in {k, 3} /\ Max({k, 3}) >= k /\ Max({k, 3}) >= 3
  <2>1. PICK three \in Int : three = 3
    OBVIOUS
  <2>2. Max({k, three}) \in {k, three} /\ Max({k, three}) >= k /\ Max({k, three}) >= three
    BY GreaterOfTwo
  <2>3. QED
    BY <2>1, <2>2
<1>5. ct.quorumMin = 0 => RankRefineNeed = Max({k, 3})
  BY <1>3 DEF RankRefineNeed
<1>6. QED
  BY <1>1, <1>3, <1>4, <1>5

\* Sorted, no candidate stands behind one with a lower total.
LEMMA MarkedBestFirst ==
  ASSUME NEW reply \in ArbiterReplies, NEW candidates \in RankedCandidates(reply),
         NEW list, list = Marked(candidates)
  PROVE  BestFirst(list)
<1> DEFINE known == {p \in DOMAIN reply : reply[p].label \in Labels}
           n == Cardinality(known)
<1>1. PICK order \in Bijection(1 .. n, known) :
        /\ \A i, j \in DOMAIN order : i < j => ~Better(reply[order[j]], reply[order[i]])
        /\ candidates = [i \in DOMAIN order |-> reply[order[i]]]
  BY DEF RankedCandidates
<1>2. order \in [1 .. n -> known]
  BY DEF Bijection, Injection
<1>3. n \in Nat
  <2>1. DOMAIN reply = 1 .. Len(reply) /\ Len(reply) \in Nat
    BY RankRefineAssumption DEF RankRefineAssumption
  <2>2. IsFiniteSet(DOMAIN reply)
    BY <2>1, FS_Interval
  <2>3. QED
    BY <2>2, FS_Subset, FS_CardinalityType
<1>4. DOMAIN list = 1 .. n
  BY <1>1, <1>2 DEF Marked
<1> HIDE DEF n
<1>5. ASSUME NEW i \in 1 .. n
      PROVE  /\ list[i].total = reply[order[i]].total
             /\ list[i].advancing <=> i <= TopK
             /\ list[i].total \in Nat
  <2>1. reply[order[i]].total \in Nat
    BY <1>2, RankRefineAssumption DEF RankRefineAssumption
  <2>2. QED
    BY <1>1, <1>2, <2>1 DEF Marked
<1>6. ASSUME NEW i \in 1 .. n, NEW j \in 1 .. n, i < j PROVE list[i].total >= list[j].total
  <2>1. ~Better(reply[order[j]], reply[order[i]])
    BY <1>1, <1>2, <1>6
  <2>2. ~(list[j].total > list[i].total)
    BY <1>5, <2>1 DEF Better
  <2>3. QED
    BY <1>5, <2>2
<1>7. Len(list) = n
  BY <1>3, <1>4, <1>1, <1>2 DEF Marked
<1>8. QED
  BY <1>3, <1>4, <1>5, <1>6, <1>7 DEF BestFirst

\* In the beginning nobody is ranked.
LEMMA InitialRank == Init => RankInv
BY DEF Init, CouncilInit, RankRefineInit, RankInv, BestFirst, After

\* No step breaks the order of the candidates or lets K catch up with those
\* that answered.
LEMMA RankStep ==
  ASSUME CouncilInv, RankInv, [Next]_vars
  PROVE  RankInv'
<1>1. CASE UNCHANGED vars
  BY <1>1 DEF vars, councilVars, strategyVars, RankInv, BestFirst, TopK, Refines, RankRefineNeed
<1>2. CASE Next
  <2>1. (phase \in BeforeLabels => ranked = <<>>)' /\ BestFirst(ranked)'
    <3>1. CASE Ranking
      <4>1. UNCHANGED ct /\ phase' \notin BeforeLabels /\ TopK' = TopK
        BY <3>1 DEF Ranking, BeforeLabels, TopK
      <4>2. PICK list : list = ranked'
        OBVIOUS
      <4>3. BestFirst(list)
        BY <3>1, <4>2, MarkedBestFirst DEF Ranking
      <4>4. QED
        BY <4>1, <4>2, <4>3 DEF BestFirst
    <3>2. CASE NoRanking
      <4>1. CASE UNCHANGED ct
        BY <3>2, <4>1 DEF NoRanking, RankInv, BestFirst, TopK
      <4>2. CASE phase \in BeforeLabels
        BY <3>2, <4>2 DEF NoRanking, RankInv, BestFirst
      <4>3. QED
        BY <3>2, <4>1, <4>2 DEF NoRanking
    <3>3. QED
      BY <1>2, <3>1, <3>2, RankSteps
  <2>2. (Refines /\ phase \in After /\ ct.quorumMin = 0
           => Cardinality(seated) >= RankRefineNeed)'
    <3>1. CASE ~(Refines' /\ phase' \in After)
      BY <3>1
    <3>2. CASE UNCHANGED <<ct, seated>> /\ phase \in After
      BY <3>2 DEF RankInv, Refines, RankRefineNeed, TopK
    <3>3. CASE /\ UNCHANGED ct /\ seated' = Answered
               /\ checkQuorum(Cardinality(Answered), Len(Pool(ct)), RankRefineNeed)
      <4>1. ct \in CouncilTypes
        BY DEF CouncilInv, RegistryInv, FittedTypes
      <4>2. ct.quorumMin = 0 => RankRefineNeed \in Int /\ RankRefineNeed >= 3
        BY <4>1, TopKIsNumber
      <4>3. ct.quorumMin = 0 => Cardinality(Answered) >= RankRefineNeed
        BY <3>3, <4>2 DEF checkQuorum
      <4>4. RankRefineNeed' = RankRefineNeed
        BY <3>3 DEF RankRefineNeed, TopK
      <4>5. QED
        BY <3>3, <4>3, <4>4
    <3>4. QED
      BY <1>2, <3>1, <3>2, <3>3, RankSteps
  <2>3. QED
    BY <2>1, <2>2 DEF RankInv
<1>3. QED
  BY <1>1, <1>2

\* Those that advance are at most K.
LEMMA AtMostKAdvance ==
  ASSUME ct \in CouncilTypes, BestFirst(ranked)
  PROVE  /\ Cardinality(Advancing) \in Nat
         /\ Cardinality(Advancing) <= TopK \/ Cardinality(Advancing) = 0
<1> DEFINE through == {j \in DOMAIN ranked : ranked[j].advancing}
<1>1. PICK n \in Nat : n = Len(ranked) /\ DOMAIN ranked = 1 .. n
  BY DEF BestFirst
<1>2. PICK k \in Int : k = TopK
  BY TopKIsNumber
<1>3. through = {j \in 1 .. n : j <= k}
  BY <1>1, <1>2 DEF BestFirst
<1>4. PICK m \in Nat : through = 1 .. m /\ (m <= k \/ m = 0)
  <2>1. CASE k <= 0
    <3>1. through = 1 .. 0
      BY <1>3, <2>1
    <3>2. QED
      BY <3>1
  <2>2. CASE 0 < k /\ k <= n
    <3>1. through = 1 .. k /\ k \in Nat
      BY <1>3, <2>2
    <3>2. QED
      BY <3>1
  <2>3. CASE n < k
    <3>1. through = 1 .. n
      BY <1>3, <2>3
    <3>2. QED
      BY <2>3, <3>1
  <2>4. QED
    BY <2>1, <2>2, <2>3
<1> HIDE DEF through
<1>5. IsFiniteSet(1 .. m) /\ Cardinality(1 .. m) = m
  <2>1. /\ IsFiniteSet(1 .. m)
        /\ Cardinality(1 .. m) = IF 1 > m THEN 0 ELSE m - 1 + 1
    BY FS_Interval
  <2>2. QED
    BY <2>1
<1>6. Advancing = {ranked[i].label : i \in 1 .. m}
  BY <1>4 DEF Advancing, through
<1>7. IsFiniteSet(Advancing) /\ Cardinality(Advancing) <= m
  <2> DEFINE f == [i \in 1 .. m |-> ranked[i].label]
  <2>1. f \in Surjection(1 .. m, Advancing)
    BY <1>6 DEF Surjection
  <2>2. QED
    BY <1>5, <2>1, FS_Surjection
<1>8. Cardinality(Advancing) \in Nat
  BY <1>7, FS_CardinalityType
<1>9. QED
  BY <1>2, <1>4, <1>7, <1>8

\* With the quorum of the strategy somebody that answered does not advance,
\* whatever K is and whatever the arbiter replies; and whoever does not advance
\* is not above somebody that does (runGenerateRankRefine).
THEOREM SomebodyIsRejected == Spec => []OnlyTheBestAdvance
<1>1. ASSUME CouncilInv, RankInv PROVE OnlyTheBestAdvance
  <2>1. ct \in CouncilTypes /\ BestFirst(ranked)
    BY <1>1 DEF CouncilInv, RegistryInv, FittedTypes, RankInv
  <2>2. ASSUME Refines, phase = "stage3", ct.quorumMin = 0
        PROVE  Cardinality(Advancing) < Cardinality(seated)
    <3>1. Cardinality(seated) >= RankRefineNeed
      BY <1>1, <2>2 DEF RankInv, After
    <3>2. RankRefineNeed \in Int /\ RankRefineNeed > TopK /\ RankRefineNeed >= 3 /\ TopK \in Int
      BY <2>1, <2>2, TopKIsNumber
    <3>3. Cardinality(seated) \in Nat
      BY <1>1, <2>1, MembersFinite DEF CouncilInv, LabelsInv
    <3>4. /\ Cardinality(Advancing) \in Nat
          /\ Cardinality(Advancing) <= TopK \/ Cardinality(Advancing) = 0
      BY <2>1, AtMostKAdvance
    <3>5. QED
      BY <3>1, <3>2, <3>3, <3>4
  <2>3. ASSUME NEW i \in DOMAIN ranked, NEW j \in DOMAIN ranked,
               ranked[i].advancing, ~ranked[j].advancing
        PROVE  ranked[i].total >= ranked[j].total
    <3>1. TopK \in Int
      BY <2>1, TopKIsNumber
    <3>2. PICK n \in Nat : DOMAIN ranked = 1 .. n
      BY <2>1 DEF BestFirst
    <3>3. i <= TopK /\ ~(j <= TopK)
      BY <2>1, <2>3 DEF BestFirst
    <3>4. i < j
      BY <3>1, <3>2, <3>3
    <3>5. QED
      BY <2>1, <3>4 DEF BestFirst
  <2>4. QED
    BY <2>2, <2>3 DEF OnlyTheBestAdvance
<1>2. CouncilInv /\ RankInv /\ [Next]_vars => RankInv'
  BY RankStep
<1>3. QED
  BY <1>1, <1>2, InitialRank, CouncilInvariant, PTL DEF Spec

---------------------------------------------------------------------------
(* The limits of Stage 0.  The arbiter's questions are cut to limits that  *)
(* were looked at before the generators were asked; nothing touches the    *)
(* history or the configuration in between.                                *)

LimitsInv ==
  /\ phase = "stage0" => Limits!MayAsk(Rounds)
  /\ QuestionsFitTheLimits

\* An interval is finite.
LEMMA FiniteInterval ==
  ASSUME NEW n \in Nat
  PROVE  IsFiniteSet(1 .. n)
<1>1. 1 \in Int /\ n \in Int
  OBVIOUS
<1>2. QED
  BY <1>1, FS_Interval

\* Stage 0 counts the questions there are, and there are finitely many.
LEMMA QuestionsCounted ==
  ASSUME EventsInv
  PROVE  /\ Limits!Accumulated(Rounds) = Cardinality(Places(history))
         /\ Cardinality(Places(history)) \in Nat
<1> DEFINE Asked(n) == {n} \X DOMAIN history[n].questions
<1>1. /\ DOMAIN history = 1 .. Len(history) /\ Len(history) \in Nat
      /\ \A n \in DOMAIN history :
           /\ DOMAIN history[n].questions = 1 .. Len(history[n].questions)
           /\ Len(history[n].questions) \in Nat
  BY HistoryTyped DEF EventsInv
<1>2. Limits!QuestionsOf(Rounds) = Places(history)
  BY <1>1 DEF Limits!QuestionsOf, Rounds, Places
<1>3. Limits!Accumulated(Rounds) = Cardinality(Places(history))
  BY <1>2, SameCardinality DEF Limits!Accumulated
<1>4. IsFiniteSet({Asked(n) : n \in DOMAIN history})
  <2>1. IsFiniteSet(DOMAIN history)
    BY <1>1, FiniteInterval
  <2> DEFINE T == {Asked(n) : n \in DOMAIN history}
             f == [n \in DOMAIN history |-> Asked(n)]
  <2>2. f \in Surjection(DOMAIN history, T)
    BY DEF Surjection
  <2>3. QED
    BY <2>1, <2>2, FS_Surjection
<1>5. ASSUME NEW n \in DOMAIN history
      PROVE  IsFiniteSet(Asked(n))
  <2>1. IsFiniteSet({n}) /\ IsFiniteSet(DOMAIN history[n].questions)
    BY <1>1, <1>5, FiniteInterval, FS_Singleton
  <2>2. QED
    BY <2>1, FS_Product
<1>6. IsFiniteSet(Places(history))
  <2>1. \A T \in {Asked(n) : n \in DOMAIN history} : IsFiniteSet(T)
    BY <1>5
  <2>2. IsFiniteSet(UNION {Asked(n) : n \in DOMAIN history})
    BY <1>4, <2>1, FS_UNION
  <2>3. QED
    BY <2>2 DEF Places
<1>7. QED
  BY <1>3, <1>6, FS_CardinalityType

\* The limits are integers, and the configuration's own.
LEMMA LimitsAreIntegers ==
  ASSUME CouncilInv
  PROVE  /\ config.clarification.rounds \in Int
         /\ config.clarification.total \in Int
         /\ config.clarification.perRound \in Int
BY Stage0Assumption DEF Stage0Assumption, CouncilInv, RegistryInv

\* What is left of the picked questions fits the limits, if the round may ask
\* at all; below zero are only the limits of a negative configuration.
LEMMA KeptFits ==
  ASSUME CouncilInv, EventsInv, Limits!MayAsk(Rounds), NEW picked \in 0 .. MaxProposed
  PROVE  /\ Len(history) < config.clarification.rounds
         /\ Kept(picked) \in Int
         /\ Kept(picked) <= config.clarification.perRound
         /\ Cardinality(Places(history)) + Kept(picked) <= config.clarification.total
         /\ Kept(picked) < 0 => config.clarification.perRound < 0
<1>1. PICK c \in Nat : c = Cardinality(Places(history)) /\ Limits!Accumulated(Rounds) = c
  BY QuestionsCounted
<1>2. PICK total \in Int, perRound \in Int, rounds \in Int :
        /\ total = config.clarification.total
        /\ perRound = config.clarification.perRound
        /\ rounds = config.clarification.rounds
  BY LimitsAreIntegers
<1>3. c < total /\ Limits!NextRound(Rounds) <= rounds
  BY <1>1, <1>2 DEF Limits!MayAsk
<1>4. Len(history) < rounds
  <2>1. PICK n \in Nat : n = Len(history)
    BY HistoryTyped DEF EventsInv
  <2>2. n + 1 <= rounds
    BY <1>3, <2>1, RoundAnnounced
  <2>3. QED
    BY <2>1, <2>2
<1>5. PICK limit \in Int : /\ limit = Limits!QuestionLimit(Rounds)
                           /\ limit <= perRound /\ c + limit <= total
                           /\ limit < 0 => perRound < 0
  <2>1. Limits!QuestionLimit(Rounds) = IF total - c < perRound THEN total - c ELSE perRound
    BY <1>1, <1>2 DEF Limits!QuestionLimit
  <2>2. QED
    BY <1>3, <2>1
<1>6. Kept(picked) = IF picked > limit THEN limit ELSE picked
  BY <1>5 DEF Kept
<1>7. picked \in Nat
  BY Stage0Assumption DEF Stage0Assumption
<1>8. /\ Kept(picked) \in Int /\ Kept(picked) <= limit
      /\ Kept(picked) < 0 => limit < 0
  BY <1>6, <1>7
<1>9. QED
  <2>1. PICK kept \in Int : kept = Kept(picked)
    BY <1>8
  <2>2. kept <= limit /\ (kept < 0 => limit < 0)
    BY <1>8, <2>1
  <2>3. kept <= perRound /\ c + kept <= total /\ (kept < 0 => perRound < 0)
    BY <1>5, <2>2
  <2>4. QED
    BY <1>1, <1>2, <1>4, <2>1, <2>3

\* A run enters Stage 0 when the limits let it, and leaves it with what the
\* arbiter picked, cut to the limits.
LEMMA LimitsSteps ==
  ASSUME Next
  PROVE  \/ /\ UNCHANGED <<config, history, asked, outcome>>
            /\ phase' = "stage0" => phase = "stage0"
         \/ /\ UNCHANGED <<config, history, outcome>>
            /\ phase = "clarify" /\ Limits!MayAsk(Rounds)
         \/ /\ phase # "done" /\ phase' # "stage0"
            /\ outcome' = outcome \/ outcome' \notin {"questions", "panic"}
         \/ /\ UNCHANGED <<config, history>>
            /\ phase = "stage0" /\ phase' = "done"
            /\ \E picked \in 0 .. MaxProposed :
                 \/ outcome' = "questions" /\ asked' = Kept(picked) /\ Kept(picked) > 0
                 \/ outcome' = "panic" /\ Kept(picked) < 0
<1> USE DEF Return, configVars, strategyVars, stage0Vars, roundVars
<1>1. CASE Startup /\ UNCHANGED <<stage0Vars, strategyVars>>
  BY <1>1 DEF Startup
<1>2. CASE Request /\ UNCHANGED strategyVars
  BY <1>2 DEF Request
<1>3. CASE Stage0Step /\ UNCHANGED strategyVars
  <2>1. CASE Clarify
    BY <1>3, <2>1 DEF Clarify, Proceed
  <2>2. CASE \E i \in DOMAIN slots : Propose(i)
    BY <1>3, <2>2 DEF Propose
  <2>3. CASE Arbiter
    BY <1>3, <2>3 DEF Arbiter, Proceed
  <2>4. QED
    BY <1>3, <2>1, <2>2, <2>3 DEF Stage0Step
<1>4. CASE RunFull /\ UNCHANGED strategyVars
  BY <1>4 DEF RunFull
<1>5. CASE CommonStep /\ UNCHANGED <<strategyVars, stage0Vars>>
  BY <1>5 DEF CommonStep, Stage1Answer, Stage3
<1>6. CASE PeerReviewStep /\ UNCHANGED <<roundVars, stage0Vars>>
  BY <1>6 DEF PeerReviewStep, PeerReviewStage1Done, Review, PeerReviewStage2Done, Stage1Joined
<1>7. CASE RoleBasedStep /\ UNCHANGED <<strategyVars, stage0Vars>>
  BY <1>7 DEF RoleBasedStep, Stage1Joined
<1>8. CASE MajorityStep /\ UNCHANGED <<roundVars, stage0Vars>>
  BY <1>8 DEF MajorityStep, MajorityStage1Done, MajorityStage3, Stage3, Stage1Joined
<1>9. CASE RankRefineStep /\ UNCHANGED <<roundVars, stage0Vars>>
  BY <1>9 DEF RankRefineStep, RankRefineStage1Done, Rank, Stage1Joined
<1>10. CASE MixtureStep /\ UNCHANGED <<roundVars, stage0Vars>>
  BY <1>10 DEF MixtureStep, MixtureStage1Done, Aggregate, MixtureStage2Done, Stage1Joined
<1>11. CASE DebateStep /\ UNCHANGED <<stage0Vars, delphiVars>>
  BY <1>11 DEF DebateStep, DebateStage1Done, Revise, DebateRoundDone, RoundEnds, Stage1Joined
<1>12. CASE DelphiStep /\ UNCHANGED <<stage0Vars, dropouts>>
  BY <1>12 DEF DelphiStep, DelphiStage1Done, Rate, DelphiRoundDone, RoundEnds, Stage1Joined
<1>13. QED
  BY <1>1, <1>2, <1>3, <1>4, <1>5, <1>6, <1>7, <1>8, <1>9, <1>10, <1>11, <1>12
     DEF Next, RunStep, StrategyStep

\* Whether a round may ask depends on the history and the limits alone.
LEMMA MayAskKept ==
  ASSUME UNCHANGED <<config, history>>, Limits!MayAsk(Rounds)
  PROVE  Limits!MayAsk(Rounds)'
<1>1. Rounds' = Rounds
  BY DEF Rounds
<1>2. QED
  BY <1>1 DEF Limits!MayAsk, Limits!AllEmpty, Limits!NextRound, Limits!Accumulated,
              Limits!QuestionsOf

\* Every step keeps the questions within the limits.
LEMMA LimitsStep ==
  ASSUME CouncilInv, EventsInv, LimitsInv, [Next]_vars
  PROVE  LimitsInv'
<1>1. UNCHANGED <<config, history, asked, outcome>> => (QuestionsFitTheLimits)'
  BY DEF LimitsInv, QuestionsFitTheLimits
<1>2. outcome' \notin {"questions", "panic"} => (QuestionsFitTheLimits)'
  BY DEF QuestionsFitTheLimits
<1>3. CASE UNCHANGED <<config, history, asked, outcome>> /\ (phase' = "stage0" => phase = "stage0")
  BY <1>1, <1>3, MayAskKept DEF LimitsInv
<1>4. CASE /\ UNCHANGED <<config, history, outcome>>
           /\ phase = "clarify" /\ Limits!MayAsk(Rounds)
  <2>1. outcome = "running"
    BY <1>4 DEF CouncilInv, RegistryInv
  <2>2. QED
    BY <1>2, <1>4, <2>1, MayAskKept DEF LimitsInv
<1>5. CASE /\ phase # "done" /\ phase' # "stage0"
           /\ outcome' = outcome \/ outcome' \notin {"questions", "panic"}
  <2>1. outcome = "running"
    BY <1>5 DEF CouncilInv, RegistryInv
  <2>2. QED
    BY <1>2, <1>5, <2>1 DEF LimitsInv
<1>6. ASSUME UNCHANGED <<config, history>>, phase = "stage0", phase' = "done",
             NEW picked \in 0 .. MaxProposed,
             \/ outcome' = "questions" /\ asked' = Kept(picked) /\ Kept(picked) > 0
             \/ outcome' = "panic" /\ Kept(picked) < 0
      PROVE  LimitsInv'
  <2>1. PICK kept \in Int : kept = Kept(picked)
    BY <1>6, KeptFits DEF LimitsInv
  <2>2. /\ Len(history) < config.clarification.rounds
        /\ kept <= config.clarification.perRound
        /\ Cardinality(Places(history)) + kept <= config.clarification.total
        /\ kept < 0 => config.clarification.perRound < 0
    BY <1>6, <2>1, KeptFits DEF LimitsInv
  <2>3. CASE outcome' = "questions" /\ asked' = kept /\ kept > 0
    <3>1. PICK perRound \in Int : perRound = config.clarification.perRound
      BY LimitsAreIntegers
    <3>2. asked' \in 1 .. perRound
      BY <2>2, <2>3, <3>1
    <3>3. QED
      BY <1>6, <2>2, <2>3, <3>1, <3>2 DEF LimitsInv, QuestionsFitTheLimits, Places
  <2>4. CASE outcome' = "panic" /\ kept < 0
    BY <1>6, <2>2, <2>4 DEF LimitsInv, QuestionsFitTheLimits
  <2>5. QED
    BY <1>6, <2>1, <2>3, <2>4
<1>7. CASE UNCHANGED vars
  BY <1>3, <1>7 DEF vars, councilVars, stage0Vars, configVars
<1>8. CASE Next
  BY <1>3, <1>4, <1>5, <1>6, <1>8, LimitsSteps
<1>9. QED
  BY <1>7, <1>8

\* The events told and the limits kept are invariants of a run.
THEOREM LimitsInvariant == Spec => [](EventsInv /\ LimitsInv)
<1>1. Init => LimitsInv
  BY DEF Init, CouncilInit, LimitsInv, QuestionsFitTheLimits
<1>2. CouncilInv /\ EventsInv /\ LimitsInv /\ [Next]_vars => LimitsInv'
  BY LimitsStep
<1>3. CouncilInv /\ RoundsInv /\ EventsInv /\ [Next]_vars => EventsInv'
  BY EventsStep
<1>4. QED
  BY <1>1, <1>2, <1>3, InitialEvents, RoundsInvariant, PTL DEF Spec

\* However the limits were set when the earlier rounds were asked, and whatever
\* the arbiter picks, the rounds and questions stay within them
\* (RunClarificationRound and runStage0Chairman of runner.go).
THEOREM QuestionsStayWithinLimits == Spec => []QuestionsFitTheLimits
<1>1. LimitsInv => QuestionsFitTheLimits
  BY DEF LimitsInv
<1>2. QED
  BY <1>1, LimitsInvariant, PTL

---------------------------------------------------------------------------
(* What Stage 0 tells the models.  The prompts are made from the history   *)
(* of the request; the rest is about what the lookup of an answer finds.   *)

PromptInv ==
  /\ phase = "run" /\ history # <<>> => told = BuildAugmentedQuery(history)
  /\ phase = "stage0" => shown = BuildStage0GeneratorPrompt(history)

\* The text is that of the answer to the question, or blank if there is none.
IsAnswer(r, i, text) ==
  /\ \A k \in DOMAIN r.answers :
       r.answers[k].id = r.questions[i] /\ r.answers[k].text # Blank => text = r.answers[k].text
  /\ text # Blank =>
       \E k \in DOMAIN r.answers :
         r.answers[k].id = r.questions[i] /\ r.answers[k].text = text

\* Of one answer the first is that answer.
LEMMA FirstOfOne ==
  ASSUME NEW r, NEW k \in Int
  PROVE  FirstText(r, {k}) = r.answers[k].text
<1>1. Min({k}) = k
  BY DEF Min
<1>2. QED
  BY <1>1 DEF FirstText

\* The query of the council finds the answer to a question by its ID.
LEMMA FoundByID ==
  ASSUME NEW r, NEW i \in DOMAIN r.questions, Identified(r), DOMAIN r.answers \subseteq Int
  PROVE  IsAnswer(r, i, AnswerByID(r, i))
<1> DEFINE named == {k \in DOMAIN r.answers : r.answers[k].id = r.questions[i]}
<1>1. AnswerByID(r, i) = FirstText(r, named)
  BY DEF AnswerByID
<1>2. CASE named = {}
  BY <1>1, <1>2 DEF FirstText, IsAnswer
<1>3. ASSUME NEW k \in named
      PROVE  IsAnswer(r, i, AnswerByID(r, i))
  <2>1. named = {k}
    BY <1>3 DEF Identified, IsInjective
  <2>2. AnswerByID(r, i) = r.answers[k].text
    BY <1>1, <2>1, FirstOfOne
  <2>3. QED
    BY <2>1, <2>2 DEF IsAnswer
<1>4. QED
  BY <1>2, <1>3

\* The prompt of the generators finds the same, where no other answer stands
\* at the place of a question that is left blank.
LEMMA FoundByIDOrPosition ==
  ASSUME NEW r, NEW i \in DOMAIN r.questions, Identified(r), DOMAIN r.answers \subseteq Int,
         \/ \A k \in DOMAIN r.answers : r.answers[k].id = r.questions[k]
         \/ /\ {a.id : a \in ToSet(r.answers)} = ToSet(r.questions)
            /\ \A a \in ToSet(r.answers) : a.text # Blank
  PROVE  IsAnswer(r, i, AnswerByIDOrPosition(r, i))
<1> DEFINE given == {k \in DOMAIN r.answers : r.answers[k].text # Blank}
           named == {k \in given : r.answers[k].id = r.questions[i]}
<1>1. AnswerByIDOrPosition(r, i) = FirstText(r, IF named # {} THEN named ELSE given \cap {i})
  BY DEF AnswerByIDOrPosition
<1>2. CASE named = {}
  <2>1. i \notin given
    <3>1. CASE \A k \in DOMAIN r.answers : r.answers[k].id = r.questions[k]
      BY <1>2, <3>1
    <3>2. CASE /\ {a.id : a \in ToSet(r.answers)} = ToSet(r.questions)
               /\ \A a \in ToSet(r.answers) : a.text # Blank
      <4>1. r.questions[i] \in {a.id : a \in ToSet(r.answers)}
        BY <3>2 DEF ToSet
      <4>2. PICK k \in DOMAIN r.answers : r.answers[k].id = r.questions[i]
        BY <4>1 DEF ToSet
      <4>3. k \in named
        BY <3>2, <4>2 DEF ToSet
      <4>4. QED
        BY <1>2, <4>3
    <3>3. QED
      BY <3>1, <3>2
  <2>2. given \cap {i} = {}
    BY <2>1
  <2>3. AnswerByIDOrPosition(r, i) = Blank
    BY <1>1, <1>2, <2>2 DEF FirstText
  <2>4. QED
    BY <1>2, <2>3 DEF IsAnswer
<1>3. ASSUME NEW k \in named
      PROVE  IsAnswer(r, i, AnswerByIDOrPosition(r, i))
  <2>1. named = {k}
    BY <1>3 DEF Identified, IsInjective
  <2>2. AnswerByIDOrPosition(r, i) = r.answers[k].text
    BY <1>1, <2>1, FirstOfOne
  <2>3. QED
    BY <2>1, <2>2 DEF IsAnswer
<1>4. QED
  BY <1>2, <1>3

\* A prompt that has the answer at the place of each question, and a place for
\* each answer, says what was answered.
LEMMA SaidIsGiven ==
  ASSUME NEW prompt,
         \A r \in ToSet(history) : Identified(r),
         DOMAIN prompt \subseteq Places(history),
         \A n \in DOMAIN history : \A i \in DOMAIN history[n].questions :
           HasAnswers(history[n]) => <<n, i>> \in DOMAIN prompt,
         \A n \in DOMAIN history : \A i \in DOMAIN history[n].questions :
           <<n, i>> \in DOMAIN prompt =>
             \E text : /\ IsAnswer(history[n], i, text)
                       /\ prompt[<<n, i>>] = Shown(history[n], i, text)
  PROVE  Said(prompt) = Given
<1>1. ASSUME NEW n \in DOMAIN history, NEW i \in DOMAIN history[n].questions,
             <<n, i>> \in DOMAIN prompt, prompt[<<n, i>>].answer # Unanswered
      PROVE  <<prompt[<<n, i>>].question, prompt[<<n, i>>].answer>> \in Given
  <2>1. PICK text : /\ IsAnswer(history[n], i, text)
                    /\ prompt[<<n, i>>] = Shown(history[n], i, text)
    BY <1>1
  <2>2. /\ prompt[<<n, i>>].question = history[n].questions[i]
        /\ prompt[<<n, i>>].answer = text
        /\ text \notin {Blank, Unanswered}
    BY <1>1, <2>1 DEF Shown
  <2>3. PICK k \in DOMAIN history[n].answers :
          /\ history[n].answers[k].id = history[n].questions[i]
          /\ history[n].answers[k].text = text
    BY <2>1, <2>2 DEF IsAnswer
  <2>4. history[n].answers[k] \in ToSet(history[n].answers) /\ history[n] \in ToSet(history)
    BY <1>1, <2>3 DEF ToSet
  <2>5. <<history[n].questions[i], text>> \in {<<a.id, a.text>> : a \in ToSet(history[n].answers)}
    BY <2>3, <2>4
  <2>6. QED
    BY <2>2, <2>4, <2>5 DEF Given
<1>2. ASSUME NEW n \in DOMAIN history, NEW k \in DOMAIN history[n].answers,
             history[n].answers[k].text \notin {Blank, Unanswered}
      PROVE  <<history[n].answers[k].id, history[n].answers[k].text>> \in Said(prompt)
  <2>1. Identified(history[n])
    BY <1>2 DEF ToSet
  <2>2. PICK i \in DOMAIN history[n].questions :
          history[n].answers[k].id = history[n].questions[i]
    BY <1>2, <2>1 DEF Identified, ToSet
  <2>3. <<n, i>> \in DOMAIN prompt
    BY <1>2 DEF HasAnswers
  <2>4. PICK text : /\ IsAnswer(history[n], i, text)
                    /\ prompt[<<n, i>>] = Shown(history[n], i, text)
    BY <1>2, <2>3
  <2>5. text = history[n].answers[k].text
    BY <1>2, <2>2, <2>4 DEF IsAnswer
  <2>6. /\ prompt[<<n, i>>].question = history[n].answers[k].id
        /\ prompt[<<n, i>>].answer = history[n].answers[k].text
    BY <1>2, <2>2, <2>4, <2>5 DEF Shown
  <2>7. QED
    BY <1>2, <2>3, <2>6 DEF Said
<1>3. Said(prompt) \subseteq Given
  <2>1. ASSUME NEW p \in DOMAIN prompt, prompt[p].answer # Unanswered
        PROVE  <<prompt[p].question, prompt[p].answer>> \in Given
    <3>1. PICK n \in DOMAIN history : p \in {n} \X DOMAIN history[n].questions
      BY DEF Places
    <3>2. PICK i \in DOMAIN history[n].questions : p = <<n, i>>
      BY <3>1
    <3>3. QED
      BY <1>1, <2>1, <3>2
  <2>2. QED
    BY <2>1 DEF Said
<1>4. Given \subseteq Said(prompt)
  <2>1. ASSUME NEW r \in ToSet(history), NEW a \in ToSet(r.answers),
               a.text \notin {Blank, Unanswered}
        PROVE  <<a.id, a.text>> \in Said(prompt)
    <3>1. PICK n \in DOMAIN history : r = history[n]
      BY DEF ToSet
    <3>2. PICK k \in DOMAIN history[n].answers : a = history[n].answers[k]
      BY <3>1 DEF ToSet
    <3>3. QED
      BY <1>2, <2>1, <3>1, <3>2
  <2>2. QED
    BY <2>1 DEF Given
<1>5. QED
  BY <1>3, <1>4

\* The rounds of a history have their answers at places.
LEMMA AnswersAtPlaces ==
  ASSUME EventsInv
  PROVE  \A n \in DOMAIN history : DOMAIN history[n].answers \subseteq Int
<1>1. ASSUME NEW n \in DOMAIN history
      PROVE  DOMAIN history[n].answers \subseteq Int
  <2> DEFINE R == [questions : Seq(STRING), answers : Seq([id : STRING, text : STRING])]
  <2>1. history \in Seq(R)
    BY HistoryTyped DEF EventsInv
  <2>2. history[n].answers \in Seq([id : STRING, text : STRING])
    <3>1. history[n] \in R
      <4> HIDE DEF R
      <4>1. QED
        BY <2>1, ElementOfSeq
    <3>2. QED
      BY <3>1
  <2>3. QED
    BY <2>2
<1>2. QED
  BY <1>1

\* The query says what was answered.
LEMMA QuerySaysAnswers ==
  ASSUME EventsInv, \A r \in ToSet(history) : Identified(r)
  PROVE  Said(BuildAugmentedQuery(history)) = Given
<1> DEFINE prompt == BuildAugmentedQuery(history)
<1>1. /\ DOMAIN prompt = {p \in Places(history) : HasAnswers(history[p[1]])}
      /\ \A p \in DOMAIN prompt :
           prompt[p] = Shown(history[p[1]], p[2], AnswerByID(history[p[1]], p[2]))
  BY DEF BuildAugmentedQuery
<1> HIDE DEF prompt
<1>2. ASSUME NEW n \in DOMAIN history, NEW i \in DOMAIN history[n].questions
      PROVE  /\ HasAnswers(history[n]) => <<n, i>> \in DOMAIN prompt
             /\ <<n, i>> \in DOMAIN prompt =>
                  \E text : /\ IsAnswer(history[n], i, text)
                            /\ prompt[<<n, i>>] = Shown(history[n], i, text)
  <2>1. <<n, i>> \in Places(history)
    BY DEF Places
  <2>2. IsAnswer(history[n], i, AnswerByID(history[n], i))
    BY FoundByID, AnswersAtPlaces DEF ToSet
  <2>3. QED
    BY <1>1, <2>1, <2>2
<1>3. Said(prompt) = Given
  BY <1>1, <1>2, SaidIsGiven
<1>4. QED
  BY <1>3 DEF prompt

\* So does the prompt of the generators, where the answers are in place.
LEMMA GeneratorsHearAnswers ==
  ASSUME EventsInv, \A r \in ToSet(history) : Identified(r), InPlace
  PROVE  Said(BuildStage0GeneratorPrompt(history)) = Given
<1> DEFINE prompt == BuildStage0GeneratorPrompt(history)
<1>1. /\ DOMAIN prompt = Places(history)
      /\ \A p \in DOMAIN prompt :
           prompt[p] = Shown(history[p[1]], p[2], AnswerByIDOrPosition(history[p[1]], p[2]))
  BY DEF BuildStage0GeneratorPrompt
<1> HIDE DEF prompt
<1>2. ASSUME NEW n \in DOMAIN history, NEW i \in DOMAIN history[n].questions
      PROVE  /\ <<n, i>> \in DOMAIN prompt
             /\ \E text : /\ IsAnswer(history[n], i, text)
                          /\ prompt[<<n, i>>] = Shown(history[n], i, text)
  <2>1. <<n, i>> \in Places(history)
    BY DEF Places
  <2>2. history[n] \in ToSet(history)
    BY DEF ToSet
  <2>3. IsAnswer(history[n], i, AnswerByIDOrPosition(history[n], i))
    BY <2>2, FoundByIDOrPosition, AnswersAtPlaces DEF InPlace
  <2>4. QED
    BY <1>1, <2>1, <2>3
<1>3. Said(prompt) = Given
  BY <1>1, <1>2, SaidIsGiven
<1>4. QED
  BY <1>3 DEF prompt

\* A prompt is made when its phase begins, and the history then stays.
LEMMA PromptSteps ==
  ASSUME Next
  PROVE  \/ UNCHANGED <<history, shown, told>> /\ (phase' \in {"run", "stage0"} => phase' = phase)
         \/ phase' = "run" /\ history' = <<>>
         \/ phase' = "run" /\ UNCHANGED history /\ told' = BuildAugmentedQuery(history)
         \/ /\ phase' = "stage0" /\ UNCHANGED history
            /\ shown' = BuildStage0GeneratorPrompt(history)
         \/ phase' \notin {"run", "stage0"}
<1> USE DEF Return, configVars, strategyVars, stage0Vars, roundVars
<1>1. CASE Startup /\ UNCHANGED <<stage0Vars, strategyVars>>
  BY <1>1 DEF Startup
<1>2. CASE Request /\ UNCHANGED strategyVars
  BY <1>2 DEF Request
<1>3. CASE Stage0Step /\ UNCHANGED strategyVars
  <2>1. CASE Clarify
    BY <1>3, <2>1 DEF Clarify, Proceed
  <2>2. CASE \E i \in DOMAIN slots : Propose(i)
    BY <1>3, <2>2 DEF Propose
  <2>3. CASE Arbiter
    BY <1>3, <2>3 DEF Arbiter, Proceed
  <2>4. QED
    BY <1>3, <2>1, <2>2, <2>3 DEF Stage0Step
<1>4. CASE RunFull /\ UNCHANGED strategyVars
  BY <1>4 DEF RunFull
<1>5. CASE CommonStep /\ UNCHANGED <<strategyVars, stage0Vars>>
  BY <1>5 DEF CommonStep, Stage1Answer, Stage3
<1>6. CASE PeerReviewStep /\ UNCHANGED <<roundVars, stage0Vars>>
  BY <1>6 DEF PeerReviewStep, PeerReviewStage1Done, Review, PeerReviewStage2Done, Stage1Joined
<1>7. CASE RoleBasedStep /\ UNCHANGED <<strategyVars, stage0Vars>>
  BY <1>7 DEF RoleBasedStep, Stage1Joined
<1>8. CASE MajorityStep /\ UNCHANGED <<roundVars, stage0Vars>>
  BY <1>8 DEF MajorityStep, MajorityStage1Done, MajorityStage3, Stage3, Stage1Joined
<1>9. CASE RankRefineStep /\ UNCHANGED <<roundVars, stage0Vars>>
  BY <1>9 DEF RankRefineStep, RankRefineStage1Done, Rank, Stage1Joined
<1>10. CASE MixtureStep /\ UNCHANGED <<roundVars, stage0Vars>>
  BY <1>10 DEF MixtureStep, MixtureStage1Done, Aggregate, MixtureStage2Done, Stage1Joined
<1>11. CASE DebateStep /\ UNCHANGED <<stage0Vars, delphiVars>>
  BY <1>11 DEF DebateStep, DebateStage1Done, Revise, DebateRoundDone, RoundEnds, Stage1Joined
<1>12. CASE DelphiStep /\ UNCHANGED <<stage0Vars, dropouts>>
  BY <1>12 DEF DelphiStep, DelphiStage1Done, Rate, DelphiRoundDone, RoundEnds, Stage1Joined
<1>13. QED
  BY <1>1, <1>2, <1>3, <1>4, <1>5, <1>6, <1>7, <1>8, <1>9, <1>10, <1>11, <1>12
     DEF Next, RunStep, StrategyStep

\* A prompt depends on nothing but the history.
LEMMA PromptsKept ==
  ASSUME UNCHANGED history
  PROVE  /\ BuildAugmentedQuery(history)' = BuildAugmentedQuery(history)
         /\ BuildStage0GeneratorPrompt(history)' = BuildStage0GeneratorPrompt(history)
BY DEF BuildAugmentedQuery, BuildStage0GeneratorPrompt

\* Every step keeps the prompts those of the history.
LEMMA PromptStep == PromptInv /\ [Next]_vars => PromptInv'
<1> SUFFICES ASSUME PromptInv, [Next]_vars
             PROVE  PromptInv'
  OBVIOUS
<1>1. CASE UNCHANGED vars
  BY <1>1, PromptsKept DEF vars, councilVars, stage0Vars, configVars, PromptInv
<1>2. CASE Next
  BY <1>2, PromptSteps, PromptsKept DEF PromptInv
<1>3. QED
  BY <1>1, <1>2

\* A round may only ask if the user has not left the last one blank.
LEMMA MayAskNotDeclined ==
  ASSUME EventsInv, Limits!MayAsk(Rounds)
  PROVE  ~Declined
<1> SUFFICES ASSUME Declined
             PROVE  FALSE
  OBVIOUS
<1>1. DOMAIN history = 1 .. Len(history) /\ Len(history) \in Nat
  BY HistoryTyped DEF EventsInv
<1>2. PICK n \in Nat : n = Len(history)
  BY <1>1
<1>3. history # <<>> /\ ~HasAnswers(history[n])
  BY <1>2 DEF Declined, Last
<1>4. n # 0
  BY <1>2, <1>3, HistoryTyped DEF EventsInv
<1>5. DOMAIN Rounds = 1 .. n /\ n \in 1 .. n
  BY <1>1, <1>2, <1>4 DEF Rounds
<1>6. Rounds[n].blank /\ \A j \in DOMAIN Rounds : j <= n
  <2>1. n \in DOMAIN history
    BY <1>5 DEF Rounds
  <2>2. Rounds[n].blank = ~HasAnswers(history[n])
    BY <2>1 DEF Rounds
  <2>3. \A j \in 1 .. n : j <= n
    OBVIOUS
  <2>4. QED
    BY <1>3, <1>5, <2>2, <2>3
<1>7. Limits!AllEmpty(Rounds)
  BY <1>5, <1>6 DEF Limits!AllEmpty
<1>8. QED
  BY <1>7 DEF Limits!MayAsk

\* However many rounds there were, and in whatever order the client sent its
\* answers, the council is told what the user answered under the question it
\* was given to, and a user who declined is not asked again
\* (BuildAugmentedQuery and BuildStage0GeneratorPrompt of prompts.go).
THEOREM AnswersAreTold == Spec => []AnswersReachTheModels
<1>1. Init => PromptInv
  BY DEF Init, CouncilInit, PromptInv
<1>2. EventsInv /\ LimitsInv /\ PromptInv => AnswersReachTheModels
  BY QuerySaysAnswers, GeneratorsHearAnswers, MayAskNotDeclined
     DEF LimitsInv, PromptInv, AnswersReachTheModels
<1>3. QED
  BY <1>1, <1>2, PromptStep, LimitsInvariant, PTL DEF Spec

---------------------------------------------------------------------------
(* The types of what the strategies without rounds keep, and of Stage 0.   *)

\* W is a fraction, and reviewers rank labels that answers carry.
LEMMA ReviewsTyped == LabelledInv /\ AggregateInv => PeerReviewTypeOK
<1> SUFFICES ASSUME LabelledInv, AggregateInv PROVE PeerReviewTypeOK
  OBVIOUS
<1>1. ASSUME NEW k \in DOMAIN rankings PROVE ToSet(rankings[k]) \subseteq Labels
  <2>1. rankings[k] \in Seq(Labels)
    BY DEF AggregateInv
  <2>2. QED
    BY <2>1 DEF ToSet
<1>2. aggregate.w[1] \in 0 .. aggregate.w[2]
  <2>1. CASE ~Reviewed
    BY <2>1 DEF Reviewed, NoRankings
  <2>2. CASE Reviewed
    <3>1. PICK L : L = DOMAIN labels.toModel /\ IsFiniteSet(L) /\ Labels \subseteq L
      BY DEF LabelledInv
    <3>2. aggregate \in CalculateAggregateRankings(rankings, L)
      BY <2>2, <3>1 DEF AggregateInv
    <3>3. rankings \in Seq(Seq(L))
      BY <3>1 DEF AggregateInv
    <3>4. QED
      BY <3>1, <3>2, <3>3, WIsFraction
  <2>3. QED
    BY <2>1, <2>2
<1>3. QED
  BY <1>1, <1>2 DEF PeerReviewTypeOK

\* Candidates are answers that were given, with totals there are.
Candidates(list) == \A i \in DOMAIN list : list[i].label \in Labels /\ list[i].total \in Totals

\* Whatever the arbiter replies.
LEMMA MarkedAreCandidates ==
  ASSUME NEW reply \in ArbiterReplies, NEW candidates \in RankedCandidates(reply)
  PROVE  Candidates(Marked(candidates))
<1> DEFINE known == {p \in DOMAIN reply : reply[p].label \in Labels}
<1>1. PICK order \in Bijection(1 .. Cardinality(known), known) :
        candidates = [i \in DOMAIN order |-> reply[order[i]]]
  BY DEF RankedCandidates
<1>2. order \in [1 .. Cardinality(known) -> known]
  BY DEF Bijection, Injection
<1>3. ASSUME NEW i \in DOMAIN candidates
      PROVE  candidates[i].label \in Labels /\ candidates[i].total \in Totals
  <2>1. candidates[i] = reply[order[i]] /\ order[i] \in known
    BY <1>1, <1>2
  <2>2. reply[order[i]].total \in Totals
    BY <2>1, RankRefineAssumption DEF RankRefineAssumption
  <2>3. QED
    BY <2>1, <2>2
<1>4. QED
  BY <1>3 DEF Candidates, Marked

\* A ranking stays one of labels and totals.
LEMMA RankTypedStep == RankInv /\ RankRefineTypeOK /\ [Next]_vars => RankRefineTypeOK'
<1> SUFFICES ASSUME RankInv, RankRefineTypeOK, [Next]_vars PROVE RankRefineTypeOK'
  OBVIOUS
<1>1. CASE Ranking
  <2>1. PICK list : Candidates(list) /\ ranked' = list
    BY <1>1, MarkedAreCandidates DEF Ranking
  <2>2. Labels' = Labels
    BY <1>1 DEF Ranking, Labels, LabelsOf
  <2>3. QED
    BY <2>1, <2>2 DEF Candidates, RankRefineTypeOK
<1>2. CASE NoRanking \/ UNCHANGED vars
  <2>1. ranked' = ranked /\ (phase \in BeforeLabels \/ UNCHANGED <<seated, labels>>)
    BY <1>2 DEF NoRanking, vars, councilVars, strategyVars
  <2>2. ranked = <<>> \/ Labels' = Labels
    BY <2>1 DEF RankInv, Labels, LabelsOf
  <2>3. QED
    BY <2>1, <2>2 DEF RankRefineTypeOK
<1>3. QED
  BY <1>1, <1>2, RankSteps

\* Those that answered vote, once they have labels.
VoteInv ==
  /\ phase \in BeforeLabels => vote = <<>>
  /\ DOMAIN vote \subseteq Members
  /\ \A i \in DOMAIN vote : vote[i] \in Answers
  /\ verbatim \in Answers \cup {NoAnswer}

NoVote ==
  /\ UNCHANGED <<vote, verbatim>>
  /\ phase' \in BeforeLabels => phase \in BeforeLabels
  /\ UNCHANGED ct \/ phase \in BeforeLabels

Voted ==
  /\ phase' \notin BeforeLabels
  /\ vote' \in [seated' -> Answers]
  /\ UNCHANGED verbatim

Counted ==
  /\ phase' \notin BeforeLabels
  /\ UNCHANGED <<ct, vote>>
  /\ Cardinality(Tied) = 1 /\ verbatim' = Min(Tied)

\* The votes are cast in one step, and counted in another.
LEMMA VoteSteps ==
  ASSUME Next
  PROVE  NoVote \/ Voted \/ Counted
<1> USE DEF NoVote, Return, strategyVars, majorityVars, BeforeLabels
<1>1. CASE UNCHANGED strategyVars /\ (Startup \/ Request)
  BY <1>1 DEF Startup, Request
<1>2. CASE UNCHANGED strategyVars /\ (Stage0Step \/ RunFull)
  BY <1>2 DEF Stage0Step, Clarify, Propose, Arbiter, Proceed, RunFull
<1>3. CASE UNCHANGED strategyVars /\ CommonStep
  BY <1>3 DEF CommonStep, Stage1Answer, Stage3
<1>4. CASE UNCHANGED majorityVars /\ PeerReviewStep
  BY <1>4 DEF PeerReviewStep, PeerReviewStage1Done, Review, PeerReviewStage2Done, Stage1Joined
<1>5. CASE UNCHANGED strategyVars /\ RoleBasedStep
  BY <1>5 DEF RoleBasedStep, Stage1Joined
<1>6. CASE MajorityStage1Done
  BY <1>6 DEF MajorityStage1Done, Stage1Joined, Voted
<1>7. CASE MajorityStage3 /\ UNCHANGED vote
  BY <1>7 DEF MajorityStage3, Stage3, Counted
<1>8. CASE UNCHANGED majorityVars /\ RankRefineStep
  BY <1>8 DEF RankRefineStep, RankRefineStage1Done, Rank, Stage1Joined
<1>9. CASE UNCHANGED majorityVars /\ MixtureStep
  BY <1>9 DEF MixtureStep, MixtureStage1Done, Aggregate, MixtureStage2Done, Stage1Joined
<1>10. CASE UNCHANGED majorityVars /\ DebateStep
  BY <1>10 DEF DebateStep, DebateStage1Done, Revise, DebateRoundDone, RoundEnds, Stage1Joined
<1>11. CASE UNCHANGED majorityVars /\ DelphiStep
  BY <1>11 DEF DelphiStep, DelphiStage1Done, Rate, DelphiRoundDone, RoundEnds, Stage1Joined
<1>12. QED
  BY <1>1, <1>2, <1>3, <1>4, <1>5, <1>6, <1>7, <1>8, <1>9, <1>10, <1>11
     DEF Next, RunStep, StrategyStep, MajorityStep

\* A single winner is one of the answers.
LEMMA WinnerIsAnswer ==
  ASSUME CouncilInv, VoteInv, Cardinality(Tied) = 1
  PROVE  Min(Tied) \in Answers
<1>1. IsFiniteSet(DOMAIN vote)
  BY MembersFinite DEF VoteInv, CouncilInv, RegistryInv, FittedTypes
<1>2. IsFiniteSet(Clusters)
  <2>1. [i \in DOMAIN vote |-> vote[i]] \in Surjection(DOMAIN vote, Clusters)
    BY DEF Surjection, Clusters
  <2>2. QED
    BY <1>1, <2>1, FS_Surjection
<1>3. Tied \subseteq Clusters /\ Clusters \subseteq Answers
  BY DEF Tied, Clusters, VoteInv
<1>4. PICK T : T = Tied
  OBVIOUS
<1>5. PICK a : T = {a}
  BY <1>2, <1>3, <1>4, FS_Subset, FS_Singleton
<1>6. a \in Answers /\ a \in Nat
  BY <1>3, <1>4, <1>5, MajorityAssumption DEF MajorityAssumption
<1>7. Min(T) = a
  BY <1>5, <1>6 DEF Min
<1>8. QED
  BY <1>4, <1>6, <1>7

\* Every step preserves VoteInv.
LEMMA VoteStep ==
  CouncilInv /\ CouncilInv' /\ VoteInv /\ [Next]_vars => VoteInv'
<1> SUFFICES ASSUME CouncilInv, CouncilInv', VoteInv, [Next]_vars PROVE VoteInv'
  OBVIOUS
<1>1. CASE NoVote
  BY <1>1 DEF NoVote, VoteInv, Members
<1>2. CASE Voted
  <2>1. seated' \subseteq Members'
    BY DEF CouncilInv, LabelsInv
  <2>2. QED
    BY <1>2, <2>1 DEF Voted, VoteInv
<1>3. CASE Counted
  <2>1. verbatim' \in Answers /\ phase' \notin BeforeLabels /\ UNCHANGED <<ct, vote>>
    BY <1>3, WinnerIsAnswer DEF Counted
  <2>2. QED
    BY <2>1 DEF VoteInv, Members
<1>4. CASE UNCHANGED vars
  BY <1>4, <1>1 DEF vars, councilVars, strategyVars, majorityVars, NoVote
<1>5. QED
  BY <1>1, <1>2, <1>3, <1>4, VoteSteps

\* What is asked of the user is what the arbiter picked, or less.
LEMMA QuestionsSteps ==
  ASSUME Next
  PROVE  /\ history' \in Histories \cup {history}
         /\ \/ UNCHANGED asked
            \/ /\ phase = "stage0"
               /\ \E picked \in 0 .. MaxProposed : asked' = Kept(picked) /\ Kept(picked) > 0
<1> USE DEF strategyVars, stage0Vars, roundVars
<1>0. <<>> \in Histories
  BY Stage0Assumption DEF Stage0Assumption
<1>1. CASE UNCHANGED stage0Vars
  BY <1>1
<1>2. CASE Request
  BY <1>2 DEF Request
<1>3. CASE Stage0Step
  BY <1>3 DEF Stage0Step, Clarify, Propose, Arbiter, Proceed
<1>4. CASE RunFull
  BY <1>0, <1>4 DEF RunFull
<1>5. QED
  BY <1>1, <1>2, <1>3, <1>4 DEF Next, RunStep

\* The rounds and the number of questions of Stage 0 keep their types.
LEMMA QuestionsTypedStep ==
  CouncilInv /\ EventsInv /\ LimitsInv /\ Stage0TypeOK /\ [Next]_vars => Stage0TypeOK'
<1> SUFFICES ASSUME CouncilInv, EventsInv, LimitsInv, Stage0TypeOK, [Next]_vars
             PROVE  Stage0TypeOK'
  OBVIOUS
<1>1. history' \in Histories
  BY QuestionsSteps DEF Stage0TypeOK, vars, stage0Vars
<1>2. ASSUME phase = "stage0", NEW picked \in 0 .. MaxProposed,
             asked' = Kept(picked), Kept(picked) > 0
      PROVE  asked' \in 0 .. MaxProposed
  <2>1. PICK kept \in Int : kept = Kept(picked)
    BY <1>2, KeptFits DEF LimitsInv
  <2>2. PICK most \in Nat : most = MaxProposed
    BY Stage0Assumption DEF Stage0Assumption
  <2>3. kept <= picked
    BY <2>1, <2>2 DEF Kept
  <2>4. QED
    BY <1>2, <2>1, <2>2, <2>3
<1>3. asked' \in 0 .. MaxProposed
  BY <1>2, QuestionsSteps DEF Stage0TypeOK, vars, stage0Vars
<1>4. QED
  BY <1>1, <1>3 DEF Stage0TypeOK

\* All that a run of the council keeps is of its type at every moment (TypeOK):
\* for every configuration, any members, any rounds, and whatever the models,
\* the arbiter and the raters reply.
THEOREM RunsAreTyped == Spec => []TypeOK
<1>1. Init => /\ RankInv /\ RankRefineTypeOK /\ VoteInv
              /\ LimitsInv /\ Stage0TypeOK
  <2> SUFFICES ASSUME Init PROVE /\ RankRefineTypeOK /\ VoteInv
                                 /\ LimitsInv /\ Stage0TypeOK
    BY InitialRank
  <2>1. /\ phase = "startup" /\ outcome = "running" /\ ranked = <<>> /\ vote = <<>>
        /\ verbatim = NoAnswer /\ history = <<>> /\ asked = 0
    BY DEF Init, CouncilInit, RankRefineInit, MajorityInit, Stage0Init
  <2>2. Stage0TypeOK
    BY <2>1, Stage0Assumption DEF Stage0TypeOK, Stage0Assumption
  <2>3. QED
    BY <2>1, <2>2 DEF RankRefineTypeOK, VoteInv, LimitsInv, QuestionsFitTheLimits
<1>2. VoteInv => MajorityTypeOK
  BY DEF VoteInv, MajorityTypeOK
<1>3. CouncilInv /\ RankInv /\ [Next]_vars => RankInv'
  BY RankStep
<1>4. Spec => [](RankRefineTypeOK /\ MajorityTypeOK)
  BY CouncilInvariant, RankTypedStep, VoteStep, <1>1, <1>2, <1>3, PTL DEF Spec
<1>5. Spec => []Stage0TypeOK
  BY CouncilInvariant, LimitsInvariant, QuestionsTypedStep, <1>1, PTL DEF Spec
<1>6. Spec => []PeerReviewTypeOK
  BY AggregateInvariant, ReviewsTyped, PTL
<1>7. CouncilTypeOK /\ Stage0TypeOK /\ PeerReviewTypeOK /\ MajorityTypeOK
        /\ RankRefineTypeOK /\ RoundsTypeOK /\ DebateTypeOK /\ DelphiTypeOK => TypeOK
  BY DEF TypeOK
<1>8. QED
  BY CouncilIsTyped, RoundsAreTyped, <1>4, <1>5, <1>6, <1>7, PTL

---------------------------------------------------------------------------
(* Every step is one towards the end.  What a run has before it are the    *)
(* stages to come, the rounds of the stage it is in, and the model calls   *)
(* of the fan-out under way.                                               *)

Ahead ==
  [startup |-> 8, ready |-> 7, clarify |-> 6, stage0 |-> 5, run |-> 4, stage1 |-> 3,
   stage2 |-> 2, stage3 |-> 1, done |-> 0]
RoundsAhead ==
  IF phase = "stage2" /\ Debating THEN DebateRounds - round
  ELSE IF phase = "stage2" /\ RatedByPanel THEN DelphiRounds - round
  ELSE 0
CallsAhead == {i \in DOMAIN slots : slots[i] = Waiting}

Work == <<Ahead[phase], <<RoundsAhead, Cardinality(CallsAhead)>>>>
Works == Nat \X (Nat \X Nat)

\* A stage is more than all its rounds, and a round than all its calls.
Smaller == {ss \in Nat \X Nat : ss[1] < ss[2]}
LessWork == LexPairOrdering(Smaller, LexPairOrdering(Smaller, Smaller, Nat, Nat), Nat, Nat \X Nat)

\* There is no endless descent in this order.
LEMMA LessWorkIsWellFounded == IsWellFoundedOn(LessWork, Works)
<1>1. IsWellFoundedOn(Smaller, Nat)
  BY NatLessThanWellFounded DEF OpToRel, Smaller
<1>2. IsWellFoundedOn(LexPairOrdering(Smaller, Smaller, Nat, Nat), Nat \X Nat)
  BY <1>1, WFLexPairOrdering
<1>3. QED
  BY <1>1, <1>2, WFLexPairOrdering DEF LessWork, Works

\* Its pairs, spelled out.
LEMMA LessWorkOf ==
  ASSUME NEW a \in Nat, NEW b \in Nat, NEW c \in Nat,
         NEW x \in Nat, NEW y \in Nat, NEW z \in Nat,
         \/ x < a
         \/ x = a /\ y < b
         \/ x = a /\ y = b /\ z < c
  PROVE  <<<<x, <<y, z>>>>, <<a, <<b, c>>>>>> \in LessWork
BY DEF LessWork, LexPairOrdering, Smaller

\* A stage ends, or the run.
StageEnds == Ahead[phase'] < Ahead[phase]

\* A round ends that is not the last.
RoundFollows ==
  /\ phase = "stage2" /\ phase' = "stage2" /\ UNCHANGED ct
  /\ round' = round + 1
  /\ \/ Debating /\ round # DebateRounds
     \/ RatedByPanel /\ round # DelphiRounds

\* A call of a fan-out ends.
CallEnds ==
  /\ UNCHANGED <<ct, phase, round>>
  /\ \E i \in DOMAIN slots : \E result \in Written \ {Waiting} :
       slots[i] = Waiting /\ slots' = [slots EXCEPT ![i] = result]

\* There are no other steps.
LEMMA StepsForward == Next => StageEnds \/ RoundFollows \/ CallEnds
<1> SUFFICES ASSUME Next PROVE StageEnds \/ RoundFollows \/ CallEnds
  OBVIOUS
<1> USE DEF Return
<1>1. CASE Startup \/ Request
  BY <1>1 DEF Startup, Request, StageEnds, Ahead
<1>2. CASE Clarify \/ Arbiter
  BY <1>2 DEF Clarify, Arbiter, Proceed, StageEnds, Ahead
<1>3. CASE RunFull \/ Stage3
  BY <1>3 DEF RunFull, Stage3, StageEnds, Ahead
<1>4. CASE PeerReviewStage1Done \/ PeerReviewStage2Done
  BY <1>4 DEF PeerReviewStage1Done, Stage1Joined, PeerReviewStage2Done, StageEnds, Ahead
<1>5. CASE RoleBasedStep
  BY <1>5 DEF RoleBasedStep, Stage1Joined, StageEnds, Ahead
<1>6. CASE MajorityStep
  BY <1>6 DEF MajorityStep, MajorityStage1Done, Stage1Joined, MajorityStage3, Stage3,
              StageEnds, Ahead
<1>7. CASE RankRefineStep
  BY <1>7 DEF RankRefineStep, RankRefineStage1Done, Stage1Joined, Rank, StageEnds, Ahead
<1>8. CASE MixtureStage1Done \/ MixtureStage2Done
  BY <1>8 DEF MixtureStage1Done, Stage1Joined, MixtureStage2Done, StageEnds, Ahead
<1>9. CASE DebateStage1Done \/ DelphiStage1Done
  BY <1>9 DEF DebateStage1Done, DelphiStage1Done, Stage1Joined, StageEnds, Ahead
<1>10. CASE DebateRoundDone
  BY <1>10 DEF DebateRoundDone, RoundEnds, StageEnds, RoundFollows, Ahead
<1>11. CASE DelphiRoundDone
  BY <1>11 DEF DelphiRoundDone, RoundEnds, Finishes, StageEnds, RoundFollows, Ahead
<1>12. ASSUME NEW i \in DOMAIN slots, Propose(i) \/ Stage1Answer(i) \/ Aggregate(i),
              UNCHANGED round
       PROVE  CallEnds
  BY <1>12 DEF Propose, Stage1Answer, Aggregate, Write, Written, StageTwoResults, Waiting, CallEnds
<1>13. ASSUME NEW i \in DOMAIN slots, Review(i) \/ Rate(i), UNCHANGED round
       PROVE  CallEnds
  BY <1>13 DEF Review, Rate, Write, Written, StageTwoResults, Waiting, CallEnds
<1>14. ASSUME NEW i \in DOMAIN slots, Revise(i)
       PROVE  CallEnds
  BY <1>14 DEF Revise, Reasons, roundVars, Write, Written, StageTwoResults, Waiting, CallEnds
<1>15. CASE Stage0Step /\ UNCHANGED strategyVars
  BY <1>2, <1>12, <1>15 DEF Stage0Step, strategyVars, roundVars
<1>16. CASE StrategyStep
  <2>1. CASE CommonStep /\ UNCHANGED strategyVars
    BY <1>3, <1>12, <2>1 DEF CommonStep, strategyVars, roundVars
  <2>2. CASE PeerReviewStep /\ UNCHANGED roundVars
    BY <1>4, <1>13, <2>2 DEF PeerReviewStep, roundVars
  <2>3. CASE DebateStep
    BY <1>9, <1>10, <1>14, <2>3 DEF DebateStep
  <2>4. CASE MixtureStep /\ UNCHANGED roundVars
    BY <1>8, <1>12, <2>4 DEF MixtureStep, roundVars
  <2>5. CASE DelphiStep
    <3>1. ASSUME NEW i \in DOMAIN slots, Rate(i) PROVE UNCHANGED round
      BY <3>1 DEF Rate, roundVars
    <3>2. QED
      BY <1>9, <1>11, <1>13, <2>5, <3>1 DEF DelphiStep
  <2>6. QED
    BY <1>5, <1>6, <1>7, <1>16, <2>1, <2>2, <2>3, <2>4, <2>5 DEF StrategyStep
<1>17. QED
  BY <1>1, <1>3, <1>15, <1>16 DEF Next, RunStep

\* A council type has finitely many members and aggregators.
LEMMA PoolsAreFinite ==
  ASSUME NEW t \in CouncilTypes
  PROVE  /\ IsFiniteSet(DOMAIN Pool(t))
         /\ IsFiniteSet(DOMAIN t.models)
         /\ IsFiniteSet(DOMAIN t.aggregators)
<1>1. ASSUME NEW s \in Seq(Models) PROVE IsFiniteSet(DOMAIN s)
  <2>1. DOMAIN s = 1 .. Len(s) /\ 1 \in Int /\ Len(s) \in Int
    OBVIOUS
  <2>2. QED
    BY <2>1, FS_Interval
<1>2. /\ t.models \in Seq(Models) /\ t.roles \in Seq(Models)
      /\ t.proposers \in Seq(Models) /\ t.aggregators \in Seq(Models)
  BY DEF CouncilTypes
<1>3. Pool(t) \in Seq(Models)
  BY <1>2 DEF Pool
<1>4. QED
  BY <1>1, <1>2, <1>3

\* Every fan-out is one of finitely many goroutines.
LEMMA FanOutsAreFinite ==
  ASSUME CouncilInv, CouncilInv', RoundsTypeOK', NEW D \in FanOuts
  PROVE  IsFiniteSet(D)
<1>1. ct \in CouncilTypes /\ ct' \in CouncilTypes /\ config \in Configs
  BY DEF CouncilInv, RegistryInv, FittedTypes
<1>2. IsFiniteSet(seated')
  <2>1. seated' \subseteq DOMAIN Pool(ct')
    BY DEF CouncilInv, LabelsInv, Members
  <2>2. QED
    BY <1>1, <2>1, PoolsAreFinite, FS_Subset
<1>3. IsFiniteSet(alive')
  BY <1>2, FS_Subset DEF RoundsTypeOK
<1>4. IsFiniteSet(1 .. Cardinality(seated'))
  <2>1. Cardinality(seated') \in Int /\ 1 \in Int
    BY <1>2, FS_CardinalityType
  <2>2. QED
    BY <2>1, FS_Interval
<1>5. IsFiniteSet(DOMAIN Generators)
  <2>1. PICK s : s = config.clarification.models
    OBVIOUS
  <2>2. s \in Seq(Models)
    BY <1>1, <2>1, Stage0Assumption DEF Stage0Assumption
  <2>3. DOMAIN s = 1 .. Len(s) /\ 1 \in Int /\ Len(s) \in Int
    BY <2>2
  <2>4. IsFiniteSet(DOMAIN s)
    BY <2>3, FS_Interval
  <2>5. QED
    BY <1>1, <2>1, <2>4, PoolsAreFinite DEF Generators
<1>6. QED
  BY <1>1, <1>2, <1>3, <1>4, <1>5, PoolsAreFinite DEF FanOuts, Members

SlotsFinite == IsFiniteSet(DOMAIN slots)

\* So the calls ahead can be counted.
LEMMA SlotsStayFinite ==
  CouncilInv /\ CouncilInv' /\ RoundsTypeOK' /\ SlotsFinite /\ [Next]_vars => SlotsFinite'
<1> SUFFICES ASSUME CouncilInv, CouncilInv', RoundsTypeOK', SlotsFinite, [Next]_vars
             PROVE  SlotsFinite'
  OBVIOUS
<1>1. CASE UNCHANGED slots
  BY <1>1 DEF SlotsFinite
<1>2. ASSUME NEW D \in FanOuts, slots' = [i \in D |-> Waiting] PROVE SlotsFinite'
  BY <1>2, FanOutsAreFinite DEF SlotsFinite
<1>3. ASSUME NEW i \in DOMAIN slots, NEW result, slots' = [slots EXCEPT ![i] = result]
      PROVE  SlotsFinite'
  BY <1>3 DEF SlotsFinite
<1>4. QED
  BY <1>1, <1>2, <1>3, SlotsSteps DEF vars, councilVars

\* Neither a debate nor a panel is past its last round.
WithinRounds ==
  /\ phase \in Phases
  /\ phase = "stage2" /\ Debating => DebateRounds \in Int /\ round \in Nat /\ round <= DebateRounds
  /\ phase = "stage2" /\ RatedByPanel =>
       DelphiRounds \in Int /\ round \in Nat /\ round <= DelphiRounds

\* That is what the invariants of the rounds say.
LEMMA RoundsAreBounded ==
  CouncilInv /\ RoundsTypeOK /\ LastRoundInv /\ ConvergenceInv => WithinRounds
<1> SUFFICES ASSUME CouncilInv, RoundsTypeOK, LastRoundInv, ConvergenceInv
             PROVE  WithinRounds
  OBVIOUS
<1>1. DebateRounds \in Int /\ DelphiRounds \in Int
  BY DebateRoundsPositive, DelphiRoundsPositive
<1>2. QED
  BY <1>1 DEF CouncilInv, RegistryInv, RoundsTypeOK, LastRoundInv, ConvergenceInv, WithinRounds

WorkTyped ==
  /\ Work \in Works
  /\ Ahead[phase] \in Nat /\ RoundsAhead \in Nat /\ Cardinality(CallsAhead) \in Nat

\* What a run has before it is a triple of naturals.
LEMMA WorkIsNatural == WithinRounds /\ SlotsFinite => WorkTyped
<1> SUFFICES ASSUME WithinRounds, SlotsFinite PROVE WorkTyped
  OBVIOUS
<1>1. Ahead[phase] \in Nat
  BY DEF WithinRounds, Phases, Ahead
<1>2. RoundsAhead \in Nat
  <2>1. CASE phase = "stage2" /\ Debating
    BY <2>1 DEF WithinRounds, RoundsAhead
  <2>2. CASE phase = "stage2" /\ ~Debating /\ RatedByPanel
    BY <2>2 DEF WithinRounds, RoundsAhead
  <2>3. QED
    BY <2>1, <2>2 DEF RoundsAhead
<1>3. Cardinality(CallsAhead) \in Nat
  <2>1. CallsAhead \in SUBSET DOMAIN slots
    BY DEF CallsAhead
  <2>2. QED
    BY <2>1, FS_Subset, FS_CardinalityType DEF SlotsFinite
<1>4. QED
  BY <1>1, <1>2, <1>3 DEF Work, Works, WorkTyped

\* And every step makes it less.
LEMMA WorkGetsLess ==
  ASSUME WithinRounds, SlotsFinite, Next,
         NEW x \in Nat, NEW y \in Nat, NEW z \in Nat,
         x = Ahead[phase'], y = RoundsAhead', z = Cardinality(CallsAhead')
  PROVE  <<Work', Work>> \in LessWork
<1>0. PICK a \in Nat, b \in Nat, c \in Nat :
        a = Ahead[phase] /\ b = RoundsAhead /\ c = Cardinality(CallsAhead)
  BY WorkIsNatural DEF WorkTyped
<1> SUFFICES \/ x < a
             \/ x = a /\ y < b
             \/ x = a /\ y = b /\ z < c
  BY <1>0, LessWorkOf DEF Work
<1>1. CASE StageEnds
  BY <1>0, <1>1 DEF StageEnds
<1>2. CASE RoundFollows
  <2>1. Ahead[phase'] = Ahead[phase]
    BY <1>2 DEF RoundFollows
  <2>2. RoundsAhead' = RoundsAhead - 1 /\ RoundsAhead \in Int
    <3>1. CASE Debating
      <4>1. Debating' /\ DebateRounds' = DebateRounds
        BY <1>2, <3>1 DEF RoundFollows, Debating, DebateRounds
      <4>2. DebateRounds \in Int /\ round \in Nat
        BY <1>2, <3>1 DEF RoundFollows, WithinRounds
      <4>3. QED
        BY <1>2, <3>1, <4>1, <4>2 DEF RoundFollows, RoundsAhead
    <3>2. CASE RatedByPanel /\ ~Debating
      <4>1. RatedByPanel' /\ ~Debating' /\ DelphiRounds' = DelphiRounds
        BY <1>2, <3>2 DEF RoundFollows, RatedByPanel, Debating, DelphiRounds
      <4>2. DelphiRounds \in Int /\ round \in Nat
        BY <1>2, <3>2 DEF RoundFollows, WithinRounds
      <4>3. QED
        BY <1>2, <3>2, <4>1, <4>2 DEF RoundFollows, RoundsAhead
    <3>3. QED
      BY <1>2, <3>1, <3>2 DEF RoundFollows
  <2>3. QED
    BY <1>0, <2>1, <2>2
<1>3. CASE CallEnds
  <2>1. PICK i \in DOMAIN slots, result \in Written \ {Waiting} :
          slots[i] = Waiting /\ slots' = [slots EXCEPT ![i] = result]
    BY <1>3 DEF CallEnds
  <2>2. Ahead[phase'] = Ahead[phase] /\ RoundsAhead' = RoundsAhead
    BY <1>3 DEF CallEnds, RoundsAhead, Debating, DebateRounds, RatedByPanel, DelphiRounds
  <2>3. CallsAhead' = CallsAhead \ {i} /\ i \in CallsAhead
    BY <2>1 DEF CallsAhead
  <2>4. IsFiniteSet(CallsAhead)
    BY FS_Subset DEF CallsAhead, SlotsFinite
  <2>5. /\ Cardinality(CallsAhead) \in Nat
        /\ Cardinality(CallsAhead') = Cardinality(CallsAhead) - 1
    BY <2>3, <2>4, FS_RemoveElement, FS_CardinalityType
  <2>6. QED
    BY <1>0, <2>2, <2>5
<1>4. QED
  BY <1>1, <1>2, <1>3, StepsForward

\* No run goes on for ever, whatever the models do and however many rounds are
\* configured: every step leaves less to do, in a well-founded order, from the
\* start of the program to the return of RunFull.
THEOREM RunsGetOn ==
  /\ IsWellFoundedOn(LessWork, Works)
  /\ Spec => [](Work \in Works) /\ [][(<<Work', Work>> \in LessWork)]_vars
<1>1. Init => LastRoundInv /\ SlotsFinite
  <2> SUFFICES ASSUME Init PROVE LastRoundInv /\ SlotsFinite
    OBVIOUS
  <2>1. ct = NoCouncilType /\ slots = <<>>
    BY DEF Init, CouncilInit
  <2>2. ~Debating
    BY <2>1 DEF Debating, NoCouncilType
  <2>3. DOMAIN slots = {}
    BY <2>1
  <2>4. QED
    BY <2>2, <2>3, FS_EmptySet DEF LastRoundInv, SlotsFinite
<1>2. CouncilInv /\ RoundsInv /\ ConvergenceInv /\ [Next]_vars => ConvergenceInv'
  BY ConvergenceStep
<1>3. Spec => [](WithinRounds /\ SlotsFinite)
  BY RoundsInvariant, RoundsAreTyped, LastRoundStep, SlotsStayFinite, InitialConvergence,
     RoundsAreBounded, <1>1, <1>2, PTL DEF Spec
<1>4. WithinRounds /\ SlotsFinite /\ WorkTyped' /\ [Next]_vars
        => [(<<Work', Work>> \in LessWork)]_vars
  BY WorkGetsLess DEF WorkTyped
<1>5. WorkTyped => Work \in Works
  BY DEF WorkTyped
<1>6. Spec => [](Work \in Works) /\ [][(<<Work', Work>> \in LessWork)]_vars
  BY <1>3, <1>4, <1>5, WorkIsNatural, PTL DEF Spec
<1>7. QED
  BY <1>6, LessWorkIsWellFounded

===========================================================================
