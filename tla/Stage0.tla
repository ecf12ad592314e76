------------------------------- MODULE Stage0 ------------------------------
(***************************************************************************)
(* Stage 0 of a run, RunClarificationRound of internal/council/runner.go:  *)
(* generators propose questions, each in a goroutine of its own, and an    *)
(* arbiter picks some of them, which ends the request, or lets the council *)
(* run on the query and the answers so far.  Clarification has the limits, *)
(* which come from the configuration here.                                 *)
(***************************************************************************)
EXTENDS Council, Prompts

CONSTANTS
  Histories,    \* bound: the rounds a request may come with, see Prompts
  MaxProposed   \* bound: the most questions the arbiter picks

\* The rounds are sequences of whatever the client has sent, none of them in
\* the first request, the limits any integers, the generators a list.
ASSUME Stage0Assumption ==
  /\ \A c \in Configs : /\ c.clarification.rounds \in Int
                        /\ c.clarification.total \in Int
                        /\ c.clarification.perRound \in Int
                        /\ c.clarification.models \in Seq(Models)
  /\ Histories \subseteq Seq([questions : Seq(STRING),
                             answers : Seq([id : STRING, text : STRING])])
  /\ <<>> \in Histories
  /\ MaxProposed \in Nat

VARIABLES
  history,  \* the clarification rounds of the conversation
  shown,    \* what the prompt of the generators says about them
  told,     \* what the query of the council says about them
  asked     \* the number of questions the request ends with

stage0Vars == <<history, shown, told, asked>>

Limits ==
  INSTANCE Clarification WITH
    MaxRounds            <- config.clarification.rounds,
    MaxTotalQuestions    <- config.clarification.total,
    MaxQuestionsPerRound <- config.clarification.perRound

\* As Clarification sees a history.
Rounds == [n \in DOMAIN history |->
             [round |-> n,
              asked |-> Len(history[n].questions),
              blank |-> ~HasAnswers(history[n])]]

Stage0Init ==
  /\ history = <<>>
  /\ shown = <<>>
  /\ told = <<>>
  /\ asked = 0

\* A request names a council type, perhaps none that is registered.  It goes
\* past Stage 0 when that is turned off and the conversation has no rounds yet,
\* and when it comes from an evaluation, which knows the names there are.
Request ==
  /\ phase = "ready"
  /\ ct' \in Range(registry) \cup {NoCouncilType}
  /\ config.program = "eval" => ct' # NoCouncilType
  /\ history' \in Histories
  /\ \/ /\ config.program = "server"
        /\ history' # <<>> \/ config.clarification.rounds # 0
        /\ phase' = "clarify"
     \/ /\ config.program = "eval" \/ config.clarification.rounds <= 0
        /\ history' = <<>>
        /\ phase' = "run"
  /\ UNCHANGED <<configVars, slots, seated, labels, events, outcome, shown, told, asked>>

\* stage0_done, and RunFullWithClarifications.
Proceed ==
  /\ events' = Append(events, Event("stage0_done", 0))
  /\ told' = BuildAugmentedQuery(history)
  /\ phase' = "run"
  /\ UNCHANGED outcome

\* CLARIFICATION_MODELS and CLARIFICATION_ARBITER_MODEL, or else the models
\* and the chairman of the council type.
Generators ==
  IF config.clarification.models # <<>> THEN config.clarification.models ELSE ct.models

HasArbiter == config.clarification.arbiter \/ ct.chairman

Clarify ==
  /\ phase = "clarify"
  /\ \/ /\ ~Limits!MayAsk(Rounds)
        /\ Proceed
        /\ UNCHANGED <<slots, shown>>
     \/ /\ Limits!MayAsk(Rounds) /\ ct # NoCouncilType /\ Generators # <<>> /\ HasArbiter
        /\ phase' = "stage0"
        /\ slots' = [i \in DOMAIN Generators |-> Waiting]
        /\ shown' = BuildStage0GeneratorPrompt(history)
        /\ UNCHANGED <<events, told, outcome>>
     \/ /\ Limits!MayAsk(Rounds)
        /\ \/ ct = NoCouncilType /\ Return("unknownType")
           \/ ct # NoCouncilType /\ Generators = <<>> /\ Return("noGenerators")
           \/ ct # NoCouncilType /\ Generators # <<>> /\ ~HasArbiter /\ Return("noArbiter")
        /\ UNCHANGED <<slots, shown, events, told>>
  /\ UNCHANGED <<configVars, ct, seated, labels, history, asked>>

\* The goroutine of a generator.  How many of them fail makes no difference:
\* the arbiter is asked all the same.
Propose(i) ==
  /\ phase = "stage0"
  /\ \E result \in {"ok", "failed"} : Write(i, result)
  /\ UNCHANGED <<configVars, ct, phase, seated, labels, events, outcome, stage0Vars>>

Kept_All(picked) == picked

\* The questions beyond the limit are cut off.
Kept(picked) ==
  IF picked > Limits!QuestionLimit(Rounds) THEN Limits!QuestionLimit(Rounds) ELSE picked

\* The arbiter fails, cannot be parsed, has enough or picks no question; or
\* picks some.  The cut is made before "enough" is looked at, and panics where
\* the limit is negative.
Arbiter ==
  /\ phase = "stage0"
  /\ Joined
  /\ \/ Proceed /\ UNCHANGED asked
     \/ \E picked \in 0 .. MaxProposed :
          /\ Kept(picked) > 0
          /\ events' = Append(events, Event("stage0_round_complete", Limits!NextRound(Rounds)))
          /\ asked' = Kept(picked)
          /\ Return("questions")
          /\ UNCHANGED told
     \/ \E picked \in 0 .. MaxProposed :
          /\ Kept(picked) < 0
          /\ Return("panic")
          /\ UNCHANGED <<events, asked, told>>
  /\ UNCHANGED <<configVars, ct, slots, seated, labels, history, shown>>

Stage0Step ==
  \/ Clarify
  \/ \E i \in DOMAIN slots : Propose(i)
  \/ Arbiter

---------------------------------------------------------------------------
(* Properties.                                                             *)

Stage0TypeOK ==
  /\ history \in Histories
  /\ asked \in 0 .. MaxProposed

\* The questions of a conversation stay within CLARIFICATION_MAX_ROUNDS and
\* the two numbers of questions whatever the arbiter picks, however the limits
\* were set when the earlier rounds were asked; the arithmetic of the limits
\* goes wrong only for a negative number of questions per round.
QuestionsFitTheLimits ==
  LET limits == config.clarification
  IN  /\ outcome = "questions" =>
           /\ Len(history) < limits.rounds
           /\ asked \in 1 .. limits.perRound
           /\ Cardinality(Places(history)) + asked <= limits.total
      /\ outcome = "panic" => limits.perRound < 0

\* A user who leaves a whole round blank is not asked again.
Declined == history # <<>> /\ ~HasAnswers(Last(history))

\* The answers of a history, each with the question it was given to.  One that
\* says there is no answer is none.
Given ==
  {x \in UNION {{<<a.id, a.text>> : a \in ToSet(r.answers)} : r \in ToSet(history)} :
     x[2] \notin {Blank, Unanswered}}

Said(prompt) ==
  {x \in {<<prompt[p].question, prompt[p].answer>> : p \in DOMAIN prompt} : x[2] # Unanswered}

\* The questions of a round have an ID each, and at most one answer.
Identified(r) ==
  /\ IsInjective(r.questions)
  /\ IsInjective([k \in DOMAIN r.answers |-> r.answers[k].id])
  /\ {a.id : a \in ToSet(r.answers)} \subseteq ToSet(r.questions)

\* The answers are where their questions are, or none of them is blank.
InPlace ==
  \A r \in ToSet(history) :
    \/ \A k \in DOMAIN r.answers : r.answers[k].id = r.questions[k]
    \/ /\ {a.id : a \in ToSet(r.answers)} = ToSet(r.questions)
       /\ \A a \in ToSet(r.answers) : a.text # Blank

\* What the user answered, and nothing else, is told to the council, under the
\* question it was given to; a user who declined is not asked again.  What the
\* generators are told may differ: the answer to another question stands in
\* for one that is blank or missing, unless the client sent the answers in the
\* order of the questions (prompts.go:34).  And what is told may be less where
\* IDs repeat: the arbiter makes them up, and the client sends what it likes.
AnswersReachTheModels ==
  LET identified == \A r \in ToSet(history) : Identified(r)
  IN  /\ phase = "run" /\ history # <<>> /\ identified => Said(told) = Given
      /\ phase = "stage0" => ~Declined
      /\ phase = "stage0" /\ identified /\ InPlace => Said(shown) = Given

\* "Both env vars are optional and fall back to the council type's Models /
\* ChairmanModel when unset" (docs/strategies.md:7), Stage 0 being "strategy-
\* independent": a council type that is registered gets through Stage 0.
Stage0ServesEveryType == outcome \notin {"noGenerators", "noArbiter"}

===========================================================================
