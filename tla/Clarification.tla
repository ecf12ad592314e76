--------------------------- MODULE Clarification ---------------------------
(***************************************************************************)
(* The decision of Stage 0, RunClarificationRound of                       *)
(* internal/council/runner.go, as a function of the rounds so far.  Models *)
(* are the environment: the generators may propose anything or fail, and   *)
(* the chairman may ask any number of questions, say it has enough, fail   *)
(* or answer with malformed JSON.                                          *)
(***************************************************************************)
EXTENDS Integers, FiniteSets

CONSTANTS
  MaxRounds,            \* ClarificationConfig.MaxRounds, 0 disables Stage 0
  MaxTotalQuestions,    \* ClarificationConfig.MaxTotalQuestions
  MaxQuestionsPerRound  \* ClarificationConfig.MaxQuestionsPerRound

\* config.Load takes whatever integers the environment gives, negative ones
\* included.
ASSUME ClarificationAssumption ==
  /\ MaxRounds \in Int
  /\ MaxTotalQuestions \in Int
  /\ MaxQuestionsPerRound \in Int

\* The number of the round that follows a history.  That has a record
\* [round, asked, blank] at the place of each round, blank when every answer of
\* the round is empty, or there is none.
NextRound(history) == Cardinality(DOMAIN history) + 1

\* The questions of a history, each by its place and its number there.
QuestionsOf(history) == UNION {{i} \X (1 .. history[i].asked) : i \in DOMAIN history}

Accumulated(history) == Cardinality(QuestionsOf(history))

AllEmpty(history) ==
  \E i \in DOMAIN history : history[i].blank /\ \A j \in DOMAIN history : j <= i

\* runStage0Chairman truncates to the budget of the round and of the query.
QuestionLimit_RoundOnly(history) == MaxQuestionsPerRound

QuestionLimit(history) ==
  LET remaining == MaxTotalQuestions - Accumulated(history)
  IN  IF remaining < MaxQuestionsPerRound THEN remaining ELSE MaxQuestionsPerRound

MayAsk_RoundOffByOne(history) ==
  /\ ~AllEmpty(history)
  /\ NextRound(history) <= MaxRounds + 1
  /\ Accumulated(history) < MaxTotalQuestions

MayAsk(history) ==
  /\ ~AllEmpty(history)
  /\ NextRound(history) <= MaxRounds
  /\ Accumulated(history) < MaxTotalQuestions

\* The possible numbers of questions of the round: 0 is stage0_done, reached
\* also when the chairman has enough, fails or cannot be parsed.
RunClarificationRound(history) ==
  IF MayAsk(history) THEN 0 .. QuestionLimit(history) ELSE {0}

\* Past the limits the council type, generators and arbiter are looked up:
\* a council type that is not registered, or one without models, is an error.
\* A negative MaxQuestionsPerRound makes the truncation of the chairman's
\* questions slice with a negative bound, which panics.
ClarificationMayFail(history) == MayAsk(history)

===========================================================================
