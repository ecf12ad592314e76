------------------------------ MODULE Prompts ------------------------------
(***************************************************************************)
(* What internal/council/prompts.go makes of a clarification history: the  *)
(* questions of each round with the answer the models are shown.  A round  *)
(* has the IDs of its questions, and the answers as the client sent them,  *)
(* each with the ID it names, in any order and perhaps not all of them.    *)
(***************************************************************************)
EXTENDS Integers, Sequences, SequencesExt

Blank == ""
Unanswered == "(no answer)"

HasAnswers(r) == \E k \in DOMAIN r.answers : r.answers[k].text # Blank

\* The places of the questions: the round, and the number in the round.  A
\* prompt has a question and what is said to be its answer at each of them, in
\* their order.
Places(history) == UNION {{n} \X DOMAIN history[n].questions : n \in DOMAIN history}

Shown(r, i, text) ==
  [question |-> r.questions[i], answer |-> IF text = Blank THEN Unanswered ELSE text]

\* The text of the first of some answers.
FirstText(r, S) == IF S = {} THEN Blank ELSE r.answers[Min(S)].text

AnswerByID_Positional(r, i) == FirstText(r, DOMAIN r.answers \cap {i})

\* The first answer with the ID of the question, though it be blank.
AnswerByID(r, i) == FirstText(r, {k \in DOMAIN r.answers : r.answers[k].id = r.questions[i]})

\* What RunFull's query says: rounds nobody answered are left out.
BuildAugmentedQuery(history) ==
  [p \in {p \in Places(history) : HasAnswers(history[p[1]])} |->
     Shown(history[p[1]], p[2], AnswerByID(history[p[1]], p[2]))]

\* The first answer with the ID that is not blank, else the answer at the
\* position of the question.
AnswerByIDOrPosition(r, i) ==
  LET given == {k \in DOMAIN r.answers : r.answers[k].text # Blank}
      named == {k \in given : r.answers[k].id = r.questions[i]}
  IN  FirstText(r, IF named # {} THEN named ELSE given \cap {i})

\* What the generators of the next round are told: every round so far.
BuildStage0GeneratorPrompt(history) ==
  [p \in Places(history) |->
     Shown(history[p[1]], p[2], AnswerByIDOrPosition(history[p[1]], p[2]))]

===========================================================================
