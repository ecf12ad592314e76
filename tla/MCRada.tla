------------------------------- MODULE MCRada ------------------------------
(* Rada instantiated for TLC: three members, every strategy, council types *)
(* from files and from the environment.                                    *)
EXTENDS Rada, TLC

CONSTANTS m1, m2, m3

three == <<m1, m2, m3>>
arbiter == [arbiter |-> TRUE]
members == arbiter @@ [members |-> three]
twice == arbiter @@ [members |-> <<m1, m1, m2>>]
roles == arbiter @@ [roles |-> [r \in Range(RoleKeys) |-> m1]]
moa == [proposers |-> three, aggregators |-> <<m1, m2>>, refiner |-> TRUE]
Quorum(q) == [quorum |-> q]
Entry(strategy, fields) == [strategy |-> strategy, fields |-> fields]
\* Council types under the names of their strategies.
Named(entries) ==
  [s \in {e.strategy : e \in entries} |-> CHOOSE e \in entries : e.strategy = s]

\* Stage 0 with models of its own, with those of the council types, turned
\* off, and with a number of questions per round that is negative.
own == [rounds |-> 2, total |-> 3, perRound |-> 2, models |-> <<m3>>, arbiter |-> TRUE]
inherited == [own EXCEPT !.models = <<>>, !.arbiter = FALSE]
off == [own EXCEPT !.rounds = 0]
negative == [own EXCEPT !.perRound = -1]

\* Nothing but the default type, and one without an arbiter.
NoEnv == [defaultType |-> "default", models |-> three, pools |-> <<>>, chairs |-> {},
          aggregators |-> <<>>, rounds |-> <<>>]

File(program, councils, clarification) ==
  [program |-> program, file |-> "parsed", councils |-> councils, env |-> NoEnv,
   clarification |-> clarification]
Env(program, file, env, clarification) ==
  [program |-> program, file |-> file, councils |-> <<>>, env |-> env,
   clarification |-> clarification]

\* The shape of configs/council.yaml, its Delphi left to the next one.
shipped ==
  ("default"              :> Entry("peerReview", members)) @@
  ("role-based"           :> Entry("roleBased", roles)) @@
  ("majority"             :> Entry("majority", [members |-> three])) @@
  ("generate-rank-refine" :> Entry("rankRefine", members)) @@
  ("debate"               :> Entry("debate", members)) @@
  ("moa"                  :> Entry("mixture", moa))

\* Quorums one below the formula, a negative one and 0; default and other
\* numbers of rounds; one, two or by default three candidates refined; a model
\* that is configured twice.
tuned ==
  Named({Entry("peerReview", twice @@ Quorum(2)), Entry("roleBased", roles @@ Quorum(0)),
         Entry("majority", members @@ Quorum(2)),
         Entry("rankRefine", members @@ [refine_top_k |-> 1]),
         Entry("debate", members @@ Quorum(2) @@ [max_debate_rounds |-> 3]),
         Entry("mixture", moa @@ Quorum(-1)), Entry("delphi", members @@ Quorum(2))})

loose ==
  Named({Entry("peerReview", members @@ Quorum(2)), Entry("roleBased", roles @@ Quorum(1)),
         Entry("majority", [members |-> three] @@ Quorum(2)),
         Entry("rankRefine", members @@ Quorum(1) @@ [refine_top_k |-> 2]),
         Entry("debate", members @@ Quorum(-1) @@ [max_debate_rounds |-> 1]),
         Entry("mixture", moa @@ Quorum(1))})

more ==
  Named({Entry("majority", members), Entry("rankRefine", members @@ [refine_top_k |-> 2]),
         Entry("debate", twice @@ Quorum(2))})

\* A file that leaves out an arbiter is refused, and so is one with the same
\* strategy twice.
refused ==
  {Named({Entry("debate", [members |-> three]), Entry("delphi", members)}),
   ("a" :> Entry("delphi", members)) @@ ("b" :> Entry("delphi", members @@ Quorum(2)))}

\* The debate takes the place of the default type; the mixture lacks its
\* aggregators and Delphi its chairman.
env ==
  [defaultType |-> "debate", models |-> three,
   pools  |-> [debate |-> three, majority |-> three, mixture |-> three, delphi |-> three],
   chairs |-> {"debate", "mixture"}, aggregators |-> <<>>, rounds |-> [debate |-> 1]]

\* Every strategy, a mixture with its aggregators among them.
fullEnv ==
  [defaultType |-> "default", models |-> <<m1>>,
   pools  |-> [s \in DOMAIN EnvName |-> <<m1, m2>>], chairs |-> DOMAIN EnvName,
   aggregators |-> <<m3>>, rounds |-> [delphi |-> -1]]

MCConfigs ==
  {File("server", shipped, own), File("server", tuned, inherited), File("eval", loose, own),
   File("server", more, negative), Env("server", "off", env, off),
   Env("eval", "missing", fullEnv, own), Env("server", "malformed", NoEnv, own)}
  \cup {File("server", r, own) : r \in refused}

MCShipped == {File("server", shipped, inherited)}

---------------------------------------------------------------------------

Answer(id, text) == [id |-> id, text |-> text]
Round(questions, answers) == [questions |-> questions, answers |-> answers]

\* No round yet; a round answered in order, in another order, in part and not
\* at all; an answer left out; and a second round, after which a third is too
\* many, or all questions have been asked.
MCHistories ==
  LET q12 == <<"q1", "q2">>
      x == Answer("q1", "x")
      y == Answer("q2", "y")
      none == Answer("q1", Blank)
      first == Round(q12, <<x, y>>)
  IN  {<<>>, <<first>>, <<Round(q12, <<y, x>>)>>, <<Round(q12, <<none, y>>)>>,
       <<Round(q12, <<y, none>>)>>, <<Round(q12, <<y>>)>>, <<Round(q12, <<>>)>>,
       <<first, Round(<<"q3">>, <<Answer("q3", Blank)>>)>>,
       <<Round(<<"q1">>, <<x>>), Round(<<"q2">>, <<y>>)>>,
       <<Round(<<"q1", "q1">>, <<x, Answer("q1", "y"), Answer("q9", "y")>>)>>,
       <<Round(<<"q1", "q2", "q3">>, <<x, y, Answer("q3", "x")>>)>>}

\* The members in their order, and the last of them first.
MCShuffles == {<<1, 2, 3>>, <<2, 3, 1>>}

\* Full, partial and empty rankings, one with a label nobody was given, and
\* one that lists the same label again and again.
MCReviewReplies ==
  {<<1, 2, 3>>, <<1, 3, 2>>, <<3, 1>>, <<2>>, <<>>, <<2, Unknown, 1>>, <<1, 1, 1, 1, 2>>}

MCTotals == 0 .. 2
\* Any totals for some labels, an unknown label and a repeated one.
MCArbiterReplies ==
  {[i \in DOMAIN ls |-> [label |-> ls[i], total |-> t[i]]] :
     ls \in {<<>>, <<2>>, <<1, 2, 3>>, <<3, Unknown, 2>>, <<2, 1, 2>>},
     t \in [1 .. 3 -> MCTotals]}

===========================================================================
