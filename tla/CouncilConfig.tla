--------------------------- MODULE CouncilConfig ---------------------------
(***************************************************************************)
(* How the registry of council types is built at start-up, internal/config:*)
(* from a YAML file that is taken whole or refused, or else from the       *)
(* environment, where a strategy that is not fully configured is skipped.  *)
(*                                                                         *)
(* Of a model name only its absence matters here, and of a temperature     *)
(* nothing.  The models of a strategy are a sequence, in which names may   *)
(* be repeated: nothing rejects that.                                      *)
(***************************************************************************)
EXTENDS Integers, Sequences, FiniteSets, Functions

CONSTANT Models  \* the names of models

Strategies == {"peerReview", "roleBased", "majority", "rankRefine", "debate",
               "mixture", "delphi"}

RoleKeys == <<"creator", "critic", "verifier", "simplifier", "devils_advocate">>

\* The zero CouncilType.  models stands for Models, the models of the Roles
\* and ProposerModels; the fields of a strategy are at their zero in the types
\* of the others.  chairman and refiner say whether there is such a model.
NoCouncilType ==
  [strategy |-> "peerReview", models |-> <<>>, roles |-> <<>>, proposers |-> <<>>,
   aggregators |-> <<>>, chairman |-> FALSE, refiner |-> FALSE, quorumMin |-> 0,
   rounds |-> 0, topK |-> 0]

\* The models that answer in Stage 1.
Pool(t) ==
  CASE t.strategy = "roleBased" -> t.roles
    [] t.strategy = "mixture"   -> t.proposers
    [] OTHER                    -> t.models

---------------------------------------------------------------------------
(* registry_yaml.go.  An entry of the file has the fields it gives a value *)
(* other than zero, and quorum also when that is zero.                     *)

\* The types of councilEntry; the numbers may be negative.
IsEntry(e) ==
  \A f \in DOMAIN e.fields :
    /\ f \in {"members", "proposers", "aggregators"} => e.fields[f] \in Seq(Models) \ {<<>>}
    /\ f \in {"quorum", "refine_top_k", "max_debate_rounds", "max_delphi_rounds"} =>
         e.fields[f] \in Int
    /\ f = "roles" =>
         e.fields[f] # <<>> /\ e.fields[f] \in [DOMAIN e.fields[f] -> Models]

Required(strategy) ==
  CASE strategy = "roleBased" -> {"arbiter", "roles"}
    [] strategy = "mixture"   -> {"proposers", "aggregators", "refiner"}
    [] strategy = "majority"  -> {"members"}
    [] OTHER                  -> {"arbiter", "members"}

Optional(strategy) ==
  CASE strategy = "majority"   -> {"quorum", "arbiter"}
    [] strategy = "rankRefine" -> {"quorum", "refine_top_k"}
    [] strategy = "debate"     -> {"quorum", "max_debate_rounds"}
    [] strategy = "delphi"     -> {"quorum", "max_delphi_rounds"}
    [] OTHER                   -> {"quorum"}

\* ParseStrategy, the checks of buildCouncilType and RolesWithModels.
Accepts(e) ==
  /\ e.strategy \in Strategies
  /\ Required(e.strategy) \subseteq DOMAIN e.fields
  /\ DOMAIN e.fields \subseteq Required(e.strategy) \cup Optional(e.strategy)
  /\ "members" \in DOMAIN e.fields => Len(e.fields.members) >= 2
  /\ "roles" \in DOMAIN e.fields => DOMAIN e.fields.roles = Range(RoleKeys)

buildCouncilType(e) ==
  LET Given(field, absent) == IF field \in DOMAIN e.fields THEN e.fields[field] ELSE absent
      roles == Given("roles", <<>>)
  IN  [strategy    |-> e.strategy,
       models      |-> Given("members", <<>>),
       roles       |-> IF roles = <<>> THEN <<>>
                       ELSE [i \in DOMAIN RoleKeys |-> roles[RoleKeys[i]]],
       proposers   |-> Given("proposers", <<>>),
       aggregators |-> Given("aggregators", <<>>),
       chairman    |-> "arbiter" \in DOMAIN e.fields,
       refiner     |-> "refiner" \in DOMAIN e.fields,
       quorumMin   |-> Given("quorum", IF e.strategy = "roleBased" THEN Len(RoleKeys) ELSE 0),
       rounds      |-> Given("max_debate_rounds", Given("max_delphi_rounds", 0)),
       topK        |-> Given("refine_top_k", 0)]

LoadCouncilRegistryYAML_BadSkipped(councils) ==
  LET good == {n \in DOMAIN councils : Accepts(councils[n])}
  IN  IF good = {} THEN {} ELSE {[n \in good |-> buildCouncilType(councils[n])]}

\* The registry of a file, as a set of one; none when the file is refused.
LoadCouncilRegistryYAML(councils) ==
  IF /\ DOMAIN councils # {}
     /\ \A n \in DOMAIN councils : Accepts(councils[n])
     /\ \A n, k \in DOMAIN councils :
          councils[n].strategy = councils[k].strategy => n = k
  THEN {[n \in DOMAIN councils |-> buildCouncilType(councils[n])]}
  ELSE {}

---------------------------------------------------------------------------
(* registry_env.go, with the fallbacks of config.go.  env has the default  *)
(* council type and its models; the pool of models of each strategy that   *)
(* has one; the strategies whose chairman or refiner is set; the           *)
(* aggregators; and the numbers of rounds that are set.                    *)

\* The types of Config.
IsEnvironment(env) ==
  /\ env.models \in Seq(Models)
  /\ env.aggregators \in Seq(Models)
  /\ \A s \in DOMAIN env.pools : env.pools[s] \in Seq(Models) \ {<<>>}
  /\ \A s \in DOMAIN env.rounds : env.rounds[s] \in Int

EnvName ==
  [majority |-> "majority", rankRefine |-> "generate-rank-refine", debate |-> "debate",
   mixture |-> "moa", roleBased |-> "role-based", delphi |-> "delphi"]

\* Majority does without a chairman; no other strategy does.
Registers(env, strategy) ==
  /\ strategy \in DOMAIN env.pools
  /\ strategy # "majority" => strategy \in env.chairs
  /\ strategy = "mixture" => env.aggregators # <<>>

\* Rounds that are not positive are taken as not set.
EnvRounds(env, strategy) ==
  IF strategy \in DOMAIN env.rounds /\ env.rounds[strategy] > 0 THEN env.rounds[strategy] ELSE 0

EnvType(env, strategy) ==
  LET pool == env.pools[strategy]
      type == [NoCouncilType EXCEPT !.strategy = strategy]
      led  == strategy \in env.chairs
  IN  CASE strategy = "mixture"   -> [type EXCEPT !.proposers = pool, !.refiner = led,
                                                  !.aggregators = env.aggregators]
        [] strategy = "roleBased" ->
             [type EXCEPT !.chairman = led, !.quorumMin = Len(RoleKeys),
                          !.roles = [i \in DOMAIN RoleKeys |-> pool[((i - 1) % Len(pool)) + 1]]]
        [] OTHER                  -> [type EXCEPT !.models = pool, !.chairman = led,
                                                  !.rounds = EnvRounds(env, strategy)]

\* PeerReview is always there, under the name of the default type, which a
\* strategy of the same name replaces.
buildRegistryFromEnv(env) ==
  LET opted == {s \in DOMAIN EnvName : Registers(env, s)}
      named == {EnvName[s] : s \in opted}
  IN  [n \in named \cup {env.defaultType} |->
         IF n \in named THEN EnvType(env, CHOOSE s \in opted : EnvName[s] = n)
         ELSE [NoCouncilType EXCEPT !.models = env.models, !.chairman = TRUE]]

---------------------------------------------------------------------------
(* registry.go: the file at COUNCIL_CONFIG_PATH, which may be turned off   *)
(* by an empty path, be missing, or not parse.                             *)

BuildRegistry(config) ==
  CASE config.file \in {"off", "missing"} -> {buildRegistryFromEnv(config.env)}
    [] config.file = "malformed"          -> {}
    [] config.file = "parsed"             -> LoadCouncilRegistryYAML(config.councils)

===========================================================================
