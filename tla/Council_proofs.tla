--------------------------- MODULE Council_proofs --------------------------
(***************************************************************************)
(* Proofs about the registry of council types and the anonymous labels,    *)
(* for any configuration, any models and any shuffle.  Rounds_proofs and   *)
(* Rada_proofs build on the invariant proved here.                         *)
(***************************************************************************)
EXTENDS Rada, Rankings_proofs

---------------------------------------------------------------------------
(* The registry: every council type in it is a CouncilType, and has what   *)
(* its strategy needs.                                                     *)

CouncilTypes ==
  [strategy : Strategies, models : Seq(Models), roles : Seq(Models), proposers : Seq(Models),
   aggregators : Seq(Models), chairman : BOOLEAN, refiner : BOOLEAN, quorumMin : Int,
   rounds : Int, topK : Int]

\* Configured, of a council type.
Fitted(t) ==
  /\ t.strategy = "roleBased" => t.roles # <<>>
  /\ t.strategy = "majority" => t.models # <<>>
  /\ t.strategy \in {"rankRefine", "debate", "delphi"} => t.models # <<>> /\ t.chairman
  /\ t.strategy = "mixture" => t.proposers # <<>> /\ t.aggregators # <<>> /\ t.refiner

FittedTypes == {t \in CouncilTypes : Fitted(t)}

\* A council type that is fitted out passes the check its strategy begins with.
LEMMA FittedIsConfigured == Fitted(ct) => Configured
BY DEF Fitted, Configured, PlaysRoles, ByMajority, Refines, Debating, Mixes, RatedByPanel,
       RoleBasedConfigured, MajorityConfigured, RankRefineConfigured, DebateConfigured,
       MixtureConfigured, DelphiConfigured

\* The zero CouncilType, of a name that is not registered, needs nothing.
LEMMA NoTypeFitted == NoCouncilType \in FittedTypes
BY DEF NoCouncilType, FittedTypes, CouncilTypes, Strategies, Fitted

\* The models of Stage 1, whatever field they come from.
LEMMA PoolIsSequence ==
  ASSUME NEW t \in CouncilTypes
  PROVE  Pool(t) \in Seq(Models)
BY DEF CouncilTypes, Pool

\* There are five roles.
LEMMA RoleKeysDomain == DOMAIN RoleKeys = 1 .. 5 /\ Len(RoleKeys) = 5
BY DEF RoleKeys

\* An entry of a file that is accepted (buildCouncilType of registry_yaml.go)
\* makes a council type that has what its strategy needs.
LEMMA FileTypesFitted ==
  ASSUME NEW e, IsEntry(e), Accepts(e)
  PROVE  buildCouncilType(e) \in FittedTypes
<1> DEFINE Value(field, absent) ==
             IF field \in DOMAIN e.fields THEN e.fields[field] ELSE absent
           playing == Value("roles", <<>>)
           seats == IF playing = <<>> THEN <<>>
                    ELSE [i \in DOMAIN RoleKeys |-> playing[RoleKeys[i]]]
           t == buildCouncilType(e)
<1>1. e.strategy \in Strategies
  BY DEF Accepts
<1>2. Value("members", <<>>) \in Seq(Models)
  BY DEF IsEntry
<1>3. Value("proposers", <<>>) \in Seq(Models)
  BY DEF IsEntry
<1>4. Value("aggregators", <<>>) \in Seq(Models)
  BY DEF IsEntry
<1>5. seats \in Seq(Models) /\ ("roles" \in DOMAIN e.fields => seats # <<>>)
  <2>1. CASE "roles" \notin DOMAIN e.fields
    BY <2>1
  <2>2. CASE "roles" \in DOMAIN e.fields
    <3>1. /\ playing = e.fields["roles"]
          /\ playing # <<>>
          /\ playing \in [DOMAIN playing -> Models]
          /\ DOMAIN playing = Range(RoleKeys)
      BY <2>2 DEF IsEntry, Accepts
    <3>2. seats = [i \in 1 .. 5 |-> playing[RoleKeys[i]]]
      BY <3>1, RoleKeysDomain
    <3>3. ASSUME NEW i \in 1 .. 5 PROVE playing[RoleKeys[i]] \in Models
      BY <3>1, RoleKeysDomain DEF Range
    <3>4. seats \in [1 .. 5 -> Models]
      BY <3>2, <3>3
    <3>5. seats \in Seq(Models) /\ Len(seats) = 5
      BY <3>4
    <3>6. QED
      BY <3>5
  <2>3. QED
    BY <2>1, <2>2
<1>6. Value("quorum", IF e.strategy = "roleBased" THEN Len(RoleKeys) ELSE 0) \in Int
  BY RoleKeysDomain DEF IsEntry
<1>7. Value("max_debate_rounds", Value("max_delphi_rounds", 0)) \in Int
  BY DEF IsEntry
<1>8. Value("refine_top_k", 0) \in Int
  BY DEF IsEntry
<1>9. t = [strategy    |-> e.strategy,
           models      |-> Value("members", <<>>),
           roles       |-> seats,
           proposers   |-> Value("proposers", <<>>),
           aggregators |-> Value("aggregators", <<>>),
           chairman    |-> "arbiter" \in DOMAIN e.fields,
           refiner     |-> "refiner" \in DOMAIN e.fields,
           quorumMin   |-> Value("quorum", IF e.strategy = "roleBased" THEN Len(RoleKeys) ELSE 0),
           rounds      |-> Value("max_debate_rounds", Value("max_delphi_rounds", 0)),
           topK        |-> Value("refine_top_k", 0)]
  BY DEF buildCouncilType
<1>10. Fitted(t)
  <2>1. \A f \in {"members", "proposers", "aggregators"} :
          f \in DOMAIN e.fields => Value(f, <<>>) # <<>>
    BY DEF IsEntry
  <2>2. Required(e.strategy) \subseteq DOMAIN e.fields
    BY DEF Accepts
  <2>3. /\ e.strategy = "roleBased" => "roles" \in DOMAIN e.fields
        /\ e.strategy = "majority" => "members" \in DOMAIN e.fields
        /\ e.strategy \in {"rankRefine", "debate", "delphi"} =>
             "members" \in DOMAIN e.fields /\ "arbiter" \in DOMAIN e.fields
        /\ e.strategy = "mixture" =>
             /\ "proposers" \in DOMAIN e.fields
             /\ "aggregators" \in DOMAIN e.fields
             /\ "refiner" \in DOMAIN e.fields
    BY <2>2 DEF Required
  <2> HIDE DEF t, seats, Value
  <2>4. QED
    BY <2>1, <2>3, <1>5, <1>9 DEF Fitted
<1>11. t \in CouncilTypes
  <2> HIDE DEF t, seats, Value
  <2>1. QED
    BY <1>1, <1>2, <1>3, <1>4, <1>5, <1>6, <1>7, <1>8, <1>9 DEF CouncilTypes
<1>12. QED
  BY <1>10, <1>11 DEF FittedTypes

\* A function on 1 .. n is a sequence.
LEMMA IsSequence ==
  ASSUME NEW S, NEW n \in Nat, NEW f \in [1 .. n -> S]
  PROVE  f \in Seq(S) /\ Len(f) = n
OBVIOUS

\* The position of a role in a pool that may be shorter than the roles.
LEMMA ModuloInRange ==
  ASSUME NEW a \in Int, NEW n \in Nat \ {0}
  PROVE  (a % n) + 1 \in 1 .. n
OBVIOUS

\* A strategy the environment registers (registry_env.go) has what it needs.
LEMMA EnvironmentTypesFitted ==
  ASSUME NEW env, IsEnvironment(env), NEW s \in DOMAIN EnvName, Registers(env, s)
  PROVE  EnvType(env, s) \in FittedTypes
<1> DEFINE pool == env.pools[s]
           led == s \in env.chairs
           seats == [i \in DOMAIN RoleKeys |-> pool[((i - 1) % Len(pool)) + 1]]
<1>1. /\ s \in Strategies \ {"peerReview"}
      /\ pool \in Seq(Models) \ {<<>>}
      /\ env.aggregators \in Seq(Models)
      /\ s = "mixture" => env.aggregators # <<>>
      /\ s # "majority" => led
      /\ led \in BOOLEAN
  BY DEF EnvName, Registers, IsEnvironment, Strategies
<1>2. seats \in Seq(Models) /\ seats # <<>>
  <2> HIDE DEF pool
  <2>1. Len(pool) \in Nat \ {0}
    BY <1>1
  <2>2. ASSUME NEW i \in 1 .. 5 PROVE pool[((i - 1) % Len(pool)) + 1] \in Models
    <3>1. ((i - 1) % Len(pool)) + 1 \in 1 .. Len(pool)
      BY <2>1, ModuloInRange
    <3>2. QED
      BY <3>1, <1>1
  <2>3. seats \in [1 .. 5 -> Models]
    BY <2>2, RoleKeysDomain
  <2> HIDE DEF seats
  <2>4. seats \in Seq(Models) /\ Len(seats) = 5
    BY <2>3, IsSequence
  <2>5. QED
    BY <2>4
<1>3. EnvRounds(env, s) \in Int
  BY DEF EnvRounds, IsEnvironment
<1> DEFINE type == EnvType(env, s)
<1>4. CASE s = "mixture"
  <2>1. type = [[NoCouncilType EXCEPT !.strategy = s] EXCEPT
                  !.proposers = pool, !.refiner = led, !.aggregators = env.aggregators]
    BY <1>4 DEF EnvType
  <2> HIDE DEF pool, led, type
  <2>2. type = [strategy |-> s, models |-> <<>>, roles |-> <<>>, proposers |-> pool,
                aggregators |-> env.aggregators, chairman |-> FALSE, refiner |-> led,
                quorumMin |-> 0, rounds |-> 0, topK |-> 0]
    BY <2>1 DEF NoCouncilType
  <2>3. type \in CouncilTypes
    BY <1>1, <2>2 DEF CouncilTypes
  <2>4. Fitted(type)
    BY <1>1, <1>4, <2>2 DEF Fitted
  <2>5. QED
    BY <2>3, <2>4 DEF type, FittedTypes
<1>5. CASE s = "roleBased"
  <2>1. type = [[NoCouncilType EXCEPT !.strategy = s] EXCEPT
                  !.chairman = led, !.quorumMin = Len(RoleKeys), !.roles = seats]
    BY <1>5 DEF EnvType
  <2> HIDE DEF pool, led, seats, type
  <2>2. type = [strategy |-> s, models |-> <<>>, roles |-> seats, proposers |-> <<>>,
                aggregators |-> <<>>, chairman |-> led, refiner |-> FALSE,
                quorumMin |-> Len(RoleKeys), rounds |-> 0, topK |-> 0]
    BY <2>1 DEF NoCouncilType
  <2>3. type \in CouncilTypes
    BY <1>1, <1>2, RoleKeysDomain, <2>2 DEF CouncilTypes
  <2>4. Fitted(type)
    BY <1>1, <1>2, <1>5, <2>2 DEF Fitted
  <2>5. QED
    BY <2>3, <2>4 DEF type, FittedTypes
<1>6. CASE s \notin {"mixture", "roleBased"}
  <2>1. type = [[NoCouncilType EXCEPT !.strategy = s] EXCEPT
                  !.models = pool, !.chairman = led, !.rounds = EnvRounds(env, s)]
    BY <1>6 DEF EnvType
  <2> HIDE DEF pool, led, type
  <2>2. type = [strategy |-> s, models |-> pool, roles |-> <<>>, proposers |-> <<>>,
                aggregators |-> <<>>, chairman |-> led, refiner |-> FALSE, quorumMin |-> 0,
                rounds |-> EnvRounds(env, s), topK |-> 0]
    BY <2>1 DEF NoCouncilType
  <2>3. type \in CouncilTypes
    BY <1>1, <1>3, <2>2 DEF CouncilTypes
  <2>4. Fitted(type)
    BY <1>1, <1>6, <2>2 DEF Fitted
  <2>5. QED
    BY <2>3, <2>4 DEF type, FittedTypes
<1>7. QED
  BY <1>4, <1>5, <1>6

\* So has the registry of an environment, its default type included.
LEMMA EnvironmentRegistryFitted ==
  ASSUME NEW env, IsEnvironment(env)
  PROVE  Range(buildRegistryFromEnv(env)) \subseteq FittedTypes
<1> DEFINE opted == {s \in DOMAIN EnvName : Registers(env, s)}
           named == {EnvName[s] : s \in opted}
           default == [NoCouncilType EXCEPT !.models = env.models, !.chairman = TRUE]
           types == buildRegistryFromEnv(env)
<1>1. default \in FittedTypes
  BY NoTypeFitted DEF NoCouncilType, FittedTypes, CouncilTypes, Fitted, IsEnvironment
<1>2. ASSUME NEW n \in named
      PROVE  EnvType(env, CHOOSE s \in opted : EnvName[s] = n) \in FittedTypes
  <2>1. \E s \in opted : EnvName[s] = n
    BY <1>2
  <2>2. (CHOOSE s \in opted : EnvName[s] = n) \in opted
    BY <2>1
  <2>3. QED
    BY <2>2, EnvironmentTypesFitted
<1>3. types = [n \in named \cup {env.defaultType} |->
                 IF n \in named THEN EnvType(env, CHOOSE s \in opted : EnvName[s] = n)
                 ELSE default]
  BY DEF buildRegistryFromEnv
<1> HIDE DEF named, default, types
<1>4. ASSUME NEW n \in DOMAIN types PROVE types[n] \in FittedTypes
  BY <1>1, <1>2, <1>3
<1>5. QED
  BY <1>4 DEF types, Range

\* Whatever a registry was built from, what is in it is fitted out; and the
\* registry of a file has the names of the file.
LEMMA RegistryFitted ==
  ASSUME NEW c \in Configs, NEW types \in BuildRegistry(c)
  PROVE  /\ Range(types) \subseteq FittedTypes
         /\ c.file \in {"parsed", "malformed"} =>
              c.file = "parsed" /\ DOMAIN types = DOMAIN c.councils
<1>1. /\ c.file \in {"off", "missing", "malformed", "parsed"}
      /\ \A n \in DOMAIN c.councils : IsEntry(c.councils[n])
      /\ IsEnvironment(c.env)
  BY CouncilAssumption DEF CouncilAssumption
<1>2. CASE c.file \in {"off", "missing"}
  BY <1>1, <1>2, EnvironmentRegistryFitted DEF BuildRegistry
<1>3. CASE c.file = "malformed"
  BY <1>3 DEF BuildRegistry
<1>4. CASE c.file = "parsed"
  <2>1. types \in LoadCouncilRegistryYAML(c.councils)
    BY <1>4 DEF BuildRegistry
  <2>2. /\ types = [n \in DOMAIN c.councils |-> buildCouncilType(c.councils[n])]
        /\ \A n \in DOMAIN c.councils : Accepts(c.councils[n])
    BY <2>1 DEF LoadCouncilRegistryYAML
  <2>3. ASSUME NEW n \in DOMAIN c.councils PROVE types[n] \in FittedTypes
    BY <1>1, <2>2, FileTypesFitted
  <2>4. QED
    BY <1>4, <2>2, <2>3 DEF Range
<1>5. QED
  BY <1>1, <1>2, <1>3, <1>4

---------------------------------------------------------------------------
(* The labels.                                                             *)

\* Members are counted in natural numbers.
LEMMA MembersFinite ==
  ASSUME ct \in CouncilTypes, NEW S \in SUBSET Members
  PROVE  /\ IsFiniteSet(S)
         /\ Cardinality(S) \in Nat
         /\ Cardinality(S) = 0 <=> S = {}
<1>1. Members = 1 .. Len(Pool(ct)) /\ Len(Pool(ct)) \in Nat
  BY PoolIsSequence DEF Members
<1>2. IsFiniteSet(Members)
  BY <1>1, FS_Interval
<1>3. QED
  BY <1>2, FS_Subset, FS_CardinalityType, FS_EmptySet

\* The label an answer goes under is that of its model; it is the place of the
\* member in the order if the model is there once.
LEMMA LabelOfItsModel ==
  ASSUME ct \in CouncilTypes, NEW S \in SUBSET Members, NEW order \in Orders(S)
  PROVE  LET L == Labelled(order, S)
         IN  /\ DOMAIN L.toModel = 1 .. Cardinality(S)
             /\ DOMAIN L.of = S
             /\ \A i \in S : L.of[i] \in DOMAIN L.toModel /\ L.toModel[L.of[i]] = Pool(ct)[i]
             /\ NoModelTwice => \A l \in 1 .. Cardinality(S) : order[l] \in S /\ L.of[order[l]] = l
<1> DEFINE n == Cardinality(S)
           L == Labelled(order, S)
           SameModel(i) == {l \in DOMAIN order : Pool(ct)[order[l]] = Pool(ct)[i]}
<1>1. n \in Nat
  BY MembersFinite
<1>2. /\ order \in [1 .. n -> S]
      /\ \A i \in S : \E l \in 1 .. n : order[l] = i
      /\ \A k, l \in 1 .. n : order[k] = order[l] => k = l
  BY DEF Orders, Bijection, Injection, Surjection, IsInjective
<1>3. /\ L.toModel = [l \in 1 .. n |-> Pool(ct)[order[l]]]
      /\ L.of = [i \in S |-> Max(SameModel(i))]
  BY <1>2 DEF Labelled
<1> HIDE DEF n, L
<1>4. ASSUME NEW i \in S
      PROVE  /\ Max(SameModel(i)) \in SameModel(i)
             /\ SameModel(i) \subseteq 1 .. n
  <2>1. SameModel(i) \subseteq 1 .. n /\ SameModel(i) # {}
    BY <1>2
  <2>2. n \in Int
    BY <1>1
  <2> HIDE DEF SameModel
  <2>3. SameModel(i) \in SUBSET (1 .. n) /\ SameModel(i) # {}
    BY <2>1
  <2>4. Max(SameModel(i)) \in SameModel(i)
    BY <2>2, <2>3, GreatestElement
  <2>5. QED
    BY <2>1, <2>4
<1>5. ASSUME NEW i \in S
      PROVE  L.of[i] \in DOMAIN L.toModel /\ L.toModel[L.of[i]] = Pool(ct)[i]
  BY <1>2, <1>3, <1>4
<1>6. ASSUME NoModelTwice, NEW l \in 1 .. n
      PROVE  order[l] \in S /\ L.of[order[l]] = l
  <2>1. order[l] \in S
    BY <1>2
  <2>2. ASSUME NEW k \in SameModel(order[l]) PROVE k = l
    <3>1. /\ k \in 1 .. n
          /\ Pool(ct)[order[k]] = Pool(ct)[order[l]]
          /\ order[k] \in DOMAIN Pool(ct) /\ order[l] \in DOMAIN Pool(ct)
      BY <1>2, <2>1 DEF Members
    <3>2. QED
      BY <1>2, <1>6, <3>1 DEF NoModelTwice, IsInjective
  <2>3. QED
    BY <1>3, <1>4, <2>1, <2>2
<1>7. QED
  BY <1>3, <1>5, <1>6 DEF n, L

---------------------------------------------------------------------------
(* The steps of a run, as far as the registry and the labels can tell them *)
(* apart.                                                                  *)

Phases == {"startup", "ready", "clarify", "stage0", "run", "stage1", "stage2", "stage3", "done"}
BeforeLabels == {"startup", "ready", "clarify", "stage0", "run", "stage1"}
Frame == UNCHANGED <<configVars, ct, seated, labels>>

Assigned == IF PlaysRoles THEN {RoleLabels} ELSE assignLabels(Answered)

\* Stage 1 is over: labels are given out, or there is no quorum.
LabelsGivenOut ==
  /\ phase = "stage1"
  /\ UNCHANGED <<configVars, ct>>
  /\ \/ /\ seated' = Answered
        /\ labels' \in Assigned
        /\ phase' = IF ByMajority \/ PlaysRoles THEN "stage3" ELSE "stage2"
        /\ UNCHANGED outcome
     \/ /\ Return("quorum")
        /\ UNCHANGED <<seated, labels>>

\* A step that gives out no labels stays in its phase, goes on or returns.
OtherStep ==
  /\ Frame
  /\ phase \notin {"startup", "ready"}
  /\ \/ UNCHANGED <<phase, outcome>>
     \/ phase # "done" /\ \E what \in (Errors \cup {"ok", "questions"}) \ {"notStarted"} :
          Return(what) /\ (what = "misconfigured" => ~Configured)
     \/ /\ phase \in {"clarify", "stage0", "run"} /\ phase' \in {"stage0", "run", "stage1"}
        /\ UNCHANGED outcome
     \/ phase = "stage2" /\ phase' = "stage3" /\ UNCHANGED outcome

\* Every step of a run has one of four shapes.
LEMMA CouncilSteps ==
  ASSUME Next
  PROVE  Startup \/ Request \/ LabelsGivenOut \/ OtherStep
<1> USE DEF configVars, Frame, Return
<1>1. CASE Startup \/ Request
  BY <1>1
<1>2. CASE Stage0Step
  BY <1>2 DEF Stage0Step, Clarify, Propose, Arbiter, Proceed, OtherStep, Errors
<1>3. CASE RunFull
  BY <1>3 DEF RunFull, OtherStep, Errors
<1>4. CASE CommonStep
  BY <1>4 DEF CommonStep, Stage1Answer, Stage3, OtherStep, Errors
<1>5. CASE PeerReviewStep
  <2>1. CASE PeerReviewStage1Done
    BY <2>1 DEF PeerReviewStage1Done, Stage1Joined, LabelsGivenOut, Assigned, PeersReview,
                PlaysRoles, ByMajority
  <2>2. CASE (\E k \in DOMAIN slots : Review(k)) \/ PeerReviewStage2Done
    BY <2>2 DEF Review, PeerReviewStage2Done, OtherStep
  <2>3. QED
    BY <1>5, <2>1, <2>2 DEF PeerReviewStep
<1>6. CASE RoleBasedStep
  BY <1>6 DEF RoleBasedStep, Stage1Joined, LabelsGivenOut, Assigned
<1>7. CASE MajorityStep
  BY <1>7 DEF MajorityStep, MajorityStage1Done, MajorityStage3, Stage3, Stage1Joined,
              LabelsGivenOut, Assigned, PlaysRoles, ByMajority, OtherStep, Errors
<1>8. CASE RankRefineStep
  BY <1>8 DEF RankRefineStep, RankRefineStage1Done, Rank, Stage1Joined, Refines,
              LabelsGivenOut, Assigned, PlaysRoles, ByMajority, OtherStep, Errors
<1>9. CASE DebateStep
  BY <1>9 DEF DebateStep, DebateStage1Done, Revise, DebateRoundDone, RoundEnds, Stage1Joined,
              Debating, LabelsGivenOut, Assigned, PlaysRoles, ByMajority, OtherStep, Errors
<1>10. CASE MixtureStep
  BY <1>10 DEF MixtureStep, MixtureStage1Done, Aggregate, MixtureStage2Done, Stage1Joined,
               Mixes, LabelsGivenOut, Assigned, PlaysRoles, ByMajority, OtherStep, Errors
<1>11. CASE DelphiStep
  BY <1>11 DEF DelphiStep, DelphiStage1Done, Rate, DelphiRoundDone, RoundEnds, Stage1Joined,
               RatedByPanel, LabelsGivenOut, Assigned, PlaysRoles, ByMajority, OtherStep, Errors
<1>12. QED
  BY <1>1, <1>2, <1>3, <1>4, <1>5, <1>6, <1>7, <1>8, <1>9, <1>10, <1>11
     DEF Next, RunStep, StrategyStep

---------------------------------------------------------------------------
(* The inductive invariant of the registry and the labels: the council     *)
(* type of a run is fitted out for its strategy, and who is seated has a   *)
(* label that leads back to its model.                                     *)

RegistryInv ==
  /\ config \in Configs
  /\ ct \in FittedTypes
  /\ phase \in Phases
  /\ outcome = "running" <=> phase # "done"
  /\ outcome # "misconfigured"
  /\ phase # "startup" /\ outcome # "notStarted" => registry \in BuildRegistry(config)

LabelsInv ==
  /\ phase \in BeforeLabels => seated = {}
  /\ seated \subseteq Members
  /\ LabelsMapBack
  /\ ByMajority \/ PlaysRoles => phase # "stage2"
  /\ phase \in {"stage2", "stage3"} /\ ~PlaysRoles => labels \in assignLabels(seated)

CouncilInv == RegistryInv /\ LabelsInv

\* A program that has just been started has no registry and no labels.
LEMMA InitialCouncil == Init => CouncilInv
<1> SUFFICES ASSUME Init PROVE CouncilInv
  OBVIOUS
<1>1. /\ config \in Configs /\ ct = NoCouncilType /\ phase = "startup" /\ seated = {}
      /\ outcome = "running"
  BY DEF Init, CouncilInit
<1>2. ct.strategy = "peerReview"
  BY <1>1 DEF NoCouncilType
<1>3. QED
  BY <1>1, <1>2, NoTypeFitted
     DEF CouncilInv, RegistryInv, LabelsInv, Phases, BeforeLabels, LabelsMapBack

\* Whichever labels a strategy gives out lead back to the models.
LEMMA AssignedMapBack ==
  ASSUME ct \in CouncilTypes, NEW L \in Assigned
  PROVE  \A i \in Answered : L.toModel[L.of[i]] = Pool(ct)[i]
<1>1. Answered \subseteq Members
  BY DEF Answered
<1>2. CASE PlaysRoles
  BY <1>2 DEF Assigned, RoleLabels
<1>3. CASE ~PlaysRoles
  BY <1>1, <1>3, LabelOfItsModel DEF Assigned, assignLabels
<1>4. QED
  BY <1>2, <1>3

\* No step takes a council type that is not fitted out.
LEMMA RegistryStep ==
  ASSUME CouncilInv, [Next]_vars
  PROVE  RegistryInv'
<1> USE DEF RegistryInv, configVars, Return
<1>1. CASE Startup
  <2>1. phase' \in {"ready", "done"} /\ UNCHANGED <<config, ct>>
    BY <1>1 DEF Startup
  <2>2. QED
    BY <1>1, <2>1 DEF CouncilInv, Startup, Phases
<1>2. CASE Request
  <2>1. registry \in BuildRegistry(config) /\ config \in Configs
    BY <1>2 DEF CouncilInv, Request
  <2>2. ct' \in FittedTypes
    BY <1>2, <2>1, RegistryFitted, NoTypeFitted DEF Request
  <2>3. QED
    BY <1>2, <2>2 DEF CouncilInv, Request, Phases
<1>3. CASE LabelsGivenOut
  BY <1>3 DEF CouncilInv, LabelsGivenOut, Phases
<1>4. CASE OtherStep
  <2>1. Configured
    BY FittedIsConfigured DEF CouncilInv, FittedTypes
  <2>2. QED
    BY <1>4, <2>1 DEF CouncilInv, OtherStep, Frame, Phases, Errors
<1>5. CASE UNCHANGED vars
  BY <1>5 DEF CouncilInv, vars, councilVars
<1>6. QED
  BY <1>1, <1>2, <1>3, <1>4, <1>5, CouncilSteps

\* No step parts a label from its model.
LEMMA LabelsStep ==
  ASSUME CouncilInv, [Next]_vars
  PROVE  LabelsInv'
<1> USE DEF LabelsInv, configVars, Return
<1>1. CASE Startup \/ Request
  <2>1. phase' # "stage2" /\ phase' # "stage3" /\ seated = {} /\ UNCHANGED <<seated, labels>>
    BY <1>1 DEF CouncilInv, Startup, Request, BeforeLabels
  <2>2. QED
    BY <2>1 DEF LabelsMapBack
<1>2. CASE LabelsGivenOut
  <2>1. UNCHANGED ct
    BY <1>2 DEF LabelsGivenOut
  <2>2. CASE /\ seated' = Answered
             /\ labels' \in Assigned
             /\ phase' = IF ByMajority \/ PlaysRoles THEN "stage3" ELSE "stage2"
    <3>1. LabelsMapBack'
      BY <2>1, <2>2, AssignedMapBack DEF CouncilInv, RegistryInv, FittedTypes, LabelsMapBack
    <3>2. seated' \subseteq Members'
      BY <2>1, <2>2 DEF Answered, Members
    <3>3. /\ ByMajority' = ByMajority
          /\ PlaysRoles' = PlaysRoles
      BY <2>1 DEF ByMajority, PlaysRoles
    <3>4. ~PlaysRoles' => labels' \in assignLabels(seated)'
      BY <2>1, <2>2, <3>3 DEF Assigned, assignLabels, Labelled
    <3>5. QED
      BY <2>2, <3>1, <3>2, <3>3, <3>4 DEF BeforeLabels
  <2>3. CASE phase' = "done" /\ UNCHANGED <<seated, labels>>
    BY <2>1, <2>3 DEF CouncilInv, LabelsMapBack, Members, BeforeLabels
  <2>4. QED
    BY <1>2, <2>2, <2>3 DEF LabelsGivenOut
<1>3. CASE Frame /\ phase' = phase
  BY <1>3 DEF CouncilInv, Frame, LabelsMapBack, Members, ByMajority, PlaysRoles,
              assignLabels, Labelled
<1>4. CASE OtherStep
  <2>1. CASE phase' = phase
    BY <1>3, <1>4, <2>1 DEF OtherStep
  <2>2. CASE phase' = "done"
    BY <1>4, <2>2 DEF CouncilInv, OtherStep, Frame, LabelsMapBack, Members, BeforeLabels
  <2>3. CASE phase \in BeforeLabels /\ phase' \in {"stage0", "run", "stage1"}
    BY <1>4, <2>3 DEF CouncilInv, OtherStep, Frame, LabelsMapBack, BeforeLabels
  <2>4. CASE phase = "stage2" /\ phase' = "stage3"
    BY <1>4, <2>4 DEF CouncilInv, OtherStep, Frame, LabelsMapBack, Members, PlaysRoles,
                      assignLabels, Labelled, BeforeLabels
  <2>5. QED
    BY <1>4, <2>1, <2>2, <2>3, <2>4 DEF OtherStep, BeforeLabels
<1>5. CASE UNCHANGED vars
  BY <1>3, <1>5 DEF vars, councilVars, Frame
<1>6. QED
  BY <1>1, <1>2, <1>4, <1>5, CouncilSteps

\* The registry and the labels are sound at every moment of every run.
THEOREM CouncilInvariant == Spec => []CouncilInv
<1>1. CouncilInv /\ [Next]_vars => CouncilInv'
  BY RegistryStep, LabelsStep DEF CouncilInv
<1>2. QED
  BY InitialCouncil, <1>1, PTL DEF Spec

\* The label an answer went under leads back to the model that gave it, for
\* any models, a repeated one included, and any shuffle (assignLabels).
THEOREM LabelsLeadBack == Spec => []LabelsMapBack
BY CouncilInvariant, PTL DEF CouncilInv, LabelsInv

\* A registry has all of its file or nothing, and no council type that is in
\* one is refused by its strategy for want of a model, whatever the file or the
\* environment says (LoadCouncilRegistryYAML, buildRegistryFromEnv).
THEOREM RegistriesAreWhole == Spec => []RegistryIsWhole
<1>1. CouncilInv => RegistryIsWhole
  BY RegistryFitted DEF CouncilInv, RegistryInv, RegistryIsWhole
<1>2. QED
  BY CouncilInvariant, <1>1, PTL

---------------------------------------------------------------------------
(* The labels that were given out are finitely many, and the answers carry *)
(* some of them.                                                           *)

LabelledInv ==
  /\ DOMAIN labels.of = seated
  /\ Labels \subseteq DOMAIN labels.toModel
  /\ IsFiniteSet(DOMAIN labels.toModel)

\* Whichever labels a strategy gives out.
LEMMA AssignedLabels ==
  ASSUME ct \in CouncilTypes, NEW L \in Assigned
  PROVE  /\ DOMAIN L.of = Answered
         /\ \A i \in Answered : L.of[i] \in DOMAIN L.toModel
         /\ IsFiniteSet(DOMAIN L.toModel)
<1>1. Answered \in SUBSET Members
  BY DEF Answered
<1>2. CASE PlaysRoles
  <2>1. IsFiniteSet(Answered)
    BY <1>1, MembersFinite
  <2>2. QED
    BY <1>2, <2>1 DEF Assigned, RoleLabels
<1>3. CASE ~PlaysRoles
  <2>1. PICK order \in Orders(Answered) : L = Labelled(order, Answered)
    BY <1>3 DEF Assigned, assignLabels
  <2>2. /\ DOMAIN L.toModel = 1 .. Cardinality(Answered)
        /\ DOMAIN L.of = Answered
        /\ \A i \in Answered : L.of[i] \in DOMAIN L.toModel
    BY <1>1, <2>1, LabelOfItsModel
  <2>3. PICK n \in Nat : n = Cardinality(Answered)
    BY <1>1, MembersFinite
  <2>4. 1 \in Int /\ n \in Int
    OBVIOUS
  <2>5. IsFiniteSet(1 .. n)
    BY <2>4, FS_Interval
  <2>6. QED
    BY <2>2, <2>3, <2>5
<1>4. QED
  BY <1>2, <1>3

\* A step gives out labels or leaves them as they are.
LEMMA LabelSteps ==
  ASSUME Next
  PROVE  \/ UNCHANGED <<seated, labels>>
         \/ seated' = Answered /\ labels' \in Assigned
<1>1. CASE Startup \/ Request
  BY <1>1 DEF Startup, Request
<1>2. CASE LabelsGivenOut
  BY <1>2 DEF LabelsGivenOut
<1>3. CASE OtherStep
  BY <1>3 DEF OtherStep, Frame
<1>4. QED
  BY <1>1, <1>2, <1>3, CouncilSteps

\* So the labels stay those of the answers.
LEMMA LabelledStep == CouncilInv /\ LabelledInv /\ [Next]_vars => LabelledInv'
<1> SUFFICES ASSUME CouncilInv, LabelledInv, [Next]_vars PROVE LabelledInv'
  OBVIOUS
<1>1. CASE UNCHANGED <<seated, labels>>
  BY <1>1 DEF LabelledInv, Labels, LabelsOf
<1>2. CASE seated' = Answered /\ labels' \in Assigned
  <2>1. PICK L \in Assigned : L = labels'
    BY <1>2
  <2>2. /\ DOMAIN L.of = Answered
        /\ \A i \in Answered : L.of[i] \in DOMAIN L.toModel
        /\ IsFiniteSet(DOMAIN L.toModel)
    BY AssignedLabels DEF CouncilInv, RegistryInv, FittedTypes
  <2>3. QED
    BY <1>2, <2>1, <2>2 DEF LabelledInv, Labels, LabelsOf
<1>3. CASE UNCHANGED vars
  BY <1>3, <1>1 DEF vars, councilVars
<1>4. QED
  BY <1>1, <1>2, <1>3, LabelSteps

\* The labels at the start are those of nobody.
LEMMA InitialLabels == Init => LabelledInv
<1> SUFFICES ASSUME Init PROVE LabelledInv
  OBVIOUS
<1>1. seated = {} /\ labels = NoLabels
  BY DEF Init, CouncilInit
<1>2. DOMAIN labels.of = {} /\ DOMAIN labels.toModel = {}
  BY <1>1 DEF NoLabels
<1>3. QED
  BY <1>1, <1>2, FS_EmptySet DEF LabelledInv, Labels, LabelsOf

\* The labels of a run are those of the members seated, for any members and any
\* shuffle (assignLabels).
THEOREM LabelledInvariant == Spec => [](CouncilInv /\ LabelledInv)
BY InitialCouncil, CouncilInvariant, InitialLabels, LabelledStep, PTL DEF Spec

---------------------------------------------------------------------------
(* The types of what all strategies share.                                 *)

Written == {Waiting, "ok", "failed"} \cup StageTwoResults

\* The council type is one of the registry, and goroutines write what they may.
TypedInv ==
  /\ phase = "startup" => ct = NoCouncilType
  /\ ct \in Range(registry) \cup {NoCouncilType}
  /\ \A i \in DOMAIN slots : slots[i] \in Written
  /\ outcome \in Errors \cup {"running", "ok", "questions"}

\* A fan-out begins, of one of these sets, or one of its goroutines writes.
FanOuts == {Members, DOMAIN Generators, DOMAIN ct.aggregators, seated', 1 .. Cardinality(seated'),
            alive'}

\* There are no other steps for the slots.
LEMMA SlotsSteps ==
  ASSUME Next
  PROVE  \/ UNCHANGED slots
         \/ \E D \in FanOuts : slots' = [i \in D |-> Waiting]
         \/ \E i \in DOMAIN slots : \E result \in Written :
              slots' = [slots EXCEPT ![i] = result]
<1> USE DEF Written, StageTwoResults, FanOuts
<1>1. CASE Startup \/ Request
  BY <1>1 DEF Startup, Request
<1>2. CASE Clarify \/ Arbiter
  BY <1>2 DEF Clarify, Arbiter
<1>3. ASSUME NEW i \in DOMAIN slots, Propose(i) \/ Stage1Answer(i)
      PROVE  \E result \in Written : slots' = [slots EXCEPT ![i] = result]
  BY <1>3 DEF Propose, Stage1Answer, Write
<1>4. CASE RunFull \/ Stage3 \/ PeerReviewStage2Done
  BY <1>4 DEF RunFull, Stage3, PeerReviewStage2Done
<1>5. CASE PeerReviewStage1Done
  <2>1. CASE phase' = "stage2"
    <3>1. slots' = [k \in DOMAIN Seats(seated') |-> Waiting]
      BY <1>5, <2>1 DEF PeerReviewStage1Done
    <3>2. DOMAIN Seats(seated') = 1 .. Cardinality(seated')
      BY DEF Seats
    <3>3. QED
      BY <3>1, <3>2
  <2>2. QED
    BY <1>5, <2>1 DEF PeerReviewStage1Done
<1>6. ASSUME NEW i \in DOMAIN slots, Review(i)
      PROVE  \E result \in Written : slots' = [slots EXCEPT ![i] = result]
  BY <1>6 DEF Review, Write
<1>7. CASE RoleBasedStep
  BY <1>7 DEF RoleBasedStep
<1>8. CASE MajorityStep
  BY <1>8 DEF MajorityStep, MajorityStage1Done, MajorityStage3, Stage3
<1>9. CASE RankRefineStep
  BY <1>9 DEF RankRefineStep, RankRefineStage1Done, Rank
<1>10. CASE DebateStage1Done \/ DebateRoundDone
  BY <1>10 DEF DebateStage1Done, FirstRound, DebateRoundDone, RoundEnds
<1>11. ASSUME NEW i \in DOMAIN slots, Revise(i)
       PROVE  \E result \in Written : slots' = [slots EXCEPT ![i] = result]
  BY <1>11 DEF Revise, Write, Reasons
<1>12. CASE MixtureStage1Done \/ MixtureStage2Done
  BY <1>12 DEF MixtureStage1Done, MixtureStage2Done
<1>13. ASSUME NEW i \in DOMAIN slots, Aggregate(i)
       PROVE  \E result \in Written : slots' = [slots EXCEPT ![i] = result]
  BY <1>13 DEF Aggregate, Write
<1>14. CASE DelphiStage1Done
  BY <1>14 DEF DelphiStage1Done, FirstRound
<1>15. CASE DelphiRoundDone
  BY <1>15 DEF DelphiRoundDone, RoundEnds
<1>16. ASSUME NEW i \in DOMAIN slots, Rate(i)
       PROVE  \E result \in Written : slots' = [slots EXCEPT ![i] = result]
  BY <1>16 DEF Rate, Write
<1> HIDE DEF Written, FanOuts
<1>17. QED
  BY <1>1, <1>2, <1>3, <1>4, <1>5, <1>6, <1>7, <1>8, <1>9, <1>10, <1>11, <1>12, <1>13, <1>14,
     <1>15, <1>16
     DEF Next, RunStep, StrategyStep, CommonStep, Stage0Step, PeerReviewStep, DebateStep,
         MixtureStep, DelphiStep

\* What was written keeps its type, and so does the outcome.
LEMMA TypedStep == CouncilInv /\ TypedInv /\ [Next]_vars => TypedInv'
<1> SUFFICES ASSUME CouncilInv, TypedInv, [Next]_vars PROVE TypedInv'
  OBVIOUS
<1>1. CASE UNCHANGED vars
  BY <1>1 DEF vars, councilVars, configVars, TypedInv
<1>2. CASE Next
  <2>1. \A i \in DOMAIN slots' : slots'[i] \in Written
    BY <1>2, SlotsSteps DEF TypedInv, Written
  <2>2. /\ phase' = "startup" => ct' = NoCouncilType
        /\ ct' \in Range(registry') \cup {NoCouncilType}
        /\ outcome' \in Errors \cup {"running", "ok", "questions"}
    <3>1. CASE Startup
      BY <3>1 DEF TypedInv, Startup, Return, Errors
    <3>2. CASE Request
      BY <3>2 DEF TypedInv, Request, configVars
    <3>3. CASE LabelsGivenOut
      BY <3>3 DEF TypedInv, LabelsGivenOut, configVars, Return, Errors
    <3>4. CASE OtherStep
      BY <3>4 DEF TypedInv, OtherStep, Frame, configVars, Return
    <3>5. QED
      BY <1>2, <3>1, <3>2, <3>3, <3>4, CouncilSteps
  <2>3. QED
    BY <2>1, <2>2 DEF TypedInv
<1>3. QED
  BY <1>1, <1>2

\* Everything the strategies share is of its type at every moment.
THEOREM CouncilIsTyped == Spec => []CouncilTypeOK
<1>1. Init => TypedInv
  BY DEF Init, CouncilInit, TypedInv
<1>2. CouncilInv /\ LabelledInv /\ TypedInv => CouncilTypeOK
  BY DEF CouncilInv, RegistryInv, LabelsInv, LabelledInv, TypedInv, CouncilTypeOK, Phases, Written
<1>3. QED
  BY LabelledInvariant, <1>1, <1>2, TypedStep, PTL DEF Spec

===========================================================================
