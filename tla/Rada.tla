-------------------------------- MODULE Rada -------------------------------
(***************************************************************************)
(* A run of the council, internal/council/runner.go, from the start of the *)
(* server on: the registry, Stage 0, and RunFull, which runs the council   *)
(* type that was asked for by the strategy it names.  Stage 1 and the      *)
(* chairman are the same for all strategies; a strategy adds its quorum    *)
(* and what lies in between.                                               *)
(***************************************************************************)
EXTENDS Stage0, PeerReview, RoleBased, Majority, RankRefine, Debate, MixtureOfAgents, Delphi

strategyVars == <<reviewVars, majorityVars, ranked, roundVars, dropouts, drafts, delphiVars>>
vars == <<councilVars, stage0Vars, strategyVars>>

Init ==
  /\ CouncilInit
  /\ Stage0Init
  /\ PeerReviewInit
  /\ MajorityInit
  /\ RankRefineInit
  /\ RoundsInit
  /\ DebateInit
  /\ MixtureInit
  /\ DelphiInit

\* PeerReview checks nothing of its council type.
Configured ==
  /\ PlaysRoles   => RoleBasedConfigured
  /\ ByMajority   => MajorityConfigured
  /\ Refines      => RankRefineConfigured
  /\ Debating     => DebateConfigured
  /\ Mixes        => MixtureConfigured
  /\ RatedByPanel => DelphiConfigured

\* The council type is looked up, and its strategy begins.  The clarifications
\* are part of the query from here on and no longer kept apart.
RunFull ==
  /\ phase = "run"
  /\ \/ /\ ct = NoCouncilType \/ ~Configured
        /\ Return(IF ct = NoCouncilType THEN "unknownType" ELSE "misconfigured")
        /\ UNCHANGED slots
     \/ /\ ct # NoCouncilType /\ Configured
        /\ phase' = "stage1"
        /\ slots' = [i \in Members |-> Waiting]
        /\ UNCHANGED outcome
  /\ history' = <<>> /\ shown' = <<>> /\ told' = <<>>
  /\ UNCHANGED <<configVars, ct, seated, labels, events, asked>>

\* The steps that are the same for every strategy.
CommonStep ==
  \/ \E i \in DOMAIN slots : Stage1Answer(i)
  \/ ~ByMajority /\ Stage3

StrategyStep ==
  \/ CommonStep /\ UNCHANGED strategyVars
  \/ /\ PeerReviewStep
     /\ UNCHANGED <<majorityVars, ranked, roundVars, dropouts, drafts, delphiVars>>
  \/ /\ RoleBasedStep
     /\ UNCHANGED strategyVars
  \/ /\ MajorityStep
     /\ UNCHANGED <<reviewVars, ranked, roundVars, dropouts, drafts, delphiVars>>
  \/ /\ RankRefineStep
     /\ UNCHANGED <<reviewVars, majorityVars, roundVars, dropouts, drafts, delphiVars>>
  \/ /\ DebateStep
     /\ UNCHANGED <<reviewVars, majorityVars, ranked, drafts, delphiVars>>
  \/ /\ MixtureStep
     /\ UNCHANGED <<reviewVars, majorityVars, ranked, roundVars, dropouts, delphiVars>>
  \/ /\ DelphiStep
     /\ UNCHANGED <<reviewVars, majorityVars, ranked, dropouts, drafts>>

RunStep ==
  \/ Stage0Step /\ UNCHANGED strategyVars
  \/ RunFull /\ UNCHANGED strategyVars
  \/ StrategyStep /\ UNCHANGED stage0Vars

Next ==
  \/ Startup /\ UNCHANGED <<stage0Vars, strategyVars>>
  \/ Request /\ UNCHANGED strategyVars
  \/ RunStep

Spec == Init /\ [][Next]_vars

\* The goroutines run, and every model call of theirs ends.
LiveSpec == Spec /\ WF_vars(RunStep)

---------------------------------------------------------------------------
(* Properties.                                                             *)

TypeOK ==
  /\ CouncilTypeOK
  /\ Stage0TypeOK
  /\ PeerReviewTypeOK
  /\ MajorityTypeOK
  /\ RankRefineTypeOK
  /\ RoundsTypeOK
  /\ DebateTypeOK
  /\ DelphiTypeOK

\* The client sees the stages of a run in order, round by round, and nothing
\* after the run has failed; it sees all of them exactly when the run is a
\* success.  The events of a run are always the beginning of one of these
\* lists: with Stage 0 before the council, or without.
Stories ==
  {before
   \o <<Event("stage1_complete", 0)>>
   \o [r \in 1 .. Len(transcript) |-> Event("stage2_round_complete", r)]
   \o <<Event("stage2_complete", 0), Event("stage3_complete", 0)>>
     : before \in {<<>>, <<Event("stage0_done", 0)>>}}

Questions == <<Event("stage0_round_complete", Len(history) + 1)>>

EventsInOrder ==
  /\ events = Questions \/ \E story \in Stories : IsPrefix(events, story)
  /\ outcome = "ok" <=> events \in Stories
  /\ outcome = "questions" <=> events = Questions

\* "if survivors drop below the threshold, runMultiAgentDebate returns a loud
\* error" (debate.go:37), and Delphi likewise: what the chairman hears, the
\* last round, comes from as many as the quorum asks for, and from somebody.
\* Not so with a negative quorum, which the recheck after a round takes as it
\* is: the chairman may be given a debate nobody survived.
ChairmanHearsAQuorum ==
  phase = "stage3" /\ ct.quorumMin >= 0 /\ ct.strategy \in {"debate", "delphi"} =>
    /\ Cardinality(Last(transcript)) >= (IF Debating THEN DebateNeed ELSE DelphiNeed)
    /\ Last(transcript) # {}

\* De-anonymisation is right: the label an answer went under maps back to the
\* model that gave the answer.
LabelsMapBack ==
  \A i \in seated : labels.toModel[labels.of[i]] = Pool(ct)[i]

\* A file "wins wholesale when present ... with no merge against env vars. A
\* malformed YAML file ... is a hard error" (registry.go:18): the registry has
\* either everything the file has or nothing; and whatever got into a registry
\* has what its strategy needs, "rather than fail at request time"
\* (registry_env.go:52).
RegistryIsWhole ==
  /\ outcome # "misconfigured"
  /\ phase # "startup" /\ config.file \in {"parsed", "malformed"} =>
       \/ outcome = "notStarted"
       \/ config.file = "parsed" /\ DOMAIN registry = DOMAIN config.councils

\* A request ends whatever the models do: every failure path of a fan-out
\* reaches its WaitGroup, and every stage leads to another or to a return.
RunEnds == phase \notin {"startup", "ready"} ~> phase = "done"

===========================================================================
