------------------------------ MODULE Council ------------------------------
(***************************************************************************)
(* What the council strategies of internal/council share: the registry of  *)
(* council types, Stage 1 (one goroutine per configured model, joined by a *)
(* WaitGroup), the quorum of council.go, the anonymous labels, and the     *)
(* events a run emits.  The strategy modules extend this one with their    *)
(* own stages, Stage0 with the clarification that comes before them.       *)
(*                                                                         *)
(* Models are asked by position; a label is a natural number, 1 standing   *)
(* for "Response A".  Answers themselves are not represented: only who     *)
(* gave one, and in which round.                                           *)
(***************************************************************************)
EXTENDS CouncilConfig, FiniteSetsExt

CONSTANTS
  Configs,  \* bound: the configurations, of the server and of cmd/eval
  Shuffles  \* bound: the permutations of the members rand.Perm may draw, as
            \* the place each member takes

\* Neither the file nor the environment rejects a repeated model or a negative
\* number.
ASSUME CouncilAssumption ==
  /\ \A c \in Configs :
       /\ c.program \in {"server", "eval"}
       /\ c.file \in {"off", "missing", "malformed", "parsed"}
       /\ \A n \in DOMAIN c.councils : IsEntry(c.councils[n])
       /\ IsEnvironment(c.env)
  /\ Shuffles # {}

VARIABLES
  config,    \* the configuration the program was started with
  registry,  \* Rada.registry: a CouncilType for each name
  ct,        \* the council type of the run, NoCouncilType if there is none
  phase,     \* "startup", "ready", "clarify", "stage0", "run", "stage1", the
             \* strategy's own stages, "stage3" or "done"
  slots,     \* what each goroutine of the current fan-out wrote
  seated,    \* the positions that answered Stage 1
  labels,    \* [of, toModel]: a label for each of them, a model for each label
  events,    \* the events emitted so far
  outcome    \* "running", "ok", "questions", or the error that was returned

configVars == <<config, registry>>
councilVars == <<configVars, ct, phase, slots, seated, labels, events, outcome>>

Members == DOMAIN Pool(ct)
NoModelTwice == IsInjective(Pool(ct))
Waiting == "waiting"

\* What the goroutines of the second stages write.
StageTwoResults == {"failed", "ranked", "rated", "revised", "error", "json_parse",
                    "empty_revision", "draft", "empty"}

\* The errors a run, Stage 0 or the start of the server ends with.
Errors == {"notStarted", "unknownType", "noGenerators", "noArbiter", "panic",
           "misconfigured", "quorum", "chairman", "arbiter", "tie", "noAggregator", "roundQuorum"}

NoLabels == [of |-> <<>>, toModel |-> <<>>]
Event(kind, round) == [kind |-> kind, round |-> round]

CouncilInit ==
  /\ config \in Configs
  /\ registry = <<>>
  /\ ct = NoCouncilType
  /\ phase = "startup"
  /\ slots = <<>>
  /\ seated = {}
  /\ labels = NoLabels
  /\ events = <<>>
  /\ outcome = "running"

\* The run returns.
Return(what) == phase' = "done" /\ outcome' = what

\* cmd/server and cmd/eval: the registry is built before anything is asked, and
\* a program without one ends.
Startup ==
  /\ phase = "startup"
  /\ \/ \E types \in BuildRegistry(config) :
          /\ registry' = types
          /\ phase' = "ready"
          /\ UNCHANGED outcome
     \/ /\ BuildRegistry(config) = {}
        /\ Return("notStarted")
        /\ UNCHANGED registry
  /\ UNCHANGED <<config, ct, slots, seated, labels, events>>

---------------------------------------------------------------------------
(* council.go                                                              *)

\* max(floor, ceil(n/2) + 1): the default quorum of n members.
DefaultQuorum(floor, n) == Max({floor, (n + 1) \div 2 + 1})

checkQuorum(got, n, minQuorum) ==
  got >= (IF minQuorum <= 0 THEN DefaultQuorum(2, n) ELSE minQuorum)

\* The orders the shuffles bring the members of S in.
Orders(S) ==
  {order \in Bijection(1 .. Cardinality(S), S) :
     \E place \in Shuffles :
       \A k, l \in DOMAIN order : k < l => place[order[k]] < place[order[l]]}

\* Going back from a model to its label, the last label of a repeated model
\* wins.
Labelled(order, S) ==
  [toModel |-> [l \in DOMAIN order |-> Pool(ct)[order[l]]],
   of |-> [i \in S |-> Max({l \in DOMAIN order : Pool(ct)[order[l]] = Pool(ct)[i]})]]

assignLabels_AbsentToo(S) == {Labelled(order, S) : order \in Orders(Members)}

assignLabels_OrderLost(S) ==
  {[Labelled(order, S) EXCEPT !.of = [i \in S |-> Cardinality({j \in S : j <= i})]] :
     order \in Orders(S)}

\* The labels follow a shuffle of the members that answered.
assignLabels(S) == {Labelled(order, S) : order \in Orders(S)}

LabelsOf(S) == {labels.of[i] : i \in S}

\* The labels the answers carry; a repeated model makes them fewer.
Labels == LabelsOf(seated)

---------------------------------------------------------------------------
(* Stage 1, and the end of a run.                                          *)

Write(i, result) ==
  /\ slots[i] = Waiting
  /\ slots' = [slots EXCEPT ![i] = result]

Joined_FailuresNotDone == \A i \in DOMAIN slots : slots[i] \notin {Waiting, "failed"}

Joined == \A i \in DOMAIN slots : slots[i] # Waiting

\* A goroutine of runStage1: an answer, or an error, a cancelled request and
\* a response without choices included.
Stage1Answer(i) ==
  /\ phase = "stage1"
  /\ \E result \in {"ok", "failed"} : Write(i, result)
  /\ UNCHANGED <<configVars, ct, phase, seated, labels, events, outcome>>

Answered == {i \in Members : slots[i] = "ok"}

\* wg.Wait returns: quorum, labels, stage1_complete.  The strategy says what
\* its quorum is, how its members are labelled, what it emits right after
\* stage1_complete and what comes next.
Stage1Joined(minQuorum, assigned, more, next) ==
  /\ phase = "stage1"
  /\ Joined
  /\ UNCHANGED <<configVars, ct>>
  /\ IF checkQuorum(Cardinality(Answered), Len(Pool(ct)), minQuorum)
     THEN /\ seated' = Answered
          /\ labels' \in assigned
          /\ events' = events \o <<Event("stage1_complete", 0)>> \o more
          /\ phase' = next
          /\ UNCHANGED outcome
     ELSE /\ Return("quorum")
          /\ UNCHANGED <<seated, labels, events>>

Stage3_ShownAnyway ==
  /\ phase = "stage3"
  /\ events' = Append(events, Event("stage3_complete", 0))
  /\ \E what \in {"ok", "chairman"} : Return(what)
  /\ UNCHANGED <<configVars, ct, slots, seated, labels>>

\* The chairman answers or the run fails; a single call, nothing is joined.
Stage3 ==
  /\ phase = "stage3"
  /\ \/ /\ events' = Append(events, Event("stage3_complete", 0))
        /\ Return("ok")
     \/ /\ Return("chairman")
        /\ UNCHANGED events
  /\ UNCHANGED <<configVars, ct, slots, seated, labels>>

CouncilTypeOK ==
  /\ ct \in Range(registry) \cup {NoCouncilType}
  /\ phase \in {"startup", "ready", "clarify", "stage0", "run", "stage1", "stage2",
               "stage3", "done"}
  /\ \A i \in DOMAIN slots :
       slots[i] \in {Waiting, "ok", "failed"} \cup StageTwoResults
  /\ seated \subseteq Members
  /\ DOMAIN labels.of = seated
  /\ Labels \subseteq DOMAIN labels.toModel
  /\ outcome \in Errors \cup {"running", "ok", "questions"}
  /\ outcome # "running" <=> phase = "done"

===========================================================================
