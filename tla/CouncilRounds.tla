--------------------------- MODULE CouncilRounds ---------------------------
(***************************************************************************)
(* What the two strategies with rounds share, MultiAgentDebate (debate.go) *)
(* and Delphi (delphi.go): the participants still in and the round they    *)
(* are in.  A round is a fan-out over them; it is recorded and shown to    *)
(* the client before the participants left are counted.  The code has a    *)
(* list of labels, with one for each participant; here they are the        *)
(* positions, and labels.of has their labels, which two may share.         *)
(***************************************************************************)
EXTENDS Council, SequencesExt

VARIABLES
  alive,      \* the participants still in
  round,      \* the round under way
  previous,   \* the round of what is kept of each label: previousByLabel,
              \* previousRatings
  transcript  \* the participants that came through, for each round that is over

roundVars == <<alive, round, previous, transcript>>

RoundsInit ==
  /\ alive = {}
  /\ round = 0
  /\ previous = <<>>
  /\ transcript = <<>>

\* The quorum of the strategy, resolved here because checkQuorum takes a
\* negative minimum for its own formula.
Need(floor) ==
  IF ct.quorumMin = 0 THEN DefaultQuorum(floor, Len(Pool(ct))) ELSE ct.quorumMin

\* Round 1 begins, or the run has failed.
FirstRound(kept) ==
  IF phase' = "stage2"
  THEN /\ alive' = seated'
       /\ round' = 1
       /\ previous' = kept
       /\ slots' = [i \in seated' |-> Waiting]
  ELSE UNCHANGED <<alive, round, previous, slots>>

\* The participants whose goroutine wrote this.
With(result) == {i \in alive : slots[i] = result}

Survives_Unchecked(n, need) == TRUE

Survives(n, need) == n >= need

\* The three ways a round ends: too few are left, which is not a QuorumError;
\* another round; or the second stage is over.
RoundEnds(stay, need, last) ==
  LET shown == Append(events, Event("stage2_round_complete", round))
  IN  /\ phase = "stage2"
      /\ Joined
      /\ alive' = stay
      /\ UNCHANGED <<configVars, ct, seated, labels>>
      /\ \/ /\ ~Survives(Cardinality(stay), need)
            /\ events' = shown
            /\ Return("roundQuorum")
            /\ UNCHANGED <<round, slots>>
         \/ /\ Survives(Cardinality(stay), need) /\ ~last
            /\ events' = shown
            /\ round' = round + 1
            /\ slots' = [i \in stay |-> Waiting]
            /\ UNCHANGED <<phase, outcome>>
         \/ /\ Survives(Cardinality(stay), need) /\ last
            /\ events' = Append(shown, Event("stage2_complete", 0))
            /\ phase' = "stage3"
            /\ UNCHANGED <<round, slots, outcome>>

---------------------------------------------------------------------------
(* Properties.                                                             *)

RoundsTypeOK ==
  /\ alive \subseteq seated
  /\ DOMAIN previous \subseteq Labels
  /\ round \in Nat
  /\ Len(transcript) \in {round - 1, round, 0}

\* No participant is shown something older than the round before: when a round
\* begins, what is kept of everybody in it, a revision or ratings, is from
\* there (previousByLabel, previousRatings).  And one that is out stays out:
\* those of each round are among those of the round before.
PromptsAreCurrent ==
  /\ phase = "stage2" /\ (round > 1 \/ previous # <<>>) =>
       \A i \in alive : previous[labels.of[i]] = round - 1
  /\ \A r \in 2 .. Len(transcript) : transcript[r] \subseteq transcript[r - 1]

===========================================================================
