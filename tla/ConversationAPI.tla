-------------------------- MODULE ConversationAPI --------------------------
(***************************************************************************)
(* The two message endpoints of internal/api/handler.go on one             *)
(* conversation: sendMessage (blocking) and sendMessageStream (SSE), with  *)
(* rename and delete beside them, disk errors and restarts of the server.  *)
(* Each request is a process of its own; a step of it is one call of the   *)
(* store, or one run of Stage 0 or of the council.  Between two steps any  *)
(* other request may run: the store's lock covers single calls only.       *)
(***************************************************************************)
EXTENDS ConversationStore, Clarification

CONSTANTS
  InFlight,   \* bound: the numbers of requests that may be handled at the same
              \* time, one of which is drawn for a behaviour
  DiskFaults  \* whether a store call may fail with an I/O error

ASSUME APIAssumption == InFlight \subseteq Nat \ {0} /\ DiskFaults \in BOOLEAN

VARIABLES
  inFlight, \* the number drawn: 1 for requests that do not overlap
  conv,    \* the conversation file
  pc,      \* the next step of each request
  kind,    \* what its body holds: "content", or "answers" with some text, or
           \* "blank" answers only
  via,     \* the endpoint it was sent to: "blocking" or "stream"
  target,  \* lastRound.Round, read before the answers are saved
  history, \* the rounds handed to Stage 0 and to the council, each at its place
           \* in the log
  draft,   \* the questions Stage 0 came back with: [round, asked]
  reply,   \* how the request ended, as the client sees it
  unclosed \* history: the requests whose CloseConversation failed

vars == <<inFlight, conv, pc, kind, via, target, history, draft, reply, unclosed>>

NoDraft == [round |-> 0, asked |-> 0]

Ended == {"idle", "done"}
Running(r) == pc[r] \notin Ended
Errors == {"notFound", "closed", "noPending", "alreadyAnswered", "failed"}

Init ==
  /\ inFlight \in InFlight
  /\ conv = CreateConversation
  /\ pc = [r \in Requests |-> "idle"]
  /\ kind = [r \in Requests |-> "content"]
  /\ via = [r \in Requests |-> "blocking"]
  /\ target = [r \in Requests |-> 0]
  /\ history = [r \in Requests |-> <<>>]
  /\ draft = [r \in Requests |-> NoDraft]
  /\ reply = [r \in Requests |-> "none"]
  /\ unclosed = {}

---------------------------------------------------------------------------
(* Helpers.                                                                *)

\* What a call of the store may do: what the method computes, or an I/O error.
Attempt(result) ==
  {result} \cup (IF DiskFaults THEN {Refused(conv, "io")} ELSE {})

Goto(r, next) == pc' = [pc EXCEPT ![r] = next] /\ UNCHANGED reply

\* The handler returns; its local variables are gone.
Reply(r, what) ==
  /\ pc' = [pc EXCEPT ![r] = "done"]
  /\ reply' = [reply EXCEPT ![r] = what]
  /\ target' = [target EXCEPT ![r] = 0]
  /\ history' = [history EXCEPT ![r] = <<>>]
  /\ draft' = [draft EXCEPT ![r] = NoDraft]

Locals == <<target, history, draft>>

Arrives(r, k, v) ==
  /\ pc[r] = "idle"
  /\ Cardinality({q \in Requests : Running(q)}) < inFlight
  /\ kind' = [kind EXCEPT ![r] = k]
  /\ via' = [via EXCEPT ![r] = v]

Input == <<kind, via>>

---------------------------------------------------------------------------
(* Round 1: a message with content.                                        *)

\* The user message is saved before anything else is looked at.  Stage 0 is
\* skipped when it is disabled.
PostContent(r, v) ==
  /\ Arrives(r, "content", v)
  /\ \E res \in Attempt(SaveUserMessage(conv, r)) :
       /\ conv' = res.file
       /\ IF res.err = "none"
          THEN /\ Goto(r, IF MaxRounds = 0 THEN "runFull" ELSE "clarify")
               /\ UNCHANGED Locals
          ELSE Reply(r, IF res.err \in {"closed", "notFound"} THEN res.err ELSE "failed")

---------------------------------------------------------------------------
(* Round N: the answers to the last clarification round.                   *)

\* GetLastClarificationRound, and the two conflicts that can be seen from it.
\* On this path a conversation that does not exist is a 500.
PostAnswers_PendingUnchecked(r, v, k) ==
  /\ Arrives(r, k, v)
  /\ UNCHANGED conv
  /\ \/ /\ conv.exists
        /\ \E round \in GetLastClarificationRound(conv) :
             target' = [target EXCEPT ![r] = round.round]
        /\ Goto(r, "saveAnswers")
        /\ UNCHANGED <<history, draft>>
     \/ /\ conv.exists
        /\ GetLastClarificationRound(conv) = {}
        /\ Reply(r, "noPending")
     \/ /\ ~conv.exists \/ DiskFaults
        /\ Reply(r, "failed")

PostAnswers(r, v, k) ==
  /\ Arrives(r, k, v)
  /\ UNCHANGED conv
  /\ \/ /\ conv.exists
        /\ \E round \in GetLastClarificationRound(conv) :
             IF round.answers = NoAnswers
             THEN /\ target' = [target EXCEPT ![r] = round.round]
                  /\ Goto(r, "saveAnswers")
                  /\ UNCHANGED <<history, draft>>
             ELSE Reply(r, "alreadyAnswered")
     \/ /\ conv.exists
        /\ GetLastClarificationRound(conv) = {}
        /\ Reply(r, "noPending")
     \/ /\ ~conv.exists \/ DiskFaults
        /\ Reply(r, "failed")

SaveAnswers(r) ==
  /\ pc[r] = "saveAnswers"
  /\ \E res \in Attempt(UpdateClarificationAnswers(conv, r, target[r])) :
       /\ conv' = res.file
       /\ IF res.err = "none"
          THEN Goto(r, "readHistory") /\ UNCHANGED Locals
          ELSE Reply(r, IF res.err = "closed" THEN "closed" ELSE "failed")
  /\ UNCHANGED Input

\* getOriginalQueryAndHistory: every clarification round of the conversation,
\* those numbered like the answered one with the answers just submitted.
HistoryFor(r, c) ==
  [i \in Clarifications(c) |->
     LET m == c.messages[i]
     IN  [round   |-> m.round,
          asked   |-> m.asked,
          answers |-> IF m.round = target[r] THEN r ELSE m.answers]]

ReadHistory(r) ==
  /\ pc[r] = "readHistory"
  /\ \/ /\ conv.exists
        /\ history' = [history EXCEPT ![r] = HistoryFor(r, conv)]
        /\ Goto(r, "clarify")
        /\ UNCHANGED <<target, draft>>
     \/ /\ ~conv.exists \/ DiskFaults
        /\ Reply(r, "failed")
  /\ UNCHANGED <<conv, Input>>

---------------------------------------------------------------------------
(* Stage 0, the council, and what they leave in the conversation.          *)

\* Rounds as Stage 0 sees them: blank when no answer has text.
Seen(r) ==
  [i \in DOMAIN history[r] |->
     LET h == history[r][i]
     IN  [round |-> h.round,
          asked |-> h.asked,
          blank |-> h.answers = NoAnswers \/ (h.answers # NoAnswers /\ kind[h.answers] = "blank")]]

\* The stream announces the questions (stage0_round_complete) in this step,
\* before they are saved; the blocking endpoint once they are.
Clarify(r) ==
  /\ pc[r] = "clarify"
  /\ \/ /\ 0 \in RunClarificationRound(Seen(r))
        /\ Goto(r, "runFull")
        /\ UNCHANGED Locals
     \/ \E n \in RunClarificationRound(Seen(r)) \ {0} :
          /\ draft' = [draft EXCEPT ![r] = [round |-> NextRound(Seen(r)), asked |-> n]]
          /\ Goto(r, "saveRound")
          /\ UNCHANGED <<target, history>>
     \/ /\ ClarificationMayFail(Seen(r))
        /\ Reply(r, "failed")
  /\ UNCHANGED <<conv, Input>>

SaveRound(r) ==
  /\ pc[r] = "saveRound"
  /\ \E res \in Attempt(SaveClarificationRound(conv, r, draft[r].round, draft[r].asked)) :
       /\ conv' = res.file
       /\ Reply(r, IF res.err = "none" THEN "questions" ELSE "failed")
  /\ UNCHANGED Input

\* RunFullWithClarifications: the council answers or fails (no quorum, a
\* failed chairman, an unknown council type, a client that went away).
RunFull(r) ==
  /\ pc[r] = "runFull"
  /\ \/ Goto(r, "saveAssistant") /\ UNCHANGED Locals
     \/ Reply(r, "failed")
  /\ UNCHANGED <<conv, Input>>

SaveAssistant_ErrorIgnored(r) ==
  /\ pc[r] = "saveAssistant"
  /\ \E res \in Attempt(SaveAssistantMessage(conv, r)) : conv' = res.file
  /\ Goto(r, IF via[r] = "stream" THEN "close" ELSE "saveTitle") /\ UNCHANGED Locals
  /\ UNCHANGED Input

SaveAssistant_NeverCloses(r) ==
  /\ pc[r] = "saveAssistant"
  /\ \E res \in Attempt(SaveAssistantMessage(conv, r)) :
       /\ conv' = res.file
       /\ IF res.err = "none"
          THEN Goto(r, "saveTitle") /\ UNCHANGED Locals
          ELSE Reply(r, "failed")
  /\ UNCHANGED Input

SaveAssistant(r) ==
  /\ pc[r] = "saveAssistant"
  /\ \E res \in Attempt(SaveAssistantMessage(conv, r)) :
       /\ conv' = res.file
       /\ IF res.err = "none"
          THEN /\ Goto(r, IF via[r] = "stream" THEN "close" ELSE "saveTitle")
               /\ UNCHANGED Locals
          ELSE Reply(r, "failed")
  /\ UNCHANGED Input

\* Only the stream closes the conversation; a failure is logged and ignored.
Close(r) ==
  /\ pc[r] = "close"
  /\ \E res \in Attempt(CloseConversation(conv)) :
       /\ conv' = res.file
       /\ unclosed' = IF res.err = "none" THEN unclosed ELSE unclosed \cup {r}
  /\ Goto(r, "saveTitle")
  /\ UNCHANGED <<Locals, Input>>

\* The title of the answer replaces any other; a failure is ignored, and the
\* stream gives up on the title after 30 seconds.
SetTitle(r) ==
  /\ pc[r] = "saveTitle"
  /\ \/ \E res \in Attempt(SaveTitle(conv, "generated")) : conv' = res.file
     \/ via[r] = "stream" /\ UNCHANGED conv
  /\ Reply(r, "answer")
  /\ UNCHANGED Input

---------------------------------------------------------------------------
(* The rest of the API, and the server itself.                             *)

RenameConversation ==
  /\ \E res \in Attempt(SaveTitle(conv, "renamed")) : conv' = res.file
  /\ UNCHANGED <<pc, reply, Locals, Input>>

RemoveConversation ==
  /\ \E res \in Attempt(DeleteConversation(conv)) : conv' = res.file
  /\ UNCHANGED <<pc, reply, Locals, Input>>

\* The process dies or the handler panics: its requests end without a reply.
Lost(r) ==
  /\ Running(r)
  /\ Reply(r, "none")
  /\ UNCHANGED <<conv, Input>>

Post(r) ==
  \E v \in {"blocking", "stream"} :
    \/ PostContent(r, v)
    \/ \E k \in {"answers", "blank"} : PostAnswers(r, v, k)

Proceed(r) ==
  \/ SaveAnswers(r) \/ ReadHistory(r) \/ Clarify(r) \/ SaveRound(r)
  \/ RunFull(r) \/ SaveAssistant(r) \/ SetTitle(r)

Next ==
  /\ \/ \E r \in Requests : Close(r)
     \/ /\ \/ \E r \in Requests : Post(r) \/ Proceed(r) \/ Lost(r)
           \/ RenameConversation
           \/ RemoveConversation
        /\ UNCHANGED unclosed
  /\ UNCHANGED inFlight

Spec == Init /\ [][Next]_vars

---------------------------------------------------------------------------
(* Properties.                                                             *)

TypeOK ==
  /\ inFlight \in InFlight
  /\ conv \in Conversations
  /\ pc \in [Requests -> Ended \cup {"saveAnswers", "readHistory", "clarify", "saveRound",
                                     "runFull", "saveAssistant", "close", "saveTitle"}]
  /\ kind \in [Requests -> {"content", "answers", "blank"}]
  /\ via \in [Requests -> {"blocking", "stream"}]
  /\ target \in [Requests -> Nat]
  /\ DOMAIN history = Requests
  /\ \A r \in Requests :
       /\ DOMAIN history[r] \subseteq Nat /\ IsFiniteSet(DOMAIN history[r])
       /\ history[r] \in [DOMAIN history[r] ->
                          [round : Nat, asked : Nat, answers : Requests \cup {NoAnswers}]]
  /\ draft \in [Requests -> [round : Nat, asked : Nat]]
  /\ \A r \in Requests : pc[r] = "saveRound" => /\ draft[r].round \in 1 .. MaxRounds
                                                /\ draft[r].asked \in 1 .. MaxQuestionsPerRound
  /\ reply \in [Requests -> {"none", "questions", "answer"} \cup Errors]

Entries(role, r) ==
  {i \in DOMAIN conv.messages : conv.messages[i].role = role /\ conv.messages[i].by = r}

AnswersOf(c) == [i \in DOMAIN c.messages |-> c.messages[i].answers]

\* A closed conversation takes no more input: whatever requests were under
\* way when it closed, no user message and no answers reach it any more
\* (SaveUserMessage, UpdateClarificationAnswers; a test races the first one
\* with the close).
NoInputAfterClose ==
  [][conv.closed /\ conv'.exists
     => /\ \A i \in DOMAIN conv'.messages :
             conv'.messages[i].role = "user" => i \in DOMAIN conv.messages
        /\ \A i \in DOMAIN conv.messages : AnswersOf(conv')[i] = AnswersOf(conv)[i]]_vars

\* The log of a conversation that exists only grows: no handler, racing with
\* any other, drops or reorders what another one saved.
LogOnlyGrows ==
  [][conv'.exists
     => /\ Len(conv.messages) <= Len(conv'.messages)
        /\ \A i \in DOMAIN conv.messages :
             /\ conv'.messages[i].role = conv.messages[i].role
             /\ conv'.messages[i].by = conv.messages[i].by]_vars

\* A client told of an answer, or of questions, finds them in the
\* conversation unless it was deleted: success is only ever reported for what
\* is on disk, disk errors and restarts included.
ReportedIsStored ==
  conv.exists =>
    \A r \in Requests :
      /\ reply[r] = "answer" => Entries("assistant", r) # {}
      /\ reply[r] = "questions" => Entries("clarification", r) # {}

\* An answer never stands alone: the input it answers, or the round whose
\* answers it was generated from, is in the log before it.
AnswersFollowInput ==
  \A r \in Requests : \A i \in Entries("assistant", r) :
    IF kind[r] = "content"
    THEN \E j \in Entries("user", r) : j < i
    ELSE \E j \in 1 .. i - 1 : conv.messages[j].role = "clarification"
                               /\ conv.messages[j].answers # NoAnswers

\* A completed stream has closed the conversation, unless its own attempt to
\* close it failed, whatever other requests stored in the meantime.
CompletedStreamIsClosed ==
  \A r \in Requests :
    reply[r] = "answer" /\ via[r] = "stream" /\ conv.exists
    => conv.closed \/ r \in unclosed

\* "Round-N with already-answered round: 409" (docs/api.md:84): the answers
\* of a round, once saved, are not replaced.
AnswersKept ==
  conv'.exists =>
    \A i \in DOMAIN conv.messages :
      AnswersOf(conv)[i] # NoAnswers => AnswersOf(conv')[i] = AnswersOf(conv)[i]

AnswersWrittenOnce == [][AnswersKept]_vars

\* They are kept at least where requests do not overlap.
AnswersWrittenOnceInTurn == [][inFlight = 1 => AnswersKept]_vars

\* The rounds asked since the last user message.
RoundsSinceUser ==
  {i \in Clarifications(conv) :
     \A j \in DOMAIN conv.messages : conv.messages[j].role = "user" => j < i}

QuestionsSinceUser == QuestionsOf([i \in RoundsSinceUser |-> conv.messages[i]])

\* The budgets of Stage 0, of rounds and of questions in all, for the last
\* user message.  They hold because a round is numbered and admitted from what
\* is stored, and requests that do not overlap see everything earlier ones
\* stored.
RoundsWithinBudget ==
  inFlight = 1 /\ RoundsSinceUser # {} =>
    /\ Cardinality(RoundsSinceUser) <= MaxRounds
    /\ Cardinality(QuestionsSinceUser) <= MaxTotalQuestions

\* "all clarification rounds (with the latest round's answers updated)"
\* (handler.go:841): apart from the round that was answered, the history
\* holds the answers that are on disk.
HistoryIsStored ==
  [][\A r \in Requests :
       pc[r] = "readHistory" /\ pc'[r] = "clarify"
       => \A i \in Clarifications(conv) :
            (\E j \in Clarifications(conv) : j > i)
            => history'[r][i].answers = conv.messages[i].answers]_vars

===========================================================================
