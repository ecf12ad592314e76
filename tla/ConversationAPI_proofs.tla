----------------------- MODULE ConversationAPI_proofs ----------------------
(***************************************************************************)
(* Proofs about the message endpoints and the log they write, for any      *)
(* number of requests in any interleaving, with disk errors, restarts,     *)
(* rename and delete, and for any limits of Stage 0.                       *)
(***************************************************************************)
EXTENDS ConversationAPI, FiniteSetTheorems, SequenceTheorems, TLAPS

(***************************************************************************)
(* A conversation, up to the numbers in it: what the log keeps does not    *)
(* depend on the rounds and the questions Stage 0 comes up with.           *)
(***************************************************************************)
Entry(N) ==
  [role : {"user", "assistant", "clarification"}, by : Requests, round : N, asked : N,
   answers : Requests \cup {NoAnswers}]

Convs(N) ==
  [exists : BOOLEAN, closed : BOOLEAN, title : {"new", "renamed", "generated"},
   messages : Seq(Entry(N))]

IsConv(c) == \E N : c \in Convs(N)

\* What no method of the store does to a conversation that still exists.
Keeps(c, d) ==
  d.exists =>
    /\ c.exists
    /\ c.closed => d.closed
    /\ Len(c.messages) <= Len(d.messages)
    /\ \A i \in DOMAIN c.messages : /\ i \in DOMAIN d.messages
                                    /\ d.messages[i].role = c.messages[i].role
                                    /\ d.messages[i].by = c.messages[i].by
    /\ c.closed =>
         /\ \A i \in DOMAIN d.messages :
              d.messages[i].role = "user" => i \in DOMAIN c.messages
         /\ \A i \in DOMAIN c.messages : d.messages[i].answers = c.messages[i].answers

\* A conversation that is not written to.
LEMMA SameKeeps ==
  ASSUME NEW c, IsConv(c)
  PROVE  Keeps(c, c)
<1>1. PICK N : c \in Convs(N)
  BY DEF IsConv
<1>2. c.messages \in Seq(Entry(N))
  BY <1>1 DEF Convs
<1>3. Len(c.messages) \in Nat
  BY <1>2
<1> QED BY <1>3 DEF Keeps

\* A message is appended; to a closed conversation only an answer or a round.
LEMMA AppendKeeps ==
  ASSUME NEW c, IsConv(c), c.exists,
         NEW M, NEW msg \in Entry(M), c.closed => msg.role # "user",
         NEW d, d = [c EXCEPT !.messages = Append(@, msg)]
  PROVE  /\ IsConv(d) /\ Keeps(c, d)
         /\ d.exists
         /\ Len(c.messages) + 1 \in DOMAIN d.messages
         /\ d.messages[Len(c.messages) + 1] = msg
<1>1. PICK N : c \in Convs(N)
  BY DEF IsConv
<1> DEFINE T == Entry(N \cup M)
<1>2. c.messages \in Seq(T) /\ msg \in T
  <2>1. c.messages \in Seq(Entry(N))
    BY <1>1 DEF Convs
  <2>2. Entry(N) \subseteq T /\ Entry(M) \subseteq T
    BY DEF Entry
  <2> QED BY <2>1, <2>2, SeqMonotonic
<1>3. /\ Append(c.messages, msg) \in Seq(T)
      /\ Len(Append(c.messages, msg)) = Len(c.messages) + 1
      /\ \A i \in 1 .. Len(c.messages) : Append(c.messages, msg)[i] = c.messages[i]
      /\ Append(c.messages, msg)[Len(c.messages) + 1] = msg
  BY <1>2, AppendProperties
<1>4. /\ Len(c.messages) \in Nat /\ DOMAIN c.messages = 1 .. Len(c.messages)
      /\ DOMAIN Append(c.messages, msg) = 1 .. Len(c.messages) + 1
  BY <1>2, <1>3, LenProperties
<1>5. /\ d.messages = Append(c.messages, msg)
      /\ d.exists = c.exists /\ d.closed = c.closed
      /\ d \in Convs(N \cup M)
  BY <1>1, <1>3 DEF Convs
<1> QED BY <1>3, <1>4, <1>5 DEF IsConv, Keeps

\* Only a flag, or the title, is changed.
LEMMA FieldsKeep ==
  ASSUME NEW c, IsConv(c), c.exists,
         NEW d, \/ d = [c EXCEPT !.closed = TRUE]
                \/ \E t \in {"renamed", "generated"} : d = [c EXCEPT !.title = t]
  PROVE  /\ IsConv(d) /\ Keeps(c, d)
         /\ d.exists
         /\ d = [c EXCEPT !.closed = TRUE] => d.closed
<1>1. PICK N : c \in Convs(N)
  BY DEF IsConv
<1>2. d \in Convs(N) /\ d.messages = c.messages /\ d.exists /\ (c.closed => d.closed)
  BY <1>1 DEF Convs
<1>3. d = [c EXCEPT !.closed = TRUE] => d.closed
  BY <1>1 DEF Convs
<1>4. Keeps(c, c)
  BY SameKeeps
<1> QED BY <1>2, <1>3, <1>4 DEF IsConv, Keeps

\* The answers of a round are written into an open conversation.
LEMMA AnswersKeep ==
  ASSUME NEW c, IsConv(c), c.exists, ~c.closed,
         NEW k, NEW r \in Requests,
         NEW d, d = [c EXCEPT !.messages[k].answers = r]
  PROVE  IsConv(d) /\ Keeps(c, d) /\ d.exists
<1>1. PICK N : c \in Convs(N)
  BY DEF IsConv
<1> DEFINE log == [c.messages EXCEPT ![k].answers = r]
<1>2. /\ d.messages = log
      /\ d.exists = c.exists /\ d.closed = c.closed
  BY <1>1 DEF Convs
<1>3. PICK n \in Nat : c.messages \in [1 .. n -> Entry(N)]
  BY <1>1, SeqDef DEF Convs
<1>4. ASSUME NEW msg \in Entry(N)
      PROVE  /\ [msg EXCEPT !.answers = r] \in Entry(N)
             /\ [msg EXCEPT !.answers = r].role = msg.role
             /\ [msg EXCEPT !.answers = r].by = msg.by
  BY DEF Entry
<1>5. /\ log \in [1 .. n -> Entry(N)]
      /\ \A i \in 1 .. n : log[i].role = c.messages[i].role /\ log[i].by = c.messages[i].by
  BY <1>3, <1>4
<1>6. /\ log \in Seq(Entry(N))
      /\ Len(log) = n /\ Len(c.messages) = n
  BY <1>3, <1>5, SeqDef
<1> HIDE DEF log
<1>7. d \in Convs(N)
  BY <1>1, <1>2, <1>6 DEF Convs
<1> QED BY <1>2, <1>3, <1>5, <1>6, <1>7 DEF IsConv, Keeps

---------------------------------------------------------------------------
(***************************************************************************)
(* The methods of the store, disk errors included.                         *)
(***************************************************************************)
Fits(res) == IsConv(res.file) /\ Keeps(conv, res.file)

\* The message one of these leaves behind is the last one.
EndsWith(c, role, r) ==
  \E i \in DOMAIN c.messages : c.messages[i].role = role /\ c.messages[i].by = r

\* A method that refuses leaves the conversation as it is.
LEMMA RefusedFits ==
  ASSUME IsConv(conv), NEW e
  PROVE  Fits(Refused(conv, e))
BY SameKeeps DEF Fits, Refused

\* So does an I/O error, so an attempt fits when the method does.
LEMMA AttemptFits ==
  ASSUME IsConv(conv), NEW result, Fits(result), NEW res \in Attempt(result)
  PROVE  Fits(res) /\ (res.err = "none" => res = result)
BY RefusedFits DEF Attempt, Refused

\* Every method of the store fits: the two that take input look at closed,
LEMMA SaveUserFits ==
  ASSUME IsConv(conv), NEW r \in Requests
  PROVE  Fits(SaveUserMessage(conv, r))
<1>1. UserMessage(r) \in Entry({0})
  BY DEF UserMessage, Entry
<1>2. CASE conv.exists /\ ~conv.closed
  <2> DEFINE d == [conv EXCEPT !.messages = Append(@, UserMessage(r))]
  <2>1. IsConv(d) /\ Keeps(conv, d)
    BY <1>1, <1>2, AppendKeeps
  <2> HIDE DEF d
  <2>2. SaveUserMessage(conv, r) = Written(d)
    BY <1>2 DEF SaveUserMessage, Update, d
  <2> QED BY <2>1, <2>2 DEF Fits, Written
<1>3. CASE ~(conv.exists /\ ~conv.closed)
  BY <1>3, RefusedFits DEF SaveUserMessage, Update
<1> QED BY <1>2, <1>3

\* those that store what a model said append whether it is closed or not,
LEMMA SaveAssistantFits ==
  ASSUME IsConv(conv), NEW r \in Requests
  PROVE  /\ Fits(SaveAssistantMessage(conv, r))
         /\ SaveAssistantMessage(conv, r).err = "none" =>
              EndsWith(SaveAssistantMessage(conv, r).file, "assistant", r)
<1>1. /\ AssistantMessage(r) \in Entry({0}) /\ AssistantMessage(r).role = "assistant"
      /\ AssistantMessage(r).by = r
  BY DEF AssistantMessage, Entry
<1>2. CASE conv.exists
  <2> DEFINE d == [conv EXCEPT !.messages = Append(@, AssistantMessage(r))]
  <2>1. /\ IsConv(d) /\ Keeps(conv, d)
        /\ Len(conv.messages) + 1 \in DOMAIN d.messages
        /\ d.messages[Len(conv.messages) + 1] = AssistantMessage(r)
    BY <1>1, <1>2, AppendKeeps
  <2> HIDE DEF d
  <2>2. SaveAssistantMessage(conv, r) = Written(d)
    BY <1>2 DEF SaveAssistantMessage, Update, d
  <2> QED BY <1>1, <2>1, <2>2 DEF Fits, Written, EndsWith
<1>3. CASE ~conv.exists
  <2>1. SaveAssistantMessage(conv, r) = Refused(conv, "notFound")
    BY <1>3 DEF SaveAssistantMessage, Update
  <2> QED BY <2>1, RefusedFits DEF Refused
<1> QED BY <1>2, <1>3

\* a round as well as an answer;
LEMMA SaveRoundFits ==
  ASSUME IsConv(conv), NEW r \in Requests, NEW n, NEW q
  PROVE  /\ Fits(SaveClarificationRound(conv, r, n, q))
         /\ SaveClarificationRound(conv, r, n, q).err = "none" =>
              EndsWith(SaveClarificationRound(conv, r, n, q).file, "clarification", r)
<1>1. /\ ClarificationMessage(r, n, q) \in Entry({n, q})
      /\ ClarificationMessage(r, n, q).role = "clarification"
      /\ ClarificationMessage(r, n, q).by = r
  BY DEF ClarificationMessage, Entry
<1>2. CASE conv.exists
  <2> DEFINE d == [conv EXCEPT !.messages = Append(@, ClarificationMessage(r, n, q))]
  <2>1. /\ IsConv(d) /\ Keeps(conv, d)
        /\ Len(conv.messages) + 1 \in DOMAIN d.messages
        /\ d.messages[Len(conv.messages) + 1] = ClarificationMessage(r, n, q)
    BY <1>1, <1>2, AppendKeeps
  <2> HIDE DEF d
  <2>2. SaveClarificationRound(conv, r, n, q) = Written(d)
    BY <1>2 DEF SaveClarificationRound, Update, d
  <2> QED BY <1>1, <2>1, <2>2 DEF Fits, Written, EndsWith
<1>3. CASE ~conv.exists
  <2>1. SaveClarificationRound(conv, r, n, q) = Refused(conv, "notFound")
    BY <1>3 DEF SaveClarificationRound, Update
  <2> QED BY <2>1, RefusedFits DEF Refused
<1> QED BY <1>2, <1>3

\* answers go into an open conversation only,
LEMMA UpdateAnswersFits ==
  ASSUME IsConv(conv), NEW r \in Requests, NEW n
  PROVE  Fits(UpdateClarificationAnswers(conv, r, n))
<1>1. CASE conv.exists /\ ~conv.closed /\ Rounds(conv, n) # {}
  <2> DEFINE k == Max(Rounds(conv, n))
             d == [conv EXCEPT !.messages[k].answers = r]
  <2>1. IsConv(d) /\ Keeps(conv, d)
    <3> HIDE DEF k
    <3> QED BY <1>1, AnswersKeep
  <2> HIDE DEF d
  <2>2. UpdateClarificationAnswers(conv, r, n) = Written(d)
    BY <1>1 DEF UpdateClarificationAnswers, Update, d
  <2> QED BY <2>1, <2>2 DEF Fits, Written
<1>2. CASE ~(conv.exists /\ ~conv.closed /\ Rounds(conv, n) # {})
  <2>1. \E e : UpdateClarificationAnswers(conv, r, n) = Refused(conv, e)
    BY <1>2 DEF UpdateClarificationAnswers, Update
  <2> QED BY <2>1, RefusedFits
<1> QED BY <1>1, <1>2

\* closing sets the flag and nothing resets it,
LEMMA CloseFits ==
  ASSUME IsConv(conv)
  PROVE  /\ Fits(CloseConversation(conv))
         /\ CloseConversation(conv).err = "none" => CloseConversation(conv).file.closed
<1>1. CASE conv.exists
  <2> DEFINE d == [conv EXCEPT !.closed = TRUE]
  <2>1. IsConv(d) /\ Keeps(conv, d) /\ d.closed
    BY <1>1, FieldsKeep
  <2> HIDE DEF d
  <2>2. CloseConversation(conv) = Written(d)
    BY <1>1 DEF CloseConversation, Update, d
  <2> QED BY <2>1, <2>2 DEF Fits, Written
<1>2. CASE ~conv.exists
  <2>1. CloseConversation(conv) = Refused(conv, "notFound")
    BY <1>2 DEF CloseConversation, Update
  <2> QED BY <2>1, RefusedFits DEF Refused
<1> QED BY <1>1, <1>2

\* and a title touches nothing else.
LEMMA SaveTitleFits ==
  ASSUME IsConv(conv), NEW t \in {"renamed", "generated"}
  PROVE  Fits(SaveTitle(conv, t))
<1>1. CASE conv.exists
  <2> DEFINE d == [conv EXCEPT !.title = t]
  <2>1. IsConv(d) /\ Keeps(conv, d)
    BY <1>1, FieldsKeep
  <2> HIDE DEF d
  <2>2. SaveTitle(conv, t) = Written(d)
    BY <1>1 DEF SaveTitle, Update, d
  <2> QED BY <2>1, <2>2 DEF Fits, Written
<1>2. CASE ~conv.exists
  BY <1>2, RefusedFits DEF SaveTitle, Update
<1> QED BY <1>1, <1>2

\* The two conversations without messages.
LEMMA NewConversations ==
  /\ IsConv(NoConversation) /\ ~NoConversation.exists
  /\ IsConv(CreateConversation)
<1>1. NoConversation \in Convs({}) /\ ~NoConversation.exists
  <2>1. <<>> \in Seq(Entry({}))
    OBVIOUS
  <2> QED BY <2>1 DEF NoConversation, Convs
<1>2. CreateConversation \in Convs({})
  BY <1>1 DEF CreateConversation, Convs
<1> QED BY <1>1, <1>2 DEF IsConv

\* A deleted conversation is gone, and Keeps asks nothing of it.
LEMMA DeleteFits ==
  ASSUME IsConv(conv)
  PROVE  Fits(DeleteConversation(conv))
<1>1. CASE conv.exists
  <2>1. DeleteConversation(conv) = Written(NoConversation)
    BY <1>1 DEF DeleteConversation, Update
  <2> QED BY <2>1, NewConversations DEF Fits, Written, Keeps
<1>2. CASE ~conv.exists
  BY <1>2, RefusedFits DEF DeleteConversation, Update
<1> QED BY <1>1, <1>2

---------------------------------------------------------------------------
(***************************************************************************)
(* The log, and from it what a closed conversation takes.                  *)
(***************************************************************************)
LEMMA StepKeeps ==
  ASSUME IsConv(conv), [Next]_vars
  PROVE  IsConv(conv') /\ Keeps(conv, conv')
<1>1. CASE UNCHANGED conv
  BY <1>1, SameKeeps
<1>2. ASSUME NEW r \in Requests, NEW v, PostContent(r, v)
      PROVE  IsConv(conv') /\ Keeps(conv, conv')
  BY <1>2, SaveUserFits, AttemptFits DEF PostContent, Fits
<1>3. ASSUME NEW r \in Requests, SaveAnswers(r)
      PROVE  IsConv(conv') /\ Keeps(conv, conv')
  BY <1>3, UpdateAnswersFits, AttemptFits DEF SaveAnswers, Fits
<1>4. ASSUME NEW r \in Requests, SaveRound(r)
      PROVE  IsConv(conv') /\ Keeps(conv, conv')
  BY <1>4, SaveRoundFits, AttemptFits DEF SaveRound, Fits
<1>5. ASSUME NEW r \in Requests, SaveAssistant(r)
      PROVE  IsConv(conv') /\ Keeps(conv, conv')
  BY <1>5, SaveAssistantFits, AttemptFits DEF SaveAssistant, Fits
<1>6. ASSUME NEW r \in Requests, Close(r)
      PROVE  IsConv(conv') /\ Keeps(conv, conv')
  BY <1>6, CloseFits, AttemptFits DEF Close, Fits
<1>7. ASSUME NEW r \in Requests, SetTitle(r)
      PROVE  IsConv(conv') /\ Keeps(conv, conv')
  BY <1>7, SaveTitleFits, AttemptFits, SameKeeps DEF SetTitle, Fits
<1>8. CASE RenameConversation
  BY <1>8, SaveTitleFits, AttemptFits DEF RenameConversation, Fits
<1>9. CASE RemoveConversation
  BY <1>9, DeleteFits, AttemptFits DEF RemoveConversation, Fits
<1>10. ASSUME NEW r \in Requests, NEW v, NEW k,
              PostAnswers(r, v, k) \/ ReadHistory(r) \/ Clarify(r) \/ RunFull(r) \/ Lost(r)
       PROVE  UNCHANGED conv
  BY <1>10 DEF PostAnswers, ReadHistory, Clarify, RunFull, Lost
<1>11. CASE UNCHANGED vars
  BY <1>11, SameKeeps DEF vars
<1> QED
  BY <1>1, <1>2, <1>3, <1>4, <1>5, <1>6, <1>7, <1>8, <1>9, <1>10, <1>11
  DEF Next, Post, Proceed

\* The conversation the requests are sent to is new.
LEMMA InitConv == Init => IsConv(conv)
BY NewConversations DEF Init

(***************************************************************************)
(* The log of a conversation that exists only grows: no handler, racing    *)
(* with any other, drops, reorders or reassigns a message (the methods of  *)
(* storage.go write back what they read).                                  *)
(***************************************************************************)
THEOREM LogGrows == Spec => LogOnlyGrows
<1>1. IsConv(conv) /\ [Next]_vars =>
        [conv'.exists
         => /\ Len(conv.messages) <= Len(conv'.messages)
            /\ \A i \in DOMAIN conv.messages :
                 /\ conv'.messages[i].role = conv.messages[i].role
                 /\ conv'.messages[i].by = conv.messages[i].by]_vars
  BY StepKeeps DEF Keeps
<1>2. IsConv(conv) /\ [Next]_vars => IsConv(conv)'
  BY StepKeeps
<1> QED BY <1>1, <1>2, InitConv, PTL DEF Spec, LogOnlyGrows

(***************************************************************************)
(* A closed conversation takes no user message and no answers, whatever    *)
(* requests were under way when it closed (SaveUserMessage and             *)
(* UpdateClarificationAnswers look at closed under the store's lock).      *)
(***************************************************************************)
THEOREM ClosedTakesNoInput == Spec => NoInputAfterClose
<1>1. IsConv(conv) /\ [Next]_vars =>
        [conv.closed /\ conv'.exists
         => /\ \A i \in DOMAIN conv'.messages :
                 conv'.messages[i].role = "user" => i \in DOMAIN conv.messages
            /\ \A i \in DOMAIN conv.messages : AnswersOf(conv')[i] = AnswersOf(conv)[i]]_vars
  BY StepKeeps DEF Keeps, AnswersOf
<1>2. IsConv(conv) /\ [Next]_vars => IsConv(conv)'
  BY StepKeeps
<1> QED BY <1>1, <1>2, InitConv, PTL DEF Spec, NoInputAfterClose

---------------------------------------------------------------------------
(***************************************************************************)
(* What a client was told.  ReportedIsStored and CompletedStreamIsClosed   *)
(* need to know what a request has done when it comes to its last steps,   *)
(* and that no step of another request undoes it.                          *)
(***************************************************************************)
Shape ==
  /\ IsConv(conv)
  /\ DOMAIN pc = Requests /\ DOMAIN reply = Requests /\ DOMAIN via = Requests
  /\ \A r \in Requests : Running(r) \/ pc[r] = "idle" => reply[r] = "none"

\* A request that has stored its answer goes on to the title.
AnswerStored ==
  \A r \in Requests :
    conv.exists /\ (pc[r] \in {"close", "saveTitle"} \/ reply[r] = "answer")
    => EndsWith(conv, "assistant", r)

RoundStored ==
  \A r \in Requests : conv.exists /\ reply[r] = "questions" => EndsWith(conv, "clarification", r)

\* A stream comes to the title by way of Close only.
StreamClosed ==
  \A r \in Requests :
    conv.exists /\ via[r] = "stream" /\ (pc[r] = "saveTitle" \/ reply[r] = "answer")
    => conv.closed \/ r \in unclosed

APIInv == Shape /\ AnswerStored /\ RoundStored /\ StreamClosed

\* No request has been answered.
LEMMA InitAPI == Init => APIInv
BY InitConv
DEF Init, APIInv, Shape, AnswerStored, RoundStored, StreamClosed, Running, Ended

\* What is in the log stays there, and a conversation stays closed.
LEMMA Lasting ==
  ASSUME APIInv, [Next]_vars, conv'.exists
  PROVE  /\ conv.exists
         /\ conv.closed => conv'.closed
         /\ \A role, r : EndsWith(conv, role, r) => EndsWith(conv', role, r)
BY StepKeeps DEF APIInv, Shape, Keeps, EndsWith

\* Steps that neither store an answer or a round nor close.
LEMMA OwnStep ==
  ASSUME APIInv, [Next]_vars, NEW r \in Requests,
         pc'[r] \notin {"idle", "close", "saveTitle"},
         reply'[r] \notin {"answer", "questions"},
         pc'[r] # "done" => reply'[r] = "none",
         DOMAIN pc' = Requests, DOMAIN reply' = Requests, DOMAIN via' = Requests,
         \A q \in Requests : q # r => /\ pc'[q] = pc[q] /\ reply'[q] = reply[q]
                                      /\ via'[q] = via[q],
         UNCHANGED unclosed
  PROVE  APIInv'
<1>1. Shape'
  BY StepKeeps DEF APIInv, Shape, Running, Ended
<1>2. AnswerStored' /\ RoundStored' /\ StreamClosed'
  BY Lasting DEF APIInv, AnswerStored, RoundStored, StreamClosed
<1> QED BY <1>1, <1>2 DEF APIInv

\* A request goes on to its next step.
LEMMA GotoStep ==
  ASSUME APIInv, [Next]_vars, NEW r \in Requests, Running(r) \/ pc[r] = "idle",
         NEW w \in {"saveAnswers", "readHistory", "clarify", "saveRound", "runFull",
                    "saveAssistant"}, Goto(r, w),
         DOMAIN via' = Requests, \A q \in Requests : q # r => via'[q] = via[q],
         UNCHANGED unclosed
  PROVE  APIInv'
BY OwnStep DEF Goto, APIInv, Shape

\* A request ends with anything but an answer or questions.
LEMMA ReplyStep ==
  ASSUME APIInv, [Next]_vars, NEW r \in Requests,
         NEW what \in {"none"} \cup Errors, Reply(r, what),
         DOMAIN via' = Requests, \A q \in Requests : q # r => via'[q] = via[q],
         UNCHANGED unclosed
  PROVE  APIInv'
BY OwnStep DEF Reply, Errors, APIInv, Shape

\* The steps that do, and those that only touch the conversation.
LEMMA SaveRoundStep ==
  ASSUME APIInv, [Next]_vars, NEW r \in Requests, SaveRound(r), UNCHANGED unclosed
  PROVE  APIInv'
<1>1. /\ pc[r] = "saveRound" /\ pc' = [pc EXCEPT ![r] = "done"]
      /\ via' = via
      /\ \/ reply' = [reply EXCEPT ![r] = "failed"]
         \/ /\ reply' = [reply EXCEPT ![r] = "questions"]
            /\ EndsWith(conv', "clarification", r)
  <2>1. PICK res \in Attempt(SaveClarificationRound(conv, r, draft[r].round, draft[r].asked)) :
          /\ conv' = res.file
          /\ Reply(r, IF res.err = "none" THEN "questions" ELSE "failed")
    BY DEF SaveRound
  <2>2. res.err = "none" => EndsWith(conv', "clarification", r)
    BY <2>1, SaveRoundFits, AttemptFits DEF APIInv, Shape
  <2> QED BY <2>1, <2>2 DEF SaveRound, Reply, Input
<1>2. Shape'
  BY <1>1, StepKeeps DEF APIInv, Shape, Running, Ended
<1>3. AnswerStored' /\ StreamClosed'
  BY <1>1, Lasting DEF APIInv, Shape, AnswerStored, StreamClosed
<1>4. RoundStored'
  BY <1>1, Lasting DEF APIInv, Shape, RoundStored
<1> QED BY <1>2, <1>3, <1>4 DEF APIInv

\* An answer is stored before the request goes on to report it.
LEMMA SaveAssistantStep ==
  ASSUME APIInv, [Next]_vars, NEW r \in Requests, SaveAssistant(r), UNCHANGED unclosed
  PROVE  APIInv'
<1>1. /\ pc[r] = "saveAssistant"
      /\ via' = via
      /\ \/ /\ reply' = [reply EXCEPT ![r] = "failed"]
            /\ pc' = [pc EXCEPT ![r] = "done"]
         \/ /\ reply' = reply
            /\ EndsWith(conv', "assistant", r)
            /\ pc' = [pc EXCEPT ![r] = IF via[r] = "stream" THEN "close" ELSE "saveTitle"]
  <2>1. PICK res \in Attempt(SaveAssistantMessage(conv, r)) :
          /\ conv' = res.file
          /\ IF res.err = "none"
             THEN Goto(r, IF via[r] = "stream" THEN "close" ELSE "saveTitle")
             ELSE Reply(r, "failed")
    BY DEF SaveAssistant
  <2>2. res.err = "none" => EndsWith(conv', "assistant", r)
    BY <2>1, SaveAssistantFits, AttemptFits DEF APIInv, Shape
  <2> QED BY <2>1, <2>2 DEF SaveAssistant, Reply, Goto, Input
<1>2. Shape'
  BY <1>1, StepKeeps DEF APIInv, Shape, Running, Ended
<1>3. AnswerStored'
  BY <1>1, Lasting DEF APIInv, Shape, AnswerStored
<1>4. RoundStored'
  BY <1>1, Lasting DEF APIInv, Shape, RoundStored
<1>5. StreamClosed'
  BY <1>1, Lasting DEF APIInv, Shape, StreamClosed, Running, Ended
<1> QED BY <1>2, <1>3, <1>4, <1>5 DEF APIInv

\* The stream closes the conversation or remembers that it could not.
LEMMA CloseStep ==
  ASSUME APIInv, [Next]_vars, NEW r \in Requests, Close(r)
  PROVE  APIInv'
<1>1. /\ pc[r] = "close" /\ pc' = [pc EXCEPT ![r] = "saveTitle"]
      /\ UNCHANGED <<via, reply>>
      /\ unclosed \subseteq unclosed'
      /\ conv'.closed \/ r \in unclosed'
  <2>1. PICK res \in Attempt(CloseConversation(conv)) :
          /\ conv' = res.file
          /\ unclosed' = IF res.err = "none" THEN unclosed ELSE unclosed \cup {r}
    BY DEF Close
  <2>2. res.err = "none" => conv'.closed
    BY <2>1, CloseFits, AttemptFits DEF APIInv, Shape
  <2> QED BY <2>1, <2>2 DEF Close, Goto, Input
<1>2. Shape'
  BY <1>1, StepKeeps DEF APIInv, Shape, Running, Ended
<1>3. AnswerStored' /\ RoundStored'
  BY <1>1, Lasting DEF APIInv, Shape, AnswerStored, RoundStored
<1>4. StreamClosed'
  BY <1>1, Lasting DEF APIInv, Shape, StreamClosed
<1> QED BY <1>2, <1>3, <1>4 DEF APIInv

\* The reply of an answer, which is in the log by now.
LEMMA SetTitleStep ==
  ASSUME APIInv, [Next]_vars, NEW r \in Requests, SetTitle(r), UNCHANGED unclosed
  PROVE  APIInv'
<1>1. /\ pc[r] = "saveTitle" /\ pc' = [pc EXCEPT ![r] = "done"]
      /\ reply' = [reply EXCEPT ![r] = "answer"]
      /\ via' = via
  BY DEF SetTitle, Reply, Input
<1>2. Shape'
  BY <1>1, StepKeeps DEF APIInv, Shape, Running, Ended
<1>3. AnswerStored' /\ RoundStored' /\ StreamClosed'
  BY <1>1, Lasting DEF APIInv, Shape, AnswerStored, RoundStored, StreamClosed
<1> QED BY <1>2, <1>3 DEF APIInv

\* Rename and delete.
LEMMA OutsideStep ==
  ASSUME APIInv, [Next]_vars, UNCHANGED <<pc, reply, via, unclosed>>
  PROVE  APIInv'
<1>1. Shape'
  BY StepKeeps DEF APIInv, Shape, Running
<1>2. AnswerStored' /\ RoundStored' /\ StreamClosed'
  BY Lasting DEF APIInv, AnswerStored, RoundStored, StreamClosed
<1> QED BY <1>1, <1>2 DEF APIInv

\* A request arrives.
LEMMA PostStep ==
  ASSUME APIInv, [Next]_vars, NEW r \in Requests, Post(r), UNCHANGED unclosed
  PROVE  APIInv'
<1>1. PICK v \in {"blocking", "stream"} :
        \/ PostContent(r, v)
        \/ \E k \in {"answers", "blank"} : PostAnswers(r, v, k)
  BY DEF Post
<1>2. /\ pc[r] = "idle"
      /\ via' = [via EXCEPT ![r] = v]
  BY <1>1 DEF PostContent, PostAnswers, Arrives
<1>3. DOMAIN via' = Requests /\ \A q \in Requests : q # r => via'[q] = via[q]
  BY <1>2 DEF APIInv, Shape
<1>4. \/ \E w \in {"runFull", "clarify", "saveAnswers"} : Goto(r, w)
      \/ \E what \in {"failed", "closed", "notFound", "noPending", "alreadyAnswered"} :
           Reply(r, what)
  <2>1. CASE PostContent(r, v)
    BY <2>1 DEF PostContent
  <2>2. CASE \E k \in {"answers", "blank"} : PostAnswers(r, v, k)
    BY <2>2 DEF PostAnswers
  <2> QED BY <1>1, <2>1, <2>2
<1>5. CASE \E w \in {"runFull", "clarify", "saveAnswers"} : Goto(r, w)
  BY <1>2, <1>3, <1>5, GotoStep
<1>6. CASE \E what \in {"failed", "closed", "notFound", "noPending", "alreadyAnswered"} :
             Reply(r, what)
  BY <1>2, <1>3, <1>6, ReplyStep DEF Errors
<1> QED BY <1>4, <1>5, <1>6

\* A request goes on.
LEMMA ProceedStep ==
  ASSUME APIInv, [Next]_vars, NEW r \in Requests, UNCHANGED unclosed,
         SaveAnswers(r) \/ ReadHistory(r) \/ Clarify(r) \/ RunFull(r) \/ Lost(r)
  PROVE  APIInv'
<1>1. Running(r) /\ via' = via
  BY DEF SaveAnswers, ReadHistory, Clarify, RunFull, Lost, Running, Ended, Input
<1>2. \/ \E w \in {"readHistory", "clarify", "runFull", "saveRound", "saveAssistant"} : Goto(r, w)
      \/ \E what \in {"none", "failed", "closed"} : Reply(r, what)
  BY DEF SaveAnswers, ReadHistory, Clarify, RunFull, Lost
<1>3. CASE \E w \in {"readHistory", "clarify", "runFull", "saveRound", "saveAssistant"} : Goto(r, w)
  BY <1>1, <1>3, GotoStep DEF APIInv, Shape
<1>4. CASE \E what \in {"none", "failed", "closed"} : Reply(r, what)
  BY <1>1, <1>4, ReplyStep DEF Errors, APIInv, Shape
<1> QED BY <1>2, <1>3, <1>4

\* Every step keeps the invariant.
LEMMA NextAPI ==
  ASSUME APIInv, [Next]_vars
  PROVE  APIInv'
<1>1. CASE UNCHANGED vars
  BY <1>1, OutsideStep DEF vars
<1>2. CASE RenameConversation \/ RemoveConversation
  <2>1. UNCHANGED <<pc, reply, via>>
    BY <1>2 DEF RenameConversation, RemoveConversation, Input
  <2>2. CASE UNCHANGED unclosed
    BY <2>1, <2>2, OutsideStep
  <2>3. CASE \E r \in Requests : Close(r)
    BY <2>3, CloseStep
  <2>4. CASE UNCHANGED vars
    BY <2>4, OutsideStep DEF vars
  <2> QED BY <2>2, <2>3, <2>4 DEF Next
<1> QED
  BY <1>1, <1>2, CloseStep, PostStep, ProceedStep, SaveRoundStep, SaveAssistantStep,
     SetTitleStep
  DEF Next, Proceed

(***************************************************************************)
(* A client that was told of an answer or of questions finds them in the   *)
(* conversation unless it was deleted (the handlers reply after the store  *)
(* call that saved them has succeeded).                                    *)
(***************************************************************************)
THEOREM ReportsAreTrue == Spec => []ReportedIsStored
<1>1. APIInv => ReportedIsStored
  BY DEF APIInv, AnswerStored, RoundStored, EndsWith, ReportedIsStored, Entries
<1> QED BY <1>1, InitAPI, NextAPI, PTL DEF Spec

(***************************************************************************)
(* A stream that completed has closed the conversation, unless its own     *)
(* call of CloseConversation failed (handler.go ignores that error).       *)
(***************************************************************************)
THEOREM StreamsClose == Spec => []CompletedStreamIsClosed
<1>1. APIInv => CompletedStreamIsClosed
  BY DEF APIInv, StreamClosed, CompletedStreamIsClosed
<1> QED BY <1>1, InitAPI, NextAPI, PTL DEF Spec

---------------------------------------------------------------------------
(***************************************************************************)
(* Types.  What Stage 0 is told and how many questions it may ask depends  *)
(* on numbers read back from the log.                                      *)
(***************************************************************************)

\* Max of a set of positions is the last of them.
LEMMA LastPosition ==
  ASSUME NEW n \in Int, NEW S \in SUBSET (1 .. n), S # {}
  PROVE  /\ Max(S) \in S
         /\ \A x \in S : Max(S) >= x
<1> DEFINE After == {n - x : x \in S}
<1>1. PICK m \in After : \A y \in After : ~(<<y, m>> \in OpToRel(<, Nat))
  <2>1. ASSUME NEW x \in S PROVE n - x \in Nat
    OBVIOUS
  <2>2. After \subseteq Nat /\ After # {}
    BY <2>1
  <2> HIDE DEF After
  <2> QED BY <2>2, NatLessThanWellFounded, WFMin
<1>2. PICK x \in S : m = n - x
  BY <1>1
<1>3. ASSUME NEW y \in S PROVE x >= y
  <2>1. n - y \in After /\ n - y \in Nat /\ m \in Nat
    BY <1>2
  <2>2. ~(n - y < m)
    BY <2>1, <1>1 DEF OpToRel
  <2> QED BY <2>2, <1>2
<1> QED BY <1>2, <1>3 DEF Max

\* Positions of a log.
LEMMA LogPositions ==
  ASSUME NEW c \in Conversations
  PROVE  /\ Len(c.messages) \in Nat
         /\ DOMAIN c.messages = 1 .. Len(c.messages)
         /\ \A i \in DOMAIN c.messages : c.messages[i] \in Messages
         /\ Clarifications(c) \subseteq DOMAIN c.messages
         /\ IsFiniteSet(DOMAIN c.messages) /\ IsFiniteSet(Clarifications(c))
<1>1. c.messages \in Seq(Messages)
  BY DEF Conversations
<1>2. /\ Len(c.messages) \in Nat
      /\ DOMAIN c.messages = 1 .. Len(c.messages)
      /\ \A i \in DOMAIN c.messages : c.messages[i] \in Messages
  BY <1>1
<1>3. Clarifications(c) \in SUBSET DOMAIN c.messages
  BY DEF Clarifications
<1>4. IsFiniteSet(DOMAIN c.messages)
  BY <1>2, FS_Interval
<1>5. IsFiniteSet(Clarifications(c))
  BY <1>3, <1>4, FS_Subset
<1> QED BY <1>2, <1>3, <1>4, <1>5

\* The last round is one of the log.
LEMMA LastRound ==
  ASSUME NEW c \in Conversations, NEW round \in GetLastClarificationRound(c)
  PROVE  /\ Max(Clarifications(c)) \in Clarifications(c)
         /\ \A i \in Clarifications(c) : i <= Max(Clarifications(c))
         /\ round = c.messages[Max(Clarifications(c))]
         /\ round \in Messages
<1>1. /\ Clarifications(c) # {}
      /\ round = c.messages[Max(Clarifications(c))]
  BY DEF GetLastClarificationRound
<1>2. Clarifications(c) \in SUBSET (1 .. Len(c.messages)) /\ Len(c.messages) \in Int
  BY LogPositions
<1>3. /\ Max(Clarifications(c)) \in Clarifications(c)
      /\ \A i \in Clarifications(c) : Max(Clarifications(c)) >= i
  BY <1>1, <1>2, LastPosition
<1>4. ASSUME NEW i \in Clarifications(c) PROVE i <= Max(Clarifications(c))
  BY <1>2, <1>3
<1> QED BY <1>1, <1>3, <1>4, LogPositions

\* The methods return conversations,
LEMMA AppendTyped ==
  ASSUME NEW c \in Conversations, NEW m \in Messages
  PROVE  [c EXCEPT !.messages = Append(@, m)] \in Conversations
<1>1. Append(c.messages, m) \in Seq(Messages)
  BY AppendProperties DEF Conversations
<1> QED BY <1>1 DEF Conversations

\* Answers put in at any place of the log leave it a conversation.
LEMMA AnswersTyped ==
  ASSUME NEW c \in Conversations, NEW k, NEW r \in Requests
  PROVE  [c EXCEPT !.messages[k].answers = r] \in Conversations
<1>1. PICK n \in Nat : c.messages \in [1 .. n -> Messages]
  BY SeqDef DEF Conversations
<1>2. ASSUME NEW msg \in Messages
      PROVE  [msg EXCEPT !.answers = r] \in Messages
  BY DEF Messages
<1>3. [c.messages EXCEPT ![k].answers = r] \in [1 .. n -> Messages]
  BY <1>1, <1>2
<1>4. [c.messages EXCEPT ![k].answers = r] \in Seq(Messages)
  BY <1>3, SeqDef
<1> QED BY <1>4 DEF Conversations

\* What the methods that add messages or answers leave is a conversation.
LEMMA MessageMethodsTyped ==
  ASSUME NEW c \in Conversations, NEW r \in Requests
  PROVE  /\ SaveUserMessage(c, r).file \in Conversations
         /\ SaveAssistantMessage(c, r).file \in Conversations
         /\ \A n \in Nat, q \in Nat : SaveClarificationRound(c, r, n, q).file \in Conversations
         /\ \A n : UpdateClarificationAnswers(c, r, n).file \in Conversations
<1>1. /\ UserMessage(r) \in Messages
      /\ AssistantMessage(r) \in Messages
      /\ \A n \in Nat, q \in Nat : ClarificationMessage(r, n, q) \in Messages
  BY DEF UserMessage, AssistantMessage, ClarificationMessage, Messages
<1>2. SaveUserMessage(c, r).file \in Conversations
  <2>1. [c EXCEPT !.messages = Append(@, UserMessage(r))] \in Conversations
    BY <1>1, AppendTyped
  <2> QED BY <2>1 DEF SaveUserMessage, Update, Written, Refused
<1>3. SaveAssistantMessage(c, r).file \in Conversations
  <2>1. [c EXCEPT !.messages = Append(@, AssistantMessage(r))] \in Conversations
    BY <1>1, AppendTyped
  <2> QED BY <2>1 DEF SaveAssistantMessage, Update, Written, Refused
<1>4. ASSUME NEW n \in Nat, NEW q \in Nat
      PROVE  SaveClarificationRound(c, r, n, q).file \in Conversations
  <2>1. [c EXCEPT !.messages = Append(@, ClarificationMessage(r, n, q))] \in Conversations
    BY <1>1, AppendTyped
  <2> QED BY <2>1 DEF SaveClarificationRound, Update, Written, Refused
<1>5. ASSUME NEW n
      PROVE  UpdateClarificationAnswers(c, r, n).file \in Conversations
  <2>1. [c EXCEPT !.messages[Max(Rounds(c, n))].answers = r] \in Conversations
    BY AnswersTyped
  <2> QED BY <2>1 DEF UpdateClarificationAnswers, Update, Written, Refused
<1> QED BY <1>2, <1>3, <1>4, <1>5

\* those that write no message too,
LEMMA FlagMethodsTyped ==
  ASSUME NEW c \in Conversations
  PROVE  /\ CloseConversation(c).file \in Conversations
         /\ \A t \in {"renamed", "generated"} : SaveTitle(c, t).file \in Conversations
         /\ DeleteConversation(c).file \in Conversations
<1>1. CloseConversation(c).file \in Conversations
  <2>1. [c EXCEPT !.closed = TRUE] \in Conversations
    BY DEF Conversations
  <2> QED BY <2>1 DEF CloseConversation, Update, Written, Refused
<1>2. ASSUME NEW t \in {"renamed", "generated"}
      PROVE  SaveTitle(c, t).file \in Conversations
  <2>1. [c EXCEPT !.title = t] \in Conversations
    BY DEF Conversations
  <2> QED BY <2>1 DEF SaveTitle, Update, Written, Refused
<1>3. DeleteConversation(c).file \in Conversations
  <2>1. <<>> \in Seq(Messages)
    OBVIOUS
  <2>2. NoConversation \in Conversations
    BY <2>1 DEF NoConversation, Conversations
  <2> QED BY <2>2 DEF DeleteConversation, Update, Written, Refused
<1> QED BY <1>1, <1>2, <1>3

\* and so does an attempt that may fail.
LEMMA AttemptTyped ==
  ASSUME conv \in Conversations, NEW result, result.file \in Conversations,
         NEW res \in Attempt(result)
  PROVE  res.file \in Conversations
BY DEF Attempt, Refused

Steps ==
  Ended \cup {"saveAnswers", "readHistory", "clarify", "saveRound", "runFull", "saveAssistant",
              "close", "saveTitle"}

\* What the two kinds of requests are told of rounds.
IsHistory(h) ==
  /\ DOMAIN h \subseteq Nat /\ IsFiniteSet(DOMAIN h)
  /\ h \in [DOMAIN h -> [round : Nat, asked : Nat, answers : Requests \cup {NoAnswers}]]

\* A request that has asked for nothing yet.
LEMMA NoHistory == IsHistory(<<>>)
<1>1. DOMAIN <<>> = {}
  OBVIOUS
<1> QED BY <1>1, FS_EmptySet DEF IsHistory

\* The history read from a log.
LEMMA HistoryTyped ==
  ASSUME NEW c \in Conversations, NEW r \in Requests, target[r] \in Nat
  PROVE  /\ DOMAIN HistoryFor(r, c) = Clarifications(c)
         /\ IsHistory(HistoryFor(r, c))
<1>1. DOMAIN HistoryFor(r, c) = Clarifications(c)
  BY DEF HistoryFor
<1>2. ASSUME NEW i \in Clarifications(c)
      PROVE  HistoryFor(r, c)[i] \in [round : Nat, asked : Nat, answers : Requests \cup {NoAnswers}]
  BY LogPositions DEF HistoryFor, Messages
<1>3. HistoryFor(r, c) = [i \in DOMAIN HistoryFor(r, c) |-> HistoryFor(r, c)[i]]
  BY <1>1 DEF HistoryFor
<1>4. Clarifications(c) \subseteq Nat /\ IsFiniteSet(Clarifications(c))
  BY LogPositions
<1> QED BY <1>1, <1>2, <1>3, <1>4 DEF IsHistory

\* A request ends: its locals are reset.
LEMMA ReplyTyped ==
  ASSUME TypeOK, NEW r \in Requests,
         NEW what \in {"none", "questions", "answer"} \cup Errors, Reply(r, what),
         conv' \in Conversations, UNCHANGED inFlight,
         kind' \in [Requests -> {"content", "answers", "blank"}],
         via' \in [Requests -> {"blocking", "stream"}]
  PROVE  TypeOK'
<1>1. /\ pc' \in [Requests -> Steps]
      /\ reply' \in [Requests -> {"none", "questions", "answer"} \cup Errors]
      /\ target' \in [Requests -> Nat]
      /\ draft' \in [Requests -> [round : Nat, asked : Nat]]
  BY DEF TypeOK, Reply, Steps, Ended, NoDraft
<1>2. /\ DOMAIN history' = Requests
      /\ \A q \in Requests : history'[q] = IF q = r THEN <<>> ELSE history[q]
  BY DEF TypeOK, Reply
<1>3. ASSUME NEW q \in Requests PROVE IsHistory(history'[q])
  BY <1>2, NoHistory DEF TypeOK, IsHistory
<1>4. ASSUME NEW q \in Requests, pc'[q] = "saveRound"
      PROVE  draft'[q] = draft[q] /\ pc[q] = "saveRound"
  BY <1>4 DEF Reply, TypeOK
<1> QED BY <1>1, <1>2, <1>3, <1>4 DEF TypeOK, Steps, IsHistory

\* A request goes on; only ReadHistory and Clarify touch history and draft.
LEMMA GotoTyped ==
  ASSUME TypeOK, NEW r \in Requests, NEW next \in Steps, Goto(r, next),
         conv' \in Conversations, UNCHANGED inFlight,
         kind' \in [Requests -> {"content", "answers", "blank"}],
         via' \in [Requests -> {"blocking", "stream"}],
         \/ UNCHANGED target
         \/ \E t \in Nat : target' = [target EXCEPT ![r] = t],
         \/ UNCHANGED history
         \/ \E h : IsHistory(h) /\ history' = [history EXCEPT ![r] = h],
         \/ UNCHANGED draft /\ next # "saveRound"
         \/ \E n \in 1 .. MaxRounds, q \in 1 .. MaxQuestionsPerRound :
              draft' = [draft EXCEPT ![r] = [round |-> n, asked |-> q]]
  PROVE  TypeOK'
<1>1. /\ pc' \in [Requests -> Steps]
      /\ reply' \in [Requests -> {"none", "questions", "answer"} \cup Errors]
      /\ target' \in [Requests -> Nat]
  BY DEF TypeOK, Goto, Steps, Ended
<1>2. /\ DOMAIN history' = Requests
      /\ \A q \in Requests : IsHistory(history'[q])
  <2>1. CASE UNCHANGED history
    BY <2>1 DEF TypeOK, IsHistory
  <2>2. CASE \E h : IsHistory(h) /\ history' = [history EXCEPT ![r] = h]
    BY <2>2 DEF TypeOK, IsHistory
  <2> QED BY <2>1, <2>2
<1>3. /\ draft' \in [Requests -> [round : Nat, asked : Nat]]
      /\ \A q \in Requests : pc'[q] = "saveRound" =>
           draft'[q].round \in 1 .. MaxRounds /\ draft'[q].asked \in 1 .. MaxQuestionsPerRound
  <2>1. CASE UNCHANGED draft /\ next # "saveRound"
    BY <2>1 DEF TypeOK, Goto
  <2>2. ASSUME NEW n \in 1 .. MaxRounds, NEW m \in 1 .. MaxQuestionsPerRound,
               draft' = [draft EXCEPT ![r] = [round |-> n, asked |-> m]]
        PROVE  /\ draft' \in [Requests -> [round : Nat, asked : Nat]]
               /\ \A q \in Requests :
                    pc'[q] = "saveRound" => /\ draft'[q].round \in 1 .. MaxRounds
                                            /\ draft'[q].asked \in 1 .. MaxQuestionsPerRound
    BY <2>2 DEF TypeOK, Goto
  <2> QED BY <2>1, <2>2
<1> QED BY <1>1, <1>2, <1>3 DEF TypeOK, Steps, IsHistory

\* What Stage 0 decides from: the rounds at their places.
LEMMA SeenRounds ==
  ASSUME NEW r \in Requests, IsHistory(history[r])
  PROVE  /\ DOMAIN Seen(r) = DOMAIN history[r]
         /\ \A i \in DOMAIN history[r] : Seen(r)[i].asked = history[r][i].asked
         /\ NextRound(Seen(r)) \in Nat \ {0}
         /\ NextRound(Seen(r)) = Cardinality(DOMAIN history[r]) + 1
<1>1. /\ DOMAIN Seen(r) = DOMAIN history[r]
      /\ \A i \in DOMAIN history[r] : Seen(r)[i].asked = history[r][i].asked
  BY DEF Seen
<1>2. Cardinality(DOMAIN history[r]) \in Nat
  BY FS_CardinalityType DEF IsHistory
<1> QED BY <1>1, <1>2 DEF NextRound

\* There are finitely many questions.
LEMMA QuestionsAreFinite ==
  ASSUME NEW h, IsFiniteSet(DOMAIN h), \A i \in DOMAIN h : h[i].asked \in Nat
  PROVE  IsFiniteSet(QuestionsOf(h)) /\ Cardinality(QuestionsOf(h)) \in Nat
<1> DEFINE f == [i \in DOMAIN h |-> {i} \X (1 .. h[i].asked)]
           S == {{i} \X (1 .. h[i].asked) : i \in DOMAIN h}
<1>1. f \in Surjection(DOMAIN h, S)
  BY DEF Surjection
<1>2. IsFiniteSet(S)
  <2> HIDE DEF f, S
  <2> QED BY <1>1, FS_Surjection
<1>3. ASSUME NEW T \in S PROVE IsFiniteSet(T)
  <2>1. PICK i \in DOMAIN h : T = {i} \X (1 .. h[i].asked)
    BY <1>3
  <2>2. IsFiniteSet({i}) /\ IsFiniteSet(1 .. h[i].asked)
    <3>1. h[i].asked \in Int /\ 1 \in Int
      OBVIOUS
    <3> QED BY <3>1, FS_Singleton, FS_Interval
  <2> QED BY <2>1, <2>2, FS_Product
<1>4. IsFiniteSet(UNION S)
  <2> HIDE DEF S
  <2> QED BY <1>2, <1>3, FS_UNION
<1>5. IsFiniteSet(QuestionsOf(h))
  BY <1>4 DEF QuestionsOf
<1> QED BY <1>5, FS_CardinalityType

\* A round that is asked is within all three limits.
LEMMA RoundWithinLimits ==
  ASSUME NEW r \in Requests, IsHistory(history[r]),
         NEW n \in RunClarificationRound(Seen(r)) \ {0}
  PROVE  /\ NextRound(Seen(r)) \in 1 .. MaxRounds
         /\ n \in 1 .. MaxQuestionsPerRound
         /\ Cardinality(QuestionsOf(Seen(r))) + n <= MaxTotalQuestions
<1>1. /\ IsFiniteSet(DOMAIN Seen(r))
      /\ \A i \in DOMAIN Seen(r) : Seen(r)[i].asked \in Nat
  BY SeenRounds DEF IsHistory
<1>2. Accumulated(Seen(r)) \in Nat
  BY <1>1, QuestionsAreFinite DEF Accumulated
<1>3. MayAsk(Seen(r)) /\ n \in 0 .. QuestionLimit(Seen(r)) /\ n # 0
  BY DEF RunClarificationRound
<1>4. NextRound(Seen(r)) \in Nat \ {0} /\ NextRound(Seen(r)) <= MaxRounds
  BY <1>3, SeenRounds DEF MayAsk
<1>5. /\ QuestionLimit(Seen(r)) \in Int
      /\ QuestionLimit(Seen(r)) <= MaxQuestionsPerRound
      /\ QuestionLimit(Seen(r)) <= MaxTotalQuestions - Accumulated(Seen(r))
  BY <1>2, ClarificationAssumption DEF QuestionLimit
<1>6. n \in Nat \ {0} /\ n <= QuestionLimit(Seen(r))
  BY <1>3, <1>5
<1> QED BY <1>2, <1>4, <1>5, <1>6, ClarificationAssumption DEF Accumulated

\* The requests are idle, and nobody has been told anything.
LEMMA InitTyped == Init => TypeOK
<1> SUFFICES ASSUME Init PROVE TypeOK
  OBVIOUS
<1>1. conv \in Conversations
  <2>1. <<>> \in Seq(Messages)
    OBVIOUS
  <2> QED BY <2>1 DEF Init, CreateConversation, NoConversation, Conversations
<1>2. DOMAIN history = Requests /\ \A r \in Requests : IsHistory(history[r])
  BY NoHistory DEF Init
<1> QED BY <1>1, <1>2 DEF Init, TypeOK, Ended, NoDraft, IsHistory

\* Every step keeps the types.
LEMMA NextTyped ==
  ASSUME TypeOK, [Next]_vars
  PROVE  TypeOK'
<1>0. conv \in Conversations
  BY DEF TypeOK
<1>1. ASSUME NEW r \in Requests, NEW v \in {"blocking", "stream"}, PostContent(r, v),
             UNCHANGED inFlight
      PROVE  TypeOK'
  <2>1. PICK res \in Attempt(SaveUserMessage(conv, r)) :
          /\ conv' = res.file
          /\ IF res.err = "none"
             THEN /\ Goto(r, IF MaxRounds = 0 THEN "runFull" ELSE "clarify")
                  /\ UNCHANGED Locals
             ELSE Reply(r, IF res.err \in {"closed", "notFound"} THEN res.err ELSE "failed")
    BY <1>1 DEF PostContent
  <2>2. conv' \in Conversations
    BY <1>0, <2>1, MessageMethodsTyped, AttemptTyped
  <2>3. /\ kind' \in [Requests -> {"content", "answers", "blank"}]
        /\ via' \in [Requests -> {"blocking", "stream"}]
    BY <1>1 DEF PostContent, Arrives, TypeOK
  <2>4. CASE \E w \in {"runFull", "clarify"} : Goto(r, w) /\ UNCHANGED Locals
    BY <1>1, <2>2, <2>3, <2>4, GotoTyped DEF Steps, Locals
  <2>5. CASE \E what \in {"closed", "notFound", "failed"} : Reply(r, what)
    BY <1>1, <2>2, <2>3, <2>5, ReplyTyped DEF Errors
  <2> QED BY <2>1, <2>4, <2>5
<1>2. ASSUME NEW r \in Requests, NEW v \in {"blocking", "stream"},
             NEW k \in {"answers", "blank"}, PostAnswers(r, v, k), UNCHANGED inFlight
      PROVE  TypeOK'
  <2>1. /\ kind' \in [Requests -> {"content", "answers", "blank"}]
        /\ via' \in [Requests -> {"blocking", "stream"}]
        /\ conv' \in Conversations
    BY <1>0, <1>2 DEF PostAnswers, Arrives, TypeOK
  <2>2. CASE \E what \in {"alreadyAnswered", "noPending", "failed"} : Reply(r, what)
    BY <1>2, <2>1, <2>2, ReplyTyped DEF Errors
  <2>3. ASSUME NEW round \in GetLastClarificationRound(conv),
               target' = [target EXCEPT ![r] = round.round],
               Goto(r, "saveAnswers"), UNCHANGED <<history, draft>>
        PROVE  TypeOK'
    <3>1. round.round \in Nat
      BY <1>0, LastRound DEF Messages
    <3> QED BY <1>2, <2>1, <2>3, <3>1, GotoTyped DEF Steps
  <2> QED BY <1>2, <2>2, <2>3 DEF PostAnswers
<1>3. ASSUME NEW r \in Requests, SaveAnswers(r), UNCHANGED inFlight
      PROVE  TypeOK'
  <2>1. PICK res \in Attempt(UpdateClarificationAnswers(conv, r, target[r])) :
          /\ conv' = res.file
          /\ IF res.err = "none"
             THEN Goto(r, "readHistory") /\ UNCHANGED Locals
             ELSE Reply(r, IF res.err = "closed" THEN "closed" ELSE "failed")
    BY <1>3 DEF SaveAnswers
  <2>2. /\ kind' \in [Requests -> {"content", "answers", "blank"}]
        /\ via' \in [Requests -> {"blocking", "stream"}]
        /\ conv' \in Conversations
    BY <1>0, <1>3, <2>1, MessageMethodsTyped, AttemptTyped DEF SaveAnswers, Input, TypeOK
  <2>3. CASE Goto(r, "readHistory") /\ UNCHANGED Locals
    BY <1>3, <2>2, <2>3, GotoTyped DEF Steps, Locals
  <2>4. CASE \E what \in {"closed", "failed"} : Reply(r, what)
    BY <1>3, <2>2, <2>4, ReplyTyped DEF Errors
  <2> QED BY <2>1, <2>3, <2>4
<1>4. ASSUME NEW r \in Requests, ReadHistory(r), UNCHANGED inFlight
      PROVE  TypeOK'
  <2>1. /\ kind' \in [Requests -> {"content", "answers", "blank"}]
        /\ via' \in [Requests -> {"blocking", "stream"}]
        /\ conv' \in Conversations
    BY <1>0, <1>4 DEF ReadHistory, Input, TypeOK
  <2>2. CASE Reply(r, "failed")
    BY <1>4, <2>1, <2>2, ReplyTyped DEF Errors
  <2>3. IsHistory(HistoryFor(r, conv))
    BY <1>0, HistoryTyped DEF TypeOK
  <2>4. CASE /\ history' = [history EXCEPT ![r] = HistoryFor(r, conv)]
             /\ Goto(r, "clarify")
             /\ UNCHANGED <<target, draft>>
    BY <1>4, <2>1, <2>3, <2>4, GotoTyped DEF Steps
  <2> QED BY <1>4, <2>2, <2>4 DEF ReadHistory
<1>5. ASSUME NEW r \in Requests, Clarify(r), UNCHANGED inFlight
      PROVE  TypeOK'
  <2>1. /\ kind' \in [Requests -> {"content", "answers", "blank"}]
        /\ via' \in [Requests -> {"blocking", "stream"}]
        /\ conv' \in Conversations
    BY <1>0, <1>5 DEF Clarify, Input, TypeOK
  <2>2. CASE Reply(r, "failed")
    BY <1>5, <2>1, <2>2, ReplyTyped DEF Errors
  <2>3. CASE Goto(r, "runFull") /\ UNCHANGED Locals
    BY <1>5, <2>1, <2>3, GotoTyped DEF Steps, Locals
  <2>4. ASSUME NEW n \in RunClarificationRound(Seen(r)) \ {0},
               draft' = [draft EXCEPT ![r] = [round |-> NextRound(Seen(r)), asked |-> n]],
               Goto(r, "saveRound"), UNCHANGED <<target, history>>
        PROVE  TypeOK'
    <3>1. IsHistory(history[r])
      BY DEF TypeOK, IsHistory
    <3>2. NextRound(Seen(r)) \in 1 .. MaxRounds /\ n \in 1 .. MaxQuestionsPerRound
      BY <3>1, RoundWithinLimits
    <3> QED BY <1>5, <2>1, <2>4, <3>2, GotoTyped DEF Steps
  <2> QED BY <1>5, <2>2, <2>3, <2>4 DEF Clarify
<1>6. ASSUME NEW r \in Requests, SaveRound(r), UNCHANGED inFlight
      PROVE  TypeOK'
  <2>1. PICK res \in Attempt(SaveClarificationRound(conv, r, draft[r].round, draft[r].asked)) :
          /\ conv' = res.file
          /\ Reply(r, IF res.err = "none" THEN "questions" ELSE "failed")
    BY <1>6 DEF SaveRound
  <2>2. draft[r].round \in Nat /\ draft[r].asked \in Nat
    BY DEF TypeOK
  <2>3. conv' \in Conversations
    BY <1>0, <2>1, <2>2, MessageMethodsTyped, AttemptTyped
  <2>4. /\ kind' \in [Requests -> {"content", "answers", "blank"}]
        /\ via' \in [Requests -> {"blocking", "stream"}]
    BY <1>6 DEF SaveRound, Input, TypeOK
  <2> QED BY <1>6, <2>1, <2>3, <2>4, ReplyTyped DEF Errors
<1>7. ASSUME NEW r \in Requests, RunFull(r), UNCHANGED inFlight
      PROVE  TypeOK'
  <2>1. /\ kind' \in [Requests -> {"content", "answers", "blank"}]
        /\ via' \in [Requests -> {"blocking", "stream"}]
        /\ conv' \in Conversations
    BY <1>0, <1>7 DEF RunFull, Input, TypeOK
  <2>2. CASE Reply(r, "failed")
    BY <1>7, <2>1, <2>2, ReplyTyped DEF Errors
  <2>3. CASE Goto(r, "saveAssistant") /\ UNCHANGED Locals
    BY <1>7, <2>1, <2>3, GotoTyped DEF Steps, Locals
  <2> QED BY <1>7, <2>2, <2>3 DEF RunFull
<1>8. ASSUME NEW r \in Requests, SaveAssistant(r), UNCHANGED inFlight
      PROVE  TypeOK'
  <2>1. PICK res \in Attempt(SaveAssistantMessage(conv, r)) :
          /\ conv' = res.file
          /\ IF res.err = "none"
             THEN /\ Goto(r, IF via[r] = "stream" THEN "close" ELSE "saveTitle")
                  /\ UNCHANGED Locals
             ELSE Reply(r, "failed")
    BY <1>8 DEF SaveAssistant
  <2>2. /\ kind' \in [Requests -> {"content", "answers", "blank"}]
        /\ via' \in [Requests -> {"blocking", "stream"}]
        /\ conv' \in Conversations
    BY <1>0, <1>8, <2>1, MessageMethodsTyped, AttemptTyped DEF SaveAssistant, Input, TypeOK
  <2>3. CASE \E w \in {"close", "saveTitle"} : Goto(r, w) /\ UNCHANGED Locals
    BY <1>8, <2>2, <2>3, GotoTyped DEF Steps, Locals
  <2>4. CASE Reply(r, "failed")
    BY <1>8, <2>2, <2>4, ReplyTyped DEF Errors
  <2> QED BY <2>1, <2>3, <2>4
<1>9. ASSUME NEW r \in Requests, Close(r), UNCHANGED inFlight
      PROVE  TypeOK'
  <2>1. /\ kind' \in [Requests -> {"content", "answers", "blank"}]
        /\ via' \in [Requests -> {"blocking", "stream"}]
        /\ conv' \in Conversations
    BY <1>0, <1>9, FlagMethodsTyped, AttemptTyped DEF Close, Input, TypeOK
  <2> QED BY <1>9, <2>1, GotoTyped DEF Close, Steps, Locals
<1>10. ASSUME NEW r \in Requests, SetTitle(r), UNCHANGED inFlight
       PROVE  TypeOK'
  <2>1. /\ kind' \in [Requests -> {"content", "answers", "blank"}]
        /\ via' \in [Requests -> {"blocking", "stream"}]
    BY <1>10 DEF SetTitle, Input, TypeOK
  <2>2. conv' \in Conversations
    BY <1>0, <1>10, FlagMethodsTyped, AttemptTyped DEF SetTitle
  <2> QED BY <1>10, <2>1, <2>2, ReplyTyped DEF SetTitle, Errors
<1>11. ASSUME NEW r \in Requests, Lost(r), UNCHANGED inFlight
       PROVE  TypeOK'
  <2>1. /\ kind' \in [Requests -> {"content", "answers", "blank"}]
        /\ via' \in [Requests -> {"blocking", "stream"}]
        /\ conv' \in Conversations
    BY <1>0, <1>11 DEF Lost, Input, TypeOK
  <2> QED BY <1>11, <2>1, ReplyTyped DEF Lost
<1>12. ASSUME RenameConversation \/ RemoveConversation, UNCHANGED inFlight
       PROVE  TypeOK'
  <2>1. UNCHANGED <<pc, reply, target, history, draft, kind, via>>
    BY <1>12 DEF RenameConversation, RemoveConversation, Locals, Input
  <2>2. conv' \in Conversations
    BY <1>0, <1>12, FlagMethodsTyped, AttemptTyped DEF RenameConversation, RemoveConversation
  <2> QED BY <1>12, <2>1, <2>2 DEF TypeOK
<1>13. CASE UNCHANGED vars
  BY <1>13 DEF vars, TypeOK
<1> QED
  BY <1>1, <1>2, <1>3, <1>4, <1>5, <1>6, <1>7, <1>8, <1>9, <1>10, <1>11, <1>12, <1>13
  DEF Next, Post, Proceed

(***************************************************************************)
(* Types and bounds of the requests and of the log: a round Stage 0 comes  *)
(* up with has a number within the maximum of rounds and questions within  *)
(* the maximum of a round (RunClarificationRound), whatever limits are set.*)
(***************************************************************************)
THEOREM TypeCorrect == Spec => []TypeOK
BY InitTyped, NextTyped, PTL DEF Spec

---------------------------------------------------------------------------
(***************************************************************************)
(* The effects of a step: what becomes of the log, and who moves.          *)
(***************************************************************************)
Still == conv'.messages = conv.messages /\ conv'.exists = conv.exists

Appended(m) ==
  conv.exists /\ conv'.exists /\ conv'.messages = Append(conv.messages, m)

Answered(r) ==
  /\ conv.exists /\ conv'.exists
  /\ Rounds(conv, target[r]) # {}
  /\ conv'.messages = [conv.messages EXCEPT ![Max(Rounds(conv, target[r]))].answers = r]

Gone == ~conv'.exists /\ conv'.messages = <<>>

\* A request is let in while fewer than inFlight of them are running.
LetIn(r) == pc[r] = "idle" /\ Cardinality({q \in Requests : Running(q)}) < inFlight

\* Nobody but r moves.
Alone(r) ==
  \A q \in Requests : q # r => /\ pc'[q] = pc[q] /\ kind'[q] = kind[q]
                               /\ target'[q] = target[q]
                               /\ history'[q] = history[q]
                               /\ draft'[q] = draft[q]

Moves(r) ==
  \/ LetIn(r) /\ pc'[r] \in {"runFull", "clarify"} /\ kind'[r] = "content"
              /\ Appended(UserMessage(r))
  \/ LetIn(r) /\ pc'[r] = "saveAnswers" /\ kind'[r] \in {"answers", "blank"}
              /\ conv.exists /\ Still
              /\ \E round \in GetLastClarificationRound(conv) :
                   round.answers = NoAnswers /\ target'[r] = round.round
  \/ pc[r] = "saveAnswers" /\ pc'[r] = "readHistory" /\ kind'[r] = kind[r] /\ Answered(r)
  \/ pc[r] = "readHistory" /\ pc'[r] = "clarify" /\ kind'[r] = kind[r] /\ Still
              /\ history'[r] = HistoryFor(r, conv)
  \/ pc[r] = "clarify" /\ pc'[r] = "runFull" /\ kind'[r] = kind[r] /\ Still
  \/ pc[r] = "clarify" /\ pc'[r] = "saveRound" /\ kind'[r] = kind[r] /\ Still
              /\ \E n \in RunClarificationRound(Seen(r)) \ {0} :
                   draft'[r] = [round |-> NextRound(Seen(r)), asked |-> n]
  \/ pc[r] = "saveRound" /\ pc'[r] = "done" /\ kind'[r] = kind[r]
              /\ Appended(ClarificationMessage(r, draft[r].round, draft[r].asked))
  \/ pc[r] = "runFull" /\ pc'[r] = "saveAssistant" /\ kind'[r] = kind[r] /\ Still
  \/ pc[r] = "saveAssistant" /\ pc'[r] \in {"close", "saveTitle"} /\ kind'[r] = kind[r]
              /\ Appended(AssistantMessage(r))
  \/ pc[r] = "close" /\ pc'[r] = "saveTitle" /\ kind'[r] = kind[r] /\ Still
  \/ LetIn(r) /\ pc'[r] = "done" /\ Still
  \/ Running(r) /\ pc'[r] = "done" /\ kind'[r] = kind[r] /\ Still

Effect ==
  \/ \E r \in Requests : Alone(r) /\ Moves(r)
  \/ UNCHANGED <<pc, kind, target, history, draft>> /\ (Still \/ Gone)

\* A request that ends, or goes on, is the only one that moves.
LEMMA ReplyAlone ==
  ASSUME TypeOK, NEW r \in Requests, NEW what, Reply(r, what),
         \A q \in Requests : q # r => kind'[q] = kind[q]
  PROVE  Alone(r) /\ pc'[r] = "done"
BY DEF Reply, Alone, TypeOK

\* A request that goes on to its next step is the only one that does.
LEMMA GotoAlone ==
  ASSUME TypeOK, NEW r \in Requests, NEW w, Goto(r, w),
         \A q \in Requests : q # r => /\ kind'[q] = kind[q] /\ target'[q] = target[q]
                                      /\ history'[q] = history[q] /\ draft'[q] = draft[q]
  PROVE  Alone(r) /\ pc'[r] = w
BY DEF Goto, Alone, TypeOK

\* A request that arrives.
LEMMA Arrival ==
  ASSUME TypeOK, NEW r \in Requests, NEW k, NEW v, Arrives(r, k, v)
  PROVE  /\ LetIn(r) /\ kind'[r] = k
         /\ \A q \in Requests : q # r => kind'[q] = kind[q]
BY DEF Arrives, LetIn, TypeOK

\* A method of the store that succeeds writes what it is for, and one that
\* fails writes nothing.
LEMMA UserSaved ==
  ASSUME TypeOK, NEW r \in Requests,
         NEW res \in Attempt(SaveUserMessage(conv, r)), conv' = res.file
  PROVE  IF res.err = "none" THEN Appended(UserMessage(r)) ELSE Still
<1>1. conv \in Conversations
  BY DEF TypeOK
<1> QED
  BY <1>1 DEF Conversations, Attempt, SaveUserMessage, Update, Written, Refused, Appended, Still

\* The answer of the council, likewise.
LEMMA AssistantSaved ==
  ASSUME TypeOK, NEW r \in Requests,
         NEW res \in Attempt(SaveAssistantMessage(conv, r)), conv' = res.file
  PROVE  IF res.err = "none" THEN Appended(AssistantMessage(r)) ELSE Still
<1>1. conv \in Conversations
  BY DEF TypeOK
<1> QED
  BY <1>1
  DEF Conversations, Attempt, SaveAssistantMessage, Update, Written, Refused, Appended, Still

\* A round of questions, likewise.
LEMMA RoundSaved ==
  ASSUME TypeOK, NEW r \in Requests, NEW n, NEW q,
         NEW res \in Attempt(SaveClarificationRound(conv, r, n, q)), conv' = res.file
  PROVE  IF res.err = "none" THEN Appended(ClarificationMessage(r, n, q)) ELSE Still
<1>1. conv \in Conversations
  BY DEF TypeOK
<1> QED
  BY <1>1
  DEF Conversations, Attempt, SaveClarificationRound, Update, Written, Refused, Appended, Still

\* Answers are written to the last round of the number, or not at all.
LEMMA AnswersSaved ==
  ASSUME TypeOK, NEW r \in Requests,
         NEW res \in Attempt(UpdateClarificationAnswers(conv, r, target[r])), conv' = res.file
  PROVE  IF res.err = "none" THEN Answered(r) ELSE Still
<1>1. conv \in Conversations
  BY DEF TypeOK
<1>2. CASE /\ conv.exists /\ ~conv.closed /\ Rounds(conv, target[r]) # {}
           /\ res = UpdateClarificationAnswers(conv, r, target[r])
  <2> DEFINE k == Max(Rounds(conv, target[r]))
  <2>1. res = Written([conv EXCEPT !.messages[k].answers = r])
    BY <1>2 DEF UpdateClarificationAnswers, Update
  <2> HIDE DEF k
  <2>2. /\ res.file.messages = [conv.messages EXCEPT ![k].answers = r]
        /\ res.file.exists /\ res.err = "none"
    BY <1>1, <1>2, <2>1 DEF Conversations, Written
  <2> QED BY <1>2, <2>2 DEF Answered, k
<1>3. CASE ~(/\ conv.exists /\ ~conv.closed /\ Rounds(conv, target[r]) # {}
             /\ res = UpdateClarificationAnswers(conv, r, target[r]))
  BY <1>1, <1>3 DEF Attempt, UpdateClarificationAnswers, Update, Refused, Still
<1> QED BY <1>2, <1>3

\* Closing and renaming leave the log as it is.
LEMMA FlagSaved ==
  ASSUME TypeOK, NEW result,
         \/ result = CloseConversation(conv)
         \/ \E t : result = SaveTitle(conv, t),
         NEW res \in Attempt(result), conv' = res.file
  PROVE  Still
<1>1. conv \in Conversations
  BY DEF TypeOK
<1> QED
  BY <1>1 DEF Conversations, Attempt, CloseConversation, SaveTitle, Update, Written, Refused, Still

\* A deleted conversation is gone with its log.
LEMMA Deleted ==
  ASSUME TypeOK, NEW res \in Attempt(DeleteConversation(conv)), conv' = res.file
  PROVE  Still \/ Gone
BY DEF Attempt, DeleteConversation, Update, Written, Refused, Still, Gone, NoConversation

\* Every step is of one of these kinds.
LEMMA StepEffects ==
  ASSUME TypeOK, [Next]_vars
  PROVE  Effect
<1>1. ASSUME NEW r \in Requests, NEW v, PostContent(r, v)
      PROVE  Alone(r) /\ Moves(r)
  <2>1. PICK res \in Attempt(SaveUserMessage(conv, r)) :
          /\ conv' = res.file
          /\ IF res.err = "none"
             THEN /\ Goto(r, IF MaxRounds = 0 THEN "runFull" ELSE "clarify")
                  /\ UNCHANGED Locals
             ELSE Reply(r, IF res.err \in {"closed", "notFound"} THEN res.err ELSE "failed")
    BY <1>1 DEF PostContent
  <2>2. /\ LetIn(r) /\ kind'[r] = "content"
        /\ \A q \in Requests : q # r => kind'[q] = kind[q]
    BY <1>1, Arrival DEF PostContent
  <2>3. IF res.err = "none" THEN Appended(UserMessage(r)) ELSE Still
    BY <2>1, UserSaved
  <2>4. CASE res.err = "none"
    <3>1. Alone(r) /\ pc'[r] \in {"runFull", "clarify"}
      BY <2>1, <2>2, <2>4, GotoAlone DEF Locals
    <3> QED BY <2>2, <2>3, <2>4, <3>1 DEF Moves
  <2>5. CASE res.err # "none"
    <3>1. Alone(r) /\ pc'[r] = "done"
      BY <2>1, <2>2, <2>5, ReplyAlone
    <3> QED BY <2>2, <2>3, <2>5, <3>1 DEF Moves
  <2> QED BY <2>4, <2>5
<1>2. ASSUME NEW r \in Requests, NEW v, NEW k \in {"answers", "blank"}, PostAnswers(r, v, k)
      PROVE  Alone(r) /\ Moves(r)
  <2>1. /\ LetIn(r) /\ kind'[r] = k
        /\ \A q \in Requests : q # r => kind'[q] = kind[q]
        /\ Still
    BY <1>2, Arrival DEF PostAnswers, Still
  <2>2. CASE \E what : Reply(r, what)
    <3>1. Alone(r) /\ pc'[r] = "done"
      BY <2>1, <2>2, ReplyAlone
    <3> QED BY <2>1, <3>1 DEF Moves
  <2>3. ASSUME NEW round \in GetLastClarificationRound(conv), round.answers = NoAnswers,
               target' = [target EXCEPT ![r] = round.round],
               Goto(r, "saveAnswers"), UNCHANGED <<history, draft>>, conv.exists
        PROVE  Alone(r) /\ Moves(r)
    <3>1. target'[r] = round.round /\ \A q \in Requests : q # r => target'[q] = target[q]
      BY <2>3 DEF TypeOK
    <3>2. Alone(r) /\ pc'[r] = "saveAnswers"
      BY <2>1, <2>3, <3>1, GotoAlone
    <3> QED BY <2>1, <2>3, <3>1, <3>2 DEF Moves
  <2> QED BY <1>2, <2>2, <2>3 DEF PostAnswers
<1>3. ASSUME NEW r \in Requests, SaveAnswers(r)
      PROVE  Alone(r) /\ Moves(r)
  <2>1. PICK res \in Attempt(UpdateClarificationAnswers(conv, r, target[r])) :
          /\ conv' = res.file
          /\ IF res.err = "none"
             THEN Goto(r, "readHistory") /\ UNCHANGED Locals
             ELSE Reply(r, IF res.err = "closed" THEN "closed" ELSE "failed")
    BY <1>3 DEF SaveAnswers
  <2>2. pc[r] = "saveAnswers" /\ Running(r) /\ kind' = kind
    BY <1>3 DEF SaveAnswers, Running, Ended, Input
  <2>3. IF res.err = "none" THEN Answered(r) ELSE Still
    BY <2>1, AnswersSaved
  <2>4. CASE res.err = "none"
    <3>1. Alone(r) /\ pc'[r] = "readHistory"
      BY <2>1, <2>2, <2>4, GotoAlone DEF Locals
    <3> QED BY <2>2, <2>3, <2>4, <3>1 DEF Moves
  <2>5. CASE res.err # "none"
    <3>1. Alone(r) /\ pc'[r] = "done"
      BY <2>1, <2>2, <2>5, ReplyAlone
    <3> QED BY <2>2, <2>3, <2>5, <3>1 DEF Moves
  <2> QED BY <2>4, <2>5
<1>4. ASSUME NEW r \in Requests, ReadHistory(r)
      PROVE  Alone(r) /\ Moves(r)
  <2>1. pc[r] = "readHistory" /\ Running(r) /\ kind' = kind /\ Still
    BY <1>4 DEF ReadHistory, Running, Ended, Input, Still
  <2>2. CASE Reply(r, "failed")
    <3>1. Alone(r) /\ pc'[r] = "done"
      BY <2>1, <2>2, ReplyAlone
    <3> QED BY <2>1, <3>1 DEF Moves
  <2>3. CASE /\ history' = [history EXCEPT ![r] = HistoryFor(r, conv)]
             /\ Goto(r, "clarify")
             /\ UNCHANGED <<target, draft>>
    <3>1. /\ history'[r] = HistoryFor(r, conv)
          /\ \A q \in Requests : q # r => history'[q] = history[q]
      BY <2>3 DEF TypeOK
    <3>2. Alone(r) /\ pc'[r] = "clarify"
      BY <2>1, <2>3, <3>1, GotoAlone
    <3> QED BY <2>1, <3>1, <3>2 DEF Moves
  <2> QED BY <1>4, <2>2, <2>3 DEF ReadHistory
<1>5. ASSUME NEW r \in Requests, Clarify(r)
      PROVE  Alone(r) /\ Moves(r)
  <2>1. pc[r] = "clarify" /\ Running(r) /\ kind' = kind /\ Still
    BY <1>5 DEF Clarify, Running, Ended, Input, Still
  <2>2. CASE Reply(r, "failed")
    <3>1. Alone(r) /\ pc'[r] = "done"
      BY <2>1, <2>2, ReplyAlone
    <3> QED BY <2>1, <3>1 DEF Moves
  <2>3. CASE Goto(r, "runFull") /\ UNCHANGED Locals
    <3>1. Alone(r) /\ pc'[r] = "runFull"
      BY <2>1, <2>3, GotoAlone DEF Locals
    <3> QED BY <2>1, <3>1 DEF Moves
  <2>4. ASSUME NEW n \in RunClarificationRound(Seen(r)) \ {0},
               draft' = [draft EXCEPT ![r] = [round |-> NextRound(Seen(r)), asked |-> n]],
               Goto(r, "saveRound"), UNCHANGED <<target, history>>
        PROVE  Alone(r) /\ Moves(r)
    <3>1. /\ draft'[r] = [round |-> NextRound(Seen(r)), asked |-> n]
          /\ \A q \in Requests : q # r => draft'[q] = draft[q]
      BY <2>4 DEF TypeOK
    <3>2. Alone(r) /\ pc'[r] = "saveRound"
      BY <2>1, <2>4, <3>1, GotoAlone
    <3> QED BY <2>1, <2>4, <3>1, <3>2 DEF Moves
  <2> QED BY <1>5, <2>2, <2>3, <2>4 DEF Clarify
<1>6. ASSUME NEW r \in Requests, SaveRound(r)
      PROVE  Alone(r) /\ Moves(r)
  <2>1. PICK res \in Attempt(SaveClarificationRound(conv, r, draft[r].round, draft[r].asked)) :
          /\ conv' = res.file
          /\ Reply(r, IF res.err = "none" THEN "questions" ELSE "failed")
    BY <1>6 DEF SaveRound
  <2>2. pc[r] = "saveRound" /\ Running(r) /\ kind' = kind
    BY <1>6 DEF SaveRound, Running, Ended, Input
  <2>3. IF res.err = "none"
        THEN Appended(ClarificationMessage(r, draft[r].round, draft[r].asked)) ELSE Still
    BY <2>1, RoundSaved
  <2>4. Alone(r) /\ pc'[r] = "done"
    BY <2>1, <2>2, ReplyAlone
  <2> QED BY <2>2, <2>3, <2>4 DEF Moves
<1>7. ASSUME NEW r \in Requests, RunFull(r)
      PROVE  Alone(r) /\ Moves(r)
  <2>1. pc[r] = "runFull" /\ Running(r) /\ kind' = kind /\ Still
    BY <1>7 DEF RunFull, Running, Ended, Input, Still
  <2>2. CASE Reply(r, "failed")
    <3>1. Alone(r) /\ pc'[r] = "done"
      BY <2>1, <2>2, ReplyAlone
    <3> QED BY <2>1, <3>1 DEF Moves
  <2>3. CASE Goto(r, "saveAssistant") /\ UNCHANGED Locals
    <3>1. Alone(r) /\ pc'[r] = "saveAssistant"
      BY <2>1, <2>3, GotoAlone DEF Locals
    <3> QED BY <2>1, <3>1 DEF Moves
  <2> QED BY <1>7, <2>2, <2>3 DEF RunFull
<1>8. ASSUME NEW r \in Requests, SaveAssistant(r)
      PROVE  Alone(r) /\ Moves(r)
  <2>1. PICK res \in Attempt(SaveAssistantMessage(conv, r)) :
          /\ conv' = res.file
          /\ IF res.err = "none"
             THEN /\ Goto(r, IF via[r] = "stream" THEN "close" ELSE "saveTitle")
                  /\ UNCHANGED Locals
             ELSE Reply(r, "failed")
    BY <1>8 DEF SaveAssistant
  <2>2. pc[r] = "saveAssistant" /\ Running(r) /\ kind' = kind
    BY <1>8 DEF SaveAssistant, Running, Ended, Input
  <2>3. IF res.err = "none" THEN Appended(AssistantMessage(r)) ELSE Still
    BY <2>1, AssistantSaved
  <2>4. CASE res.err = "none"
    <3>1. Alone(r) /\ pc'[r] \in {"close", "saveTitle"}
      BY <2>1, <2>2, <2>4, GotoAlone DEF Locals
    <3> QED BY <2>2, <2>3, <2>4, <3>1 DEF Moves
  <2>5. CASE res.err # "none"
    <3>1. Alone(r) /\ pc'[r] = "done"
      BY <2>1, <2>2, <2>5, ReplyAlone
    <3> QED BY <2>2, <2>3, <2>5, <3>1 DEF Moves
  <2> QED BY <2>4, <2>5
<1>9. ASSUME NEW r \in Requests, Close(r)
      PROVE  Alone(r) /\ Moves(r)
  <2>1. pc[r] = "close" /\ kind' = kind /\ Still
    BY <1>9, FlagSaved DEF Close, Input
  <2>2. Alone(r) /\ pc'[r] = "saveTitle"
    BY <1>9, GotoAlone DEF Close, Locals, Input
  <2> QED BY <2>1, <2>2 DEF Moves
<1>10. ASSUME NEW r \in Requests, SetTitle(r)
       PROVE  Alone(r) /\ Moves(r)
  <2>1. Running(r) /\ kind' = kind
    BY <1>10 DEF SetTitle, Running, Ended, Input
  <2>2. Still
    <3>1. CASE \E res \in Attempt(SaveTitle(conv, "generated")) : conv' = res.file
      BY <3>1, FlagSaved
    <3>2. CASE UNCHANGED conv
      BY <3>2 DEF Still
    <3> QED BY <1>10, <3>1, <3>2 DEF SetTitle
  <2>3. Alone(r) /\ pc'[r] = "done"
    BY <1>10, <2>1, ReplyAlone DEF SetTitle
  <2> QED BY <2>1, <2>2, <2>3 DEF Moves
<1>11. ASSUME NEW r \in Requests, Lost(r)
       PROVE  Alone(r) /\ Moves(r)
  <2>1. Running(r) /\ kind' = kind /\ Still
    BY <1>11 DEF Lost, Input, Still
  <2>2. Alone(r) /\ pc'[r] = "done"
    BY <1>11, <2>1, ReplyAlone DEF Lost
  <2> QED BY <2>1, <2>2 DEF Moves
<1>12. CASE RenameConversation \/ RemoveConversation
  <2>1. UNCHANGED <<pc, kind, target, history, draft>>
    BY <1>12 DEF RenameConversation, RemoveConversation, Locals, Input
  <2>2. Still \/ Gone
    BY <1>12, FlagSaved, Deleted DEF RenameConversation, RemoveConversation
  <2> QED BY <2>1, <2>2 DEF Effect
<1>13. CASE UNCHANGED vars
  BY <1>13 DEF vars, Effect, Still
<1> QED
  BY <1>1, <1>2, <1>3, <1>4, <1>5, <1>6, <1>7, <1>8, <1>9, <1>10, <1>11, <1>12, <1>13
  DEF Next, Post, Proceed, Effect

\* The log after an append, and after answers were written.
LEMMA AppendedLog ==
  ASSUME TypeOK, NEW m, Appended(m)
  PROVE  /\ Len(conv.messages) \in Nat /\ DOMAIN conv.messages = 1 .. Len(conv.messages)
         /\ DOMAIN conv'.messages = 1 .. Len(conv.messages) + 1
         /\ \A i \in DOMAIN conv.messages : conv'.messages[i] = conv.messages[i]
         /\ conv'.messages[Len(conv.messages) + 1] = m
<1>1. /\ conv.messages \in Seq(Messages \cup {m}) /\ m \in Messages \cup {m}
      /\ conv.messages \in Seq(Messages)
  BY DEF TypeOK, Conversations
<1>2. conv'.messages = Append(conv.messages, m)
  BY DEF Appended
<1>3. Len(conv.messages) \in Nat /\ DOMAIN conv.messages = 1 .. Len(conv.messages)
  BY <1>1
<1>4. /\ Append(conv.messages, m) \in Seq(Messages \cup {m})
      /\ Len(Append(conv.messages, m)) = Len(conv.messages) + 1
      /\ \A i \in 1 .. Len(conv.messages) : Append(conv.messages, m)[i] = conv.messages[i]
      /\ Append(conv.messages, m)[Len(conv.messages) + 1] = m
  BY <1>1, AppendProperties
<1>5. DOMAIN Append(conv.messages, m) = 1 .. Len(conv.messages) + 1
  BY <1>4, LenProperties
<1> QED BY <1>2, <1>3, <1>4, <1>5

\* Answering a round changes the answers of that round and nothing else.
LEMMA AnsweredLog ==
  ASSUME TypeOK, NEW r \in Requests, Answered(r)
  PROVE  /\ DOMAIN conv'.messages = DOMAIN conv.messages
         /\ Max(Rounds(conv, target[r])) \in Rounds(conv, target[r])
         /\ \A i \in Rounds(conv, target[r]) : i <= Max(Rounds(conv, target[r]))
         /\ conv'.messages[Max(Rounds(conv, target[r]))].answers = r
         /\ \A i \in DOMAIN conv.messages :
              /\ conv'.messages[i].role = conv.messages[i].role
              /\ conv'.messages[i].by = conv.messages[i].by
              /\ conv'.messages[i].asked = conv.messages[i].asked
              /\ i # Max(Rounds(conv, target[r])) =>
                   conv'.messages[i].answers = conv.messages[i].answers
<1> DEFINE R == Rounds(conv, target[r])
           k == Max(Rounds(conv, target[r]))
<1>1. /\ conv \in Conversations
      /\ DOMAIN conv.messages = 1 .. Len(conv.messages) /\ Len(conv.messages) \in Int
      /\ \A i \in DOMAIN conv.messages : conv.messages[i] \in Messages
      /\ R \in SUBSET (1 .. Len(conv.messages))
  BY LogPositions DEF TypeOK, Rounds
<1>2. k \in R /\ \A i \in R : k >= i
  BY <1>1, LastPosition DEF Answered
<1>3. \A i \in R : i <= k
  BY <1>1, <1>2
<1>4. conv'.messages = [conv.messages EXCEPT ![k].answers = r]
  BY DEF Answered
<1>5. k \in DOMAIN conv.messages
  BY <1>1, <1>2
<1> HIDE DEF k, R
<1>6. /\ DOMAIN conv'.messages = DOMAIN conv.messages
      /\ conv'.messages[k] = [conv.messages[k] EXCEPT !.answers = r]
      /\ \A i \in DOMAIN conv.messages : i # k => conv'.messages[i] = conv.messages[i]
  BY <1>4, <1>5
<1>7. /\ conv'.messages[k].answers = r
      /\ conv'.messages[k].role = conv.messages[k].role
      /\ conv'.messages[k].by = conv.messages[k].by
      /\ conv'.messages[k].asked = conv.messages[k].asked
  BY <1>1, <1>5, <1>6 DEF Messages
<1>8. /\ DOMAIN conv'.messages = DOMAIN conv.messages
      /\ k \in R /\ \A i \in R : i <= k
      /\ conv'.messages[k].answers = r
      /\ \A i \in DOMAIN conv.messages :
              /\ conv'.messages[i].role = conv.messages[i].role
              /\ conv'.messages[i].by = conv.messages[i].by
              /\ conv'.messages[i].asked = conv.messages[i].asked
              /\ i # k => conv'.messages[i].answers = conv.messages[i].answers
  BY <1>2, <1>3, <1>6, <1>7
<1> QED BY <1>8 DEF k, R

---------------------------------------------------------------------------
(***************************************************************************)
(* An answer stands after its input: the message of its request, or some   *)
(* round that has been answered.                                           *)
(***************************************************************************)
HasInput(r, n) ==
  \E j \in DOMAIN conv.messages :
    /\ j <= n
    /\ IF kind[r] = "content"
       THEN conv.messages[j].role = "user" /\ conv.messages[j].by = r
       ELSE conv.messages[j].role = "clarification" /\ conv.messages[j].answers # NoAnswers

\* A deleted conversation holds nothing,
Emptied == ~conv.exists => conv.messages = <<>>

\* nobody answers before it has been asked,
Unanswered == \A r \in Requests : pc[r] = "idle" => Entries("assistant", r) = {}

\* only answers are submitted to a round,
Submits == \A r \in Requests : pc[r] \in {"saveAnswers", "readHistory"} => kind[r] # "content"

\* and the input is in the log before Stage 0 or the council sees it.
InputSaved ==
  \A r \in Requests :
    conv.exists /\ pc[r] \in {"readHistory", "clarify", "runFull", "saveAssistant"}
    => HasInput(r, Len(conv.messages))

AnswersPlaced ==
  \A r \in Requests : \A i \in Entries("assistant", r) : HasInput(r, i - 1)

FollowInv == TypeOK /\ Emptied /\ Unanswered /\ Submits /\ InputSaved /\ AnswersPlaced

\* The log is emptied, or keeps all it has and gets one message at most.
LogKept ==
  /\ conv'.exists => conv.exists
  /\ Len(conv.messages) <= Len(conv'.messages)
  /\ \A i \in DOMAIN conv.messages :
       /\ i \in DOMAIN conv'.messages
       /\ conv'.messages[i].role = conv.messages[i].role
       /\ conv'.messages[i].by = conv.messages[i].by
       /\ conv.messages[i].answers # NoAnswers => conv'.messages[i].answers # NoAnswers

\* Unless the conversation is deleted, a step keeps the log (LogKept).
LEMMA LogIsKept ==
  ASSUME TypeOK, Effect
  PROVE  Gone \/ LogKept
<1>1. Len(conv.messages) \in Nat /\ DOMAIN conv.messages = 1 .. Len(conv.messages)
  BY LogPositions DEF TypeOK
<1>2. CASE Still
  BY <1>1, <1>2 DEF Still, LogKept
<1>3. ASSUME NEW m, Appended(m)
      PROVE  LogKept
  <2>1. /\ DOMAIN conv'.messages = 1 .. Len(conv.messages) + 1
        /\ \A i \in DOMAIN conv.messages : conv'.messages[i] = conv.messages[i]
    BY <1>3, AppendedLog
  <2>2. Len(conv'.messages) = Len(conv.messages) + 1
    <3>1. conv'.messages = Append(conv.messages, m) /\ conv.messages \in Seq(Messages)
      BY <1>3 DEF Appended, TypeOK, Conversations
    <3> QED BY <3>1, <2>1
  <2> QED BY <1>1, <1>3, <2>1, <2>2 DEF LogKept, Appended
<1>4. ASSUME NEW r \in Requests, Answered(r)
      PROVE  LogKept
  <2>1. /\ DOMAIN conv'.messages = DOMAIN conv.messages
        /\ conv'.messages[Max(Rounds(conv, target[r]))].answers # NoAnswers
        /\ \A i \in DOMAIN conv.messages :
             /\ conv'.messages[i].role = conv.messages[i].role
             /\ conv'.messages[i].by = conv.messages[i].by
             /\ i # Max(Rounds(conv, target[r])) =>
                  conv'.messages[i].answers = conv.messages[i].answers
    BY <1>4, AnsweredLog, StoreAssumption
  <2>2. Len(conv'.messages) = Len(conv.messages)
    BY <1>4, <1>1, <2>1 DEF Answered, TypeOK, Conversations
  <2> QED BY <1>1, <1>4, <2>1, <2>2 DEF LogKept, Answered
<1> QED BY <1>2, <1>3, <1>4 DEF Effect, Moves

\* Who has input keeps it.
LEMMA InputLasts ==
  ASSUME TypeOK, LogKept, NEW r \in Requests, kind'[r] = kind[r], NEW n, HasInput(r, n)
  PROVE  HasInput(r, n)'
BY DEF LogKept, HasInput

\* An answer in the log was there before, or its request has just saved it.
LEMMA AnswersInLog ==
  ASSUME TypeOK, Effect, LogKept, NEW r \in Requests, NEW i \in Entries("assistant", r)'
  PROVE  \/ i \in Entries("assistant", r)
         \/ /\ pc[r] = "saveAssistant" /\ kind'[r] = kind[r] /\ conv.exists
            /\ i = Len(conv.messages) + 1
<1>1. /\ i \in DOMAIN conv'.messages
      /\ conv'.messages[i].role = "assistant" /\ conv'.messages[i].by = r
  BY DEF Entries
<1>2. CASE i \in DOMAIN conv.messages
  BY <1>1, <1>2 DEF LogKept, Entries
<1>3. CASE i \notin DOMAIN conv.messages
  <2>1. ASSUME NEW m, Appended(m)
        PROVE  i = Len(conv.messages) + 1 /\ conv'.messages[i] = m
    BY <1>1, <1>3, <2>1, AppendedLog
  <2>2. ~Still /\ \A q \in Requests : ~Answered(q)
    BY <1>1, <1>3, AnsweredLog DEF Still
  <2>3. ~Gone
    BY <1>1 DEF Gone
  <2>4. PICK q \in Requests : Alone(q) /\ Moves(q)
    BY <2>2, <2>3 DEF Effect
  <2>5. ~Appended(UserMessage(q))
    BY <1>1, <2>1 DEF UserMessage
  <2>6. \A n, asked : ~Appended(ClarificationMessage(q, n, asked))
    BY <1>1, <2>1 DEF ClarificationMessage
  <2>7. pc[q] = "saveAssistant" /\ kind'[q] = kind[q] /\ Appended(AssistantMessage(q))
    BY <2>2, <2>4, <2>5, <2>6 DEF Moves
  <2>8. q = r
    BY <1>1, <2>1, <2>7 DEF AssistantMessage
  <2> QED BY <2>1, <2>7, <2>8 DEF Appended
<1> QED BY <1>2, <1>3

\* Nothing has been written, and nobody is past its input.
LEMMA InitFollow == Init => FollowInv
<1> SUFFICES ASSUME Init PROVE FollowInv
  OBVIOUS
<1>1. /\ TypeOK /\ conv.exists /\ conv.messages = <<>>
      /\ \A r \in Requests : pc[r] = "idle"
  BY InitTyped DEF Init, CreateConversation, NoConversation
<1>2. \A r \in Requests : Entries("assistant", r) = {}
  BY <1>1 DEF Entries
<1> QED
  BY <1>1, <1>2 DEF FollowInv, Emptied, Unanswered, Submits, InputSaved, AnswersPlaced

\* Every step keeps the order of input and answer.
LEMMA NextFollow ==
  ASSUME FollowInv, [Next]_vars
  PROVE  FollowInv'
<1>1. TypeOK /\ TypeOK' /\ Effect
  BY NextTyped, StepEffects DEF FollowInv
<1>2. CASE Gone
  <2>1. \A r \in Requests : Entries("assistant", r)' = {}
    BY <1>2 DEF Gone, Entries
  <2>2. CASE UNCHANGED <<pc, kind, target, history, draft>>
    BY <1>1, <1>2, <2>1, <2>2
    DEF Gone, FollowInv, Emptied, Unanswered, Submits, InputSaved, AnswersPlaced
  <2>3. ASSUME NEW r \in Requests, Alone(r), Moves(r)
        PROVE  Submits'
    BY <2>3 DEF FollowInv, Submits, Alone, Moves
  <2> QED
    BY <1>1, <1>2, <2>1, <2>2, <2>3
    DEF Effect, Gone, FollowInv, Emptied, Unanswered, Submits, InputSaved, AnswersPlaced
<1>3. CASE LogKept
  <2>1. Emptied'
    BY <1>1, <1>3 DEF FollowInv, Emptied, LogKept, Effect, Moves, Still, Gone, Appended, Answered
  <2>2. Submits'
    <3>1. ASSUME NEW r \in Requests, Alone(r), Moves(r)
          PROVE  Submits'
      BY <3>1 DEF FollowInv, Submits, Alone, Moves
    <3>2. CASE UNCHANGED <<pc, kind>>
      BY <3>2 DEF FollowInv, Submits
    <3> QED BY <1>1, <3>1, <3>2 DEF Effect
  <2>3. ASSUME NEW r \in Requests, pc'[r] = "idle"
        PROVE  Entries("assistant", r)' = {}
    <3>1. pc[r] = "idle"
      BY <1>1, <2>3 DEF Effect, Alone, Moves
    <3>2. Entries("assistant", r) = {}
      BY <3>1 DEF FollowInv, Unanswered
    <3> QED BY <1>1, <1>3, <3>1, <3>2, AnswersInLog
  <2>4. ASSUME NEW r \in Requests, conv'.exists,
               pc'[r] \in {"readHistory", "clarify", "runFull", "saveAssistant"}
        PROVE  HasInput(r, Len(conv.messages))'
    <3>0. /\ Len(conv.messages) \in Nat /\ Len(conv'.messages) \in Nat
          /\ DOMAIN conv.messages = 1 .. Len(conv.messages)
          /\ DOMAIN conv'.messages = 1 .. Len(conv'.messages)
      BY <1>1, LogPositions DEF TypeOK
    <3>1. CASE /\ pc[r] \in {"readHistory", "clarify", "runFull", "saveAssistant"}
               /\ kind'[r] = kind[r]
      <4>1. HasInput(r, Len(conv.messages))
        BY <1>3, <2>4, <3>1 DEF FollowInv, InputSaved, LogKept
      <4> QED BY <1>3, <3>0, <3>1, <4>1 DEF HasInput, LogKept
    <3>2. CASE Appended(UserMessage(r)) /\ kind'[r] = "content"
      <4>1. /\ Len(conv.messages) + 1 \in DOMAIN conv'.messages
            /\ conv'.messages[Len(conv.messages) + 1] = UserMessage(r)
        BY <1>1, <3>0, <3>2, AppendedLog
      <4> QED BY <3>0, <3>2, <4>1 DEF HasInput, UserMessage
    <3>3. CASE Answered(r) /\ kind'[r] = kind[r] /\ pc[r] = "saveAnswers"
      <4> DEFINE k == Max(Rounds(conv, target[r]))
      <4>1. /\ k \in DOMAIN conv'.messages /\ conv'.messages[k].answers = r
            /\ conv'.messages[k].role = "clarification"
        BY <1>1, <3>3, AnsweredLog DEF Rounds, Clarifications
      <4>2. kind'[r] # "content" /\ r # NoAnswers
        BY <3>3, StoreAssumption DEF FollowInv, Submits
      <4> HIDE DEF k
      <4> QED BY <3>0, <4>1, <4>2 DEF HasInput
    <3> QED BY <1>1, <2>4, <3>1, <3>2, <3>3 DEF Effect, Alone, Moves
  <2>5. ASSUME NEW r \in Requests, NEW i \in Entries("assistant", r)'
        PROVE  HasInput(r, i - 1)'
    <3>1. CASE i \in Entries("assistant", r)
      <4>1. pc[r] # "idle" /\ HasInput(r, i - 1)
        BY <3>1 DEF FollowInv, Unanswered, AnswersPlaced
      <4>2. kind'[r] = kind[r]
        BY <1>1, <4>1 DEF Effect, Alone, Moves, LetIn
      <4> QED BY <1>1, <1>3, <4>1, <4>2, InputLasts
    <3>2. CASE /\ pc[r] = "saveAssistant" /\ kind'[r] = kind[r] /\ conv.exists
               /\ i = Len(conv.messages) + 1
      <4>1. PICK n \in Nat : n = Len(conv.messages)
        BY <1>1, LogPositions DEF TypeOK
      <4>2. HasInput(r, n)
        BY <3>2, <4>1 DEF FollowInv, InputSaved
      <4>3. HasInput(r, n)'
        BY <1>1, <1>3, <3>2, <4>2, InputLasts
      <4>4. i - 1 = n
        BY <3>2, <4>1
      <4> QED BY <4>3, <4>4
    <3> QED BY <1>1, <1>3, <3>1, <3>2, AnswersInLog
  <2> QED BY <1>1, <2>1, <2>2, <2>3, <2>4, <2>5
          DEF FollowInv, Unanswered, InputSaved, AnswersPlaced
<1> QED BY <1>1, <1>2, <1>3, LogIsKept

(***************************************************************************)
(* No answer stands alone: what it answers is in the log before it, in any *)
(* interleaving of requests (sendMessage and sendMessageStream save the    *)
(* message, or the answers, before Stage 0 and the council run).           *)
(***************************************************************************)
THEOREM AnswersComeAfter == Spec => []AnswersFollowInput
<1>1. FollowInv => AnswersFollowInput
  <2> SUFFICES ASSUME FollowInv, NEW r \in Requests, NEW i \in Entries("assistant", r)
               PROVE  IF kind[r] = "content"
                      THEN \E j \in Entries("user", r) : j < i
                      ELSE \E j \in 1 .. i - 1 : conv.messages[j].role = "clarification"
                                                 /\ conv.messages[j].answers # NoAnswers
    BY DEF AnswersFollowInput
  <2>1. HasInput(r, i - 1)
    BY DEF FollowInv, AnswersPlaced
  <2>2. DOMAIN conv.messages = 1 .. Len(conv.messages) /\ i \in DOMAIN conv.messages
        /\ Len(conv.messages) \in Nat
    BY LogPositions DEF FollowInv, TypeOK, Entries
  <2> QED BY <2>1, <2>2 DEF HasInput, Entries
<1> QED BY <1>1, InitFollow, NextFollow, PTL DEF Spec

---------------------------------------------------------------------------
(***************************************************************************)
(* Requests that do not overlap.  What one of them read from the log is    *)
(* still there when it acts on it: the budgets of Stage 0 are kept, and    *)
(* the answers of a round are written once.                                *)
(***************************************************************************)

\* Nobody else is running,
OneAtATime == \A q, r \in Requests : Running(q) /\ Running(r) => q = r

\* the round to be answered is the last one, and pending,
Pending(r) ==
  /\ Clarifications(conv) # {}
  /\ conv.messages[Max(Clarifications(conv))].round = target[r]
  /\ conv.messages[Max(Clarifications(conv))].answers = NoAnswers

\* the history has every round since the last message of the user,
Informed(r) ==
  \A i \in RoundsSinceUser :
    i \in DOMAIN history[r] /\ history[r][i].asked = conv.messages[i].asked

\* and there is room for the round that is about to be saved.
RoomFor(asked) ==
  /\ Cardinality(RoundsSinceUser) + 1 <= MaxRounds
  /\ Cardinality(QuestionsSinceUser) + asked <= MaxTotalQuestions

InTurn ==
  /\ OneAtATime
  /\ \A r \in Requests :
       /\ pc[r] = "saveAnswers" /\ conv.exists => Pending(r)
       /\ pc[r] = "clarify" => Informed(r)
       /\ pc[r] = "saveRound" => RoomFor(draft[r].asked)
  /\ RoundsSinceUser # {} =>
       /\ Cardinality(RoundsSinceUser) <= MaxRounds
       /\ Cardinality(QuestionsSinceUser) <= MaxTotalQuestions

TurnInv == TypeOK /\ (inFlight = 1 => InTurn)

\* A request is let in when nobody is running, so only one ever is.
LEMMA OneRunner ==
  ASSUME inFlight = 1, OneAtATime, NEW r \in Requests, Alone(r), Moves(r),
         NEW q \in Requests, q # r
  PROVE  ~Running(q) /\ ~Running(q)'
<1>1. pc'[q] = pc[q]
  BY DEF Alone
<1>2. ~Running(q)
  <2>1. SUFFICES ASSUME Running(q) PROVE FALSE
    OBVIOUS
  <2>2. CASE Running(r)
    BY <2>1, <2>2 DEF OneAtATime
  <2>3. CASE LetIn(r)
    <3>1. {p \in Requests : Running(p)} = {q}
      BY <2>1 DEF OneAtATime
    <3>2. Cardinality({q}) = 1
      BY FS_Singleton
    <3> QED BY <2>3, <3>1, <3>2 DEF LetIn
  <2> QED BY <2>2, <2>3 DEF Moves, Running, Ended
<1> QED BY <1>1, <1>2 DEF Running

\* Their rounds and questions, counted.
LEMMA CountsAreFinite ==
  ASSUME TypeOK
  PROVE  /\ IsFiniteSet(RoundsSinceUser) /\ Cardinality(RoundsSinceUser) \in Nat
         /\ IsFiniteSet(QuestionsSinceUser) /\ Cardinality(QuestionsSinceUser) \in Nat
         /\ RoundsSinceUser \subseteq Clarifications(conv)
         /\ \A i \in RoundsSinceUser : conv.messages[i].asked \in Nat
<1>1. /\ RoundsSinceUser \in SUBSET Clarifications(conv)
      /\ IsFiniteSet(Clarifications(conv))
      /\ \A i \in Clarifications(conv) : conv.messages[i].asked \in Nat
  BY LogPositions DEF TypeOK, RoundsSinceUser, Messages
<1>2. IsFiniteSet(RoundsSinceUser) /\ Cardinality(RoundsSinceUser) \in Nat
  BY <1>1, FS_Subset, FS_CardinalityType
<1> DEFINE h == [i \in RoundsSinceUser |-> conv.messages[i]]
<1>3. DOMAIN h = RoundsSinceUser /\ \A i \in DOMAIN h : h[i].asked \in Nat
  BY <1>1
<1>4. QuestionsSinceUser = QuestionsOf(h)
  BY DEF QuestionsSinceUser
<1> HIDE DEF h
<1>5. IsFiniteSet(QuestionsOf(h)) /\ Cardinality(QuestionsOf(h)) \in Nat
  BY <1>2, <1>3, QuestionsAreFinite
<1> QED BY <1>1, <1>2, <1>4, <1>5

\* The same as a fact about every state.
LEMMA CountsTyped ==
  TypeOK => Cardinality(RoundsSinceUser) \in Nat /\ Cardinality(QuestionsSinceUser) \in Nat
BY CountsAreFinite

\* Question j of round i.
LEMMA QuestionSinceUser ==
  \A x : x \in QuestionsSinceUser <=>
           \E i \in RoundsSinceUser : x \in {i} \X (1 .. conv.messages[i].asked)
BY DEF QuestionsSinceUser, QuestionsOf

\* The rounds that count change with the log only,
LEMMA SameRounds ==
  ASSUME DOMAIN conv'.messages = DOMAIN conv.messages,
         \A i \in DOMAIN conv.messages :
           /\ conv'.messages[i].role = conv.messages[i].role
           /\ conv'.messages[i].asked = conv.messages[i].asked
  PROVE  /\ RoundsSinceUser' = RoundsSinceUser
         /\ QuestionsSinceUser' = QuestionsSinceUser
<1>1. RoundsSinceUser' = RoundsSinceUser
  BY DEF RoundsSinceUser, Clarifications
<1>2. \A i \in RoundsSinceUser : conv'.messages[i].asked = conv.messages[i].asked
  BY DEF RoundsSinceUser, Clarifications
<1>3. \A x : x \in QuestionsSinceUser' <=>
               \E i \in RoundsSinceUser' : x \in {i} \X (1 .. conv'.messages[i].asked)
  BY DEF QuestionsSinceUser, QuestionsOf
<1>4. \A x : x \in QuestionsSinceUser' <=> x \in QuestionsSinceUser
  BY <1>1, <1>2, <1>3, QuestionSinceUser
<1>5. QuestionsSinceUser' = QuestionsSinceUser
  BY <1>4
<1> QED BY <1>1, <1>5

\* a message of the user, or a deletion, starts them afresh,
LEMMA NoRounds ==
  ASSUME TypeOK, Gone \/ \E r : Appended(UserMessage(r))
  PROVE  RoundsSinceUser' = {} /\ QuestionsSinceUser' = {}
<1>1. RoundsSinceUser' = {}
  <2>1. CASE Gone
    BY <2>1 DEF Gone, RoundsSinceUser, Clarifications
  <2>2. ASSUME NEW r, Appended(UserMessage(r))
        PROVE  RoundsSinceUser' = {}
    <3>1. /\ Len(conv.messages) \in Nat
          /\ DOMAIN conv'.messages = 1 .. Len(conv.messages) + 1
          /\ conv'.messages[Len(conv.messages) + 1] = UserMessage(r)
      BY <2>2, AppendedLog
    <3>2. \A i \in DOMAIN conv'.messages : ~(Len(conv.messages) + 1 < i)
      BY <3>1
    <3>3. /\ Len(conv.messages) + 1 \in DOMAIN conv'.messages
          /\ conv'.messages[Len(conv.messages) + 1].role = "user"
      BY <3>1 DEF UserMessage
    <3> QED BY <3>2, <3>3 DEF RoundsSinceUser, Clarifications
  <2> QED BY <2>1, <2>2
<1>2. \A x : x \in QuestionsSinceUser' <=>
               \E i \in RoundsSinceUser' : x \in {i} \X (1 .. conv'.messages[i].asked)
  BY DEF QuestionsSinceUser, QuestionsOf
<1> QED BY <1>1, <1>2

\* an answer adds none,
LEMMA AnswerAddsNone ==
  ASSUME TypeOK, NEW r, Appended(AssistantMessage(r))
  PROVE  /\ RoundsSinceUser' = RoundsSinceUser
         /\ QuestionsSinceUser' = QuestionsSinceUser
<1> DEFINE n == Len(conv.messages)
<1>1. /\ n \in Nat /\ DOMAIN conv.messages = 1 .. n
      /\ DOMAIN conv'.messages = 1 .. n + 1
      /\ \A i \in DOMAIN conv.messages : conv'.messages[i] = conv.messages[i]
      /\ conv'.messages[n + 1].role = "assistant"
  BY AppendedLog DEF AssistantMessage
<1> HIDE DEF n
<1>2. /\ \A i \in DOMAIN conv.messages : i \in DOMAIN conv'.messages
      /\ \A i \in DOMAIN conv'.messages : i \in DOMAIN conv.messages \/ i = n + 1
  BY <1>1
<1>3. RoundsSinceUser' = RoundsSinceUser
  BY <1>1, <1>2 DEF RoundsSinceUser, Clarifications
<1>4. \A i \in RoundsSinceUser : conv'.messages[i].asked = conv.messages[i].asked
  BY <1>1 DEF RoundsSinceUser, Clarifications
<1>5. \A x : x \in QuestionsSinceUser' <=>
               \E i \in RoundsSinceUser' : x \in {i} \X (1 .. conv'.messages[i].asked)
  BY DEF QuestionsSinceUser, QuestionsOf
<1>6. \A x : x \in QuestionsSinceUser' <=> x \in QuestionsSinceUser
  BY <1>3, <1>4, <1>5, QuestionSinceUser
<1>7. QuestionsSinceUser' = QuestionsSinceUser
  BY <1>6
<1> QED BY <1>3, <1>7

\* and a round adds itself and its questions.
LEMMA RoundAddsItself ==
  ASSUME TypeOK, NEW r, NEW k, NEW asked \in Nat, Appended(ClarificationMessage(r, k, asked))
  PROVE  /\ Cardinality(RoundsSinceUser') <= Cardinality(RoundsSinceUser) + 1
         /\ Cardinality(QuestionsSinceUser') <= Cardinality(QuestionsSinceUser) + asked
<1>0. PICK n \in Nat : n = Len(conv.messages)
  BY LogPositions DEF TypeOK
<1>1. /\ DOMAIN conv.messages = 1 .. n
      /\ DOMAIN conv'.messages = 1 .. n + 1
      /\ \A i \in DOMAIN conv.messages : conv'.messages[i] = conv.messages[i]
      /\ conv'.messages[n + 1].role = "clarification" /\ conv'.messages[n + 1].asked = asked
  BY <1>0, AppendedLog DEF ClarificationMessage
<1>2. /\ \A i \in DOMAIN conv.messages : i \in DOMAIN conv'.messages
      /\ \A i \in DOMAIN conv'.messages : i \in DOMAIN conv.messages \/ i = n + 1
  BY <1>1
<1>3. RoundsSinceUser' \subseteq RoundsSinceUser \cup {n + 1}
  BY <1>1, <1>2 DEF RoundsSinceUser, Clarifications
<1>4. \A x : x \in QuestionsSinceUser' <=>
               \E i \in RoundsSinceUser' : x \in {i} \X (1 .. conv'.messages[i].asked)
  BY DEF QuestionsSinceUser, QuestionsOf
<1> DEFINE new == {n + 1} \X (1 .. asked)
<1>5. QuestionsSinceUser' \subseteq QuestionsSinceUser \cup new
  <2>1. ASSUME NEW x \in QuestionsSinceUser' PROVE x \in QuestionsSinceUser \cup new
    <3>1. PICK i \in RoundsSinceUser' : x \in {i} \X (1 .. conv'.messages[i].asked)
      BY <1>4, <2>1
    <3>2. CASE i = n + 1
      BY <1>1, <3>1, <3>2
    <3>3. CASE i \in RoundsSinceUser
      <4>1. conv'.messages[i].asked = conv.messages[i].asked
        BY <1>1, <3>3 DEF RoundsSinceUser, Clarifications
      <4> QED BY <3>1, <3>3, <4>1, QuestionSinceUser
    <3> QED BY <1>3, <3>1, <3>2, <3>3
  <2> QED BY <2>1
<1>6. /\ IsFiniteSet(RoundsSinceUser) /\ Cardinality(RoundsSinceUser) \in Nat
      /\ IsFiniteSet(QuestionsSinceUser) /\ Cardinality(QuestionsSinceUser) \in Nat
  BY CountsAreFinite
<1>7. /\ IsFiniteSet(RoundsSinceUser \cup {n + 1})
      /\ Cardinality(RoundsSinceUser \cup {n + 1}) <= Cardinality(RoundsSinceUser) + 1
  <2>1. /\ IsFiniteSet(RoundsSinceUser \cup {n + 1})
        /\ Cardinality(RoundsSinceUser \cup {n + 1})
             = IF n + 1 \in RoundsSinceUser THEN Cardinality(RoundsSinceUser)
                                             ELSE Cardinality(RoundsSinceUser) + 1
    BY <1>6, FS_AddElement
  <2> QED BY <1>6, <2>1
<1>8. Cardinality(RoundsSinceUser') <= Cardinality(RoundsSinceUser \cup {n + 1})
      /\ Cardinality(RoundsSinceUser') \in Nat
  BY <1>3, <1>7, FS_Subset, FS_CardinalityType
<1>9. IsFiniteSet(new) /\ Cardinality(new) = asked
  <2>1. IsFiniteSet({n + 1}) /\ Cardinality({n + 1}) = 1
    BY FS_Singleton
  <2>2. IsFiniteSet(1 .. asked) /\ Cardinality(1 .. asked) = asked
    BY FS_Interval
  <2> DEFINE S == {n + 1}
             T == 1 .. asked
  <2>3. IsFiniteSet(S) /\ IsFiniteSet(T) /\ Cardinality(S) = 1 /\ Cardinality(T) = asked
    BY <2>1, <2>2
  <2>4. IsFiniteSet(S \X T) /\ Cardinality(S \X T) = Cardinality(S) * Cardinality(T)
    <3> HIDE DEF S, T
    <3> QED BY <2>3, FS_Product
  <2>5. Cardinality(S \X T) = 1 * asked
    BY <2>3, <2>4
  <2> QED BY <2>4, <2>5
<1> HIDE DEF new
<1>10. /\ IsFiniteSet(QuestionsSinceUser \cup new)
       /\ Cardinality(QuestionsSinceUser \cup new) <= Cardinality(QuestionsSinceUser) + asked
  <2>1. /\ IsFiniteSet(QuestionsSinceUser \cup new)
        /\ Cardinality(QuestionsSinceUser \cup new)
             = Cardinality(QuestionsSinceUser) + asked - Cardinality(QuestionsSinceUser \cap new)
    BY <1>6, <1>9, FS_Union
  <2>2. Cardinality(QuestionsSinceUser \cap new) \in Nat
    BY <1>6, FS_Subset, FS_CardinalityType
  <2> QED BY <1>6, <2>1, <2>2
<1>11. /\ Cardinality(QuestionsSinceUser') <= Cardinality(QuestionsSinceUser \cup new)
       /\ Cardinality(QuestionsSinceUser') \in Nat
  BY <1>5, <1>10, FS_Subset, FS_CardinalityType
<1>12. /\ Cardinality(RoundsSinceUser \cup {n + 1}) \in Nat
       /\ Cardinality(QuestionsSinceUser \cup new) \in Nat
  BY <1>7, <1>10, FS_CardinalityType
<1> QED BY <1>6, <1>7, <1>8, <1>10, <1>11, <1>12

\* A step leaves inFlight alone.
LEMMA SameInFlight == [Next]_vars => inFlight' = inFlight
BY DEF Next, vars

\* Nobody runs, and nothing has been asked.
LEMMA InitTurn == Init => TurnInv
<1> SUFFICES ASSUME Init PROVE TurnInv
  OBVIOUS
<1>1. TypeOK /\ conv.messages = <<>> /\ \A r \in Requests : pc[r] = "idle"
  BY InitTyped DEF Init, CreateConversation, NoConversation
<1>2. RoundsSinceUser = {}
  BY <1>1 DEF RoundsSinceUser, Clarifications
<1> QED BY <1>1, <1>2 DEF TurnInv, InTurn, OneAtATime, Running, Ended

\* What a step does to the counts.
LEMMA CountsAfter ==
  ASSUME TypeOK, Effect
  PROVE  \/ RoundsSinceUser' = {} /\ QuestionsSinceUser' = {}
         \/ RoundsSinceUser' = RoundsSinceUser /\ QuestionsSinceUser' = QuestionsSinceUser
         \/ \E r \in Requests :
              pc[r] = "saveRound" /\ Alone(r) /\ pc'[r] = "done"
              /\ Appended(ClarificationMessage(r, draft[r].round, draft[r].asked))
<1>1. CASE Still
  <2>1. conv'.messages = conv.messages
    BY <1>1 DEF Still
  <2> QED BY <2>1, SameRounds
<1>2. CASE Gone \/ \E r : Appended(UserMessage(r))
  BY <1>2, NoRounds
<1>3. CASE \E r \in Requests : Answered(r)
  BY <1>3, AnsweredLog, SameRounds
<1>4. CASE \E r \in Requests : Appended(AssistantMessage(r))
  BY <1>4, AnswerAddsNone
<1> QED BY <1>1, <1>2, <1>3, <1>4 DEF Effect, Moves

\* What r learns when it reads the log, and what Stage 0 makes of it.
LEMMA ReadsAll ==
  ASSUME TypeOK, NEW r \in Requests, Still, history'[r] = HistoryFor(r, conv)
  PROVE  Informed(r)'
<1>1. RoundsSinceUser' = RoundsSinceUser /\ conv'.messages = conv.messages
  BY SameRounds DEF Still
<1>2. \A i \in Clarifications(conv) : /\ i \in DOMAIN HistoryFor(r, conv)
                                      /\ HistoryFor(r, conv)[i].asked = conv.messages[i].asked
  BY DEF HistoryFor
<1>3. RoundsSinceUser \subseteq Clarifications(conv)
  BY DEF RoundsSinceUser
<1> QED BY <1>1, <1>2, <1>3 DEF Informed

\* A request that has seen every round asks for no more than there is room for.
LEMMA AsksWithinBudget ==
  ASSUME TypeOK, NEW r \in Requests, Informed(r),
         NEW n \in RunClarificationRound(Seen(r)) \ {0}
  PROVE  RoomFor(n)
<1>1. IsHistory(history[r])
  BY DEF TypeOK, IsHistory
<1>2. /\ NextRound(Seen(r)) <= MaxRounds /\ n \in Nat
      /\ Cardinality(QuestionsOf(Seen(r))) + n <= MaxTotalQuestions
  BY <1>1, RoundWithinLimits, ClarificationAssumption
<1>3. NextRound(Seen(r)) = Cardinality(DOMAIN history[r]) + 1
  BY <1>1, SeenRounds
<1>4. /\ IsFiniteSet(DOMAIN history[r]) /\ Cardinality(DOMAIN history[r]) \in Nat
      /\ IsFiniteSet(QuestionsOf(Seen(r))) /\ Cardinality(QuestionsOf(Seen(r))) \in Nat
  <2>1. /\ DOMAIN Seen(r) = DOMAIN history[r] /\ IsFiniteSet(DOMAIN Seen(r))
        /\ \A i \in DOMAIN Seen(r) : Seen(r)[i].asked \in Nat
    BY <1>1, SeenRounds DEF IsHistory
  <2> QED BY <2>1, QuestionsAreFinite, FS_CardinalityType
<1>5. RoundsSinceUser \in SUBSET DOMAIN history[r]
  BY DEF Informed
<1>6. QuestionsSinceUser \in SUBSET QuestionsOf(Seen(r))
  <2>1. ASSUME NEW x \in QuestionsSinceUser PROVE x \in QuestionsOf(Seen(r))
    <3>1. PICK i \in RoundsSinceUser : x \in {i} \X (1 .. conv.messages[i].asked)
      BY QuestionSinceUser
    <3>2. i \in DOMAIN Seen(r) /\ Seen(r)[i].asked = conv.messages[i].asked
      BY <1>1, SeenRounds DEF Informed
    <3> QED BY <3>1, <3>2 DEF QuestionsOf
  <2> QED BY <2>1
<1>7. /\ Cardinality(RoundsSinceUser) <= Cardinality(DOMAIN history[r])
      /\ Cardinality(QuestionsSinceUser) <= Cardinality(QuestionsOf(Seen(r)))
  BY <1>4, <1>5, <1>6, FS_Subset
<1>8. Cardinality(RoundsSinceUser) \in Nat /\ Cardinality(QuestionsSinceUser) \in Nat
  BY CountsAreFinite
<1> QED BY <1>2, <1>3, <1>4, <1>7, <1>8, ClarificationAssumption DEF RoomFor

\* The round that is answered is the last one.
LEMMA PicksTheLast ==
  ASSUME TypeOK, NEW r \in Requests, Still, NEW round \in GetLastClarificationRound(conv),
         round.answers = NoAnswers, target'[r] = round.round
  PROVE  Pending(r)'
<1>1. /\ Max(Clarifications(conv)) \in Clarifications(conv)
      /\ round = conv.messages[Max(Clarifications(conv))]
  BY LastRound DEF TypeOK
<1>2. conv'.messages = conv.messages /\ Clarifications(conv)' = Clarifications(conv)
  BY DEF Still, Clarifications
<1> QED BY <1>1, <1>2 DEF Pending

\* Every step preserves TurnInv.
LEMMA NextTurn ==
  ASSUME TurnInv, [Next]_vars
  PROVE  TurnInv'
<1>1. TypeOK /\ TypeOK' /\ Effect
  BY NextTyped, StepEffects DEF TurnInv
<1> SUFFICES ASSUME inFlight' = 1 PROVE InTurn'
  BY <1>1 DEF TurnInv
<1>2. inFlight = 1 /\ InTurn
  BY SameInFlight DEF TurnInv
<1>3. OneAtATime'
  <2>1. CASE UNCHANGED pc
    BY <1>2, <2>1 DEF InTurn, OneAtATime, Running
  <2>2. ASSUME NEW r \in Requests, Alone(r), Moves(r)
        PROVE  OneAtATime'
    BY <1>2, <2>2, OneRunner DEF InTurn, OneAtATime
  <2> QED BY <1>1, <2>1, <2>2 DEF Effect
<1>4. /\ Cardinality(RoundsSinceUser) \in Nat /\ Cardinality(RoundsSinceUser') \in Nat
      /\ Cardinality(QuestionsSinceUser) \in Nat /\ Cardinality(QuestionsSinceUser') \in Nat
  <2>1. (TypeOK => /\ Cardinality(RoundsSinceUser) \in Nat
                   /\ Cardinality(QuestionsSinceUser) \in Nat)'
    BY CountsTyped, PTL
  <2> QED BY <1>1, <2>1, CountsTyped
<1>5. RoundsSinceUser' # {} =>
       /\ Cardinality(RoundsSinceUser') <= MaxRounds
       /\ Cardinality(QuestionsSinceUser') <= MaxTotalQuestions
  <2>1. ASSUME NEW r \in Requests, pc[r] = "saveRound",
               Appended(ClarificationMessage(r, draft[r].round, draft[r].asked))
        PROVE  /\ Cardinality(RoundsSinceUser') <= MaxRounds
               /\ Cardinality(QuestionsSinceUser') <= MaxTotalQuestions
    <3>1. RoomFor(draft[r].asked)
      BY <1>2, <2>1 DEF InTurn
    <3>2. draft[r].asked \in Nat
      BY <1>1 DEF TypeOK
    <3>3. /\ Cardinality(RoundsSinceUser') <= Cardinality(RoundsSinceUser) + 1
          /\ Cardinality(QuestionsSinceUser') <= Cardinality(QuestionsSinceUser) + draft[r].asked
      BY <1>1, <2>1, <3>2, RoundAddsItself
    <3> QED BY <1>4, <3>1, <3>2, <3>3, ClarificationAssumption DEF RoomFor
  <2> QED BY <1>1, <1>2, <2>1, CountsAfter DEF InTurn
<1>6. ASSUME NEW q \in Requests, pc'[q] = "saveAnswers", conv'.exists
      PROVE  Pending(q)'
  <2>1. CASE pc[q] = "saveAnswers" /\ target'[q] = target[q] /\ Still
    <3>1. Pending(q)
      BY <1>2, <1>6, <2>1 DEF InTurn, Still
    <3>2. conv'.messages = conv.messages /\ Clarifications(conv)' = Clarifications(conv)
      BY <2>1 DEF Still, Clarifications
    <3> QED BY <2>1, <3>1, <3>2 DEF Pending
  <2>2. ASSUME NEW r \in Requests, Alone(r), Moves(r)
        PROVE  Pending(q)'
    <3>1. CASE q # r
      BY <1>2, <1>6, <2>2, <3>1, OneRunner DEF InTurn, Running, Ended
    <3>2. CASE q = r
      <4>1. PICK round \in GetLastClarificationRound(conv) :
              round.answers = NoAnswers /\ target'[r] = round.round /\ Still
        BY <1>6, <2>2, <3>2 DEF Moves
      <4> QED BY <1>1, <3>2, <4>1, PicksTheLast
    <3> QED BY <3>1, <3>2
  <2> QED BY <1>1, <1>6, <2>1, <2>2 DEF Effect, Gone
<1>7. ASSUME NEW q \in Requests, pc'[q] = "clarify"
      PROVE  Informed(q)'
  <2>1. CASE RoundsSinceUser' = {}
    BY <2>1 DEF Informed
  <2>2. CASE pc[q] = "clarify" /\ history'[q] = history[q] /\ Still
    <3>1. RoundsSinceUser' = RoundsSinceUser /\ conv'.messages = conv.messages
      BY <2>2, SameRounds DEF Still
    <3>2. Informed(q)
      BY <1>2, <2>2 DEF InTurn
    <3> QED BY <2>2, <3>1, <3>2 DEF Informed
  <2>3. ASSUME NEW r \in Requests, Alone(r), Moves(r)
        PROVE  Informed(q)'
    <3>1. CASE q # r
      BY <1>2, <1>7, <2>3, <3>1, OneRunner DEF InTurn, Running, Ended
    <3>2. CASE q = r
      <4>1. CASE Appended(UserMessage(r))
        BY <1>1, <2>1, <4>1, NoRounds
      <4>2. CASE Still /\ history'[r] = HistoryFor(r, conv)
        BY <1>1, <3>2, <4>2, ReadsAll
      <4> QED BY <1>7, <2>3, <3>2, <4>1, <4>2 DEF Moves
    <3> QED BY <3>1, <3>2
  <2>4. CASE Gone
    BY <1>1, <2>1, <2>4, NoRounds
  <2> QED BY <1>1, <1>7, <2>2, <2>3, <2>4 DEF Effect
<1>8. ASSUME NEW q \in Requests, pc'[q] = "saveRound"
      PROVE  RoomFor(draft[q].asked)'
  <2>1. ASSUME pc[q] = "saveRound", draft'[q] = draft[q],
               Cardinality(RoundsSinceUser') <= Cardinality(RoundsSinceUser),
               Cardinality(QuestionsSinceUser') <= Cardinality(QuestionsSinceUser)
        PROVE  RoomFor(draft[q].asked)'
    <3>1. RoomFor(draft[q].asked) /\ draft[q].asked \in Nat
      BY <1>1, <1>2, <2>1 DEF InTurn, TypeOK
    <3>4. PICK a \in Nat : a = draft[q].asked
      BY <3>1
    <3>5. /\ Cardinality(RoundsSinceUser) + 1 <= MaxRounds
          /\ Cardinality(QuestionsSinceUser) + a <= MaxTotalQuestions
      BY <3>1, <3>4 DEF RoomFor
    <3>6. /\ Cardinality(RoundsSinceUser') + 1 <= MaxRounds
          /\ Cardinality(QuestionsSinceUser') + a <= MaxTotalQuestions
      BY <1>4, <2>1, <3>5, ClarificationAssumption
    <3> QED BY <2>1, <3>4, <3>6 DEF RoomFor
  <2>2. ASSUME NEW r \in Requests, Alone(r), Moves(r)
        PROVE  RoomFor(draft[q].asked)'
    <3>1. CASE q # r
      BY <1>2, <1>8, <2>2, <3>1, OneRunner DEF InTurn, Running, Ended
    <3>2. CASE q = r
      <4>1. PICK n \in RunClarificationRound(Seen(r)) \ {0} :
              /\ pc[r] = "clarify" /\ Still
              /\ draft'[r] = [round |-> NextRound(Seen(r)), asked |-> n]
        BY <1>8, <2>2, <3>2 DEF Moves
      <4>2. RoomFor(n)
        BY <1>1, <1>2, <4>1, AsksWithinBudget DEF InTurn
      <4>3. RoundsSinceUser' = RoundsSinceUser /\ QuestionsSinceUser' = QuestionsSinceUser
        BY <4>1, SameRounds DEF Still
      <4> QED BY <3>2, <4>1, <4>2, <4>3 DEF RoomFor
    <3> QED BY <3>1, <3>2
  <2>3. CASE UNCHANGED <<pc, kind, target, history, draft>> /\ (Still \/ Gone)
    <3>1. pc[q] = "saveRound" /\ draft'[q] = draft[q]
      BY <1>8, <2>3
    <3>2. CASE Still
      <4>1. RoundsSinceUser' = RoundsSinceUser /\ QuestionsSinceUser' = QuestionsSinceUser
        BY <3>2, SameRounds DEF Still
      <4> QED BY <1>4, <2>1, <3>1, <4>1
    <3>3. CASE Gone
      <4>1. RoundsSinceUser' = {} /\ QuestionsSinceUser' = {}
        BY <1>1, <3>3, NoRounds
      <4>2. /\ Cardinality(RoundsSinceUser') <= Cardinality(RoundsSinceUser)
            /\ Cardinality(QuestionsSinceUser') <= Cardinality(QuestionsSinceUser)
        BY <1>4, <4>1, FS_EmptySet
      <4> QED BY <2>1, <3>1, <4>2
    <3> QED BY <2>3, <3>2, <3>3
  <2> QED BY <1>1, <2>2, <2>3 DEF Effect
<1> QED BY <1>3, <1>5, <1>6, <1>7, <1>8 DEF InTurn

(***************************************************************************)
(* Requests that do not overlap keep the budgets of Stage 0 for the last   *)
(* message of the user: neither the rounds nor the questions asked since   *)
(* exceed the limits, whatever these are and whatever was asked before     *)
(* (RunClarificationRound counts what getOriginalQueryAndHistory reads).   *)
(***************************************************************************)
THEOREM RoundsStayWithinBudget == Spec => []RoundsWithinBudget
<1>1. TurnInv => RoundsWithinBudget
  BY DEF TurnInv, InTurn, RoundsWithinBudget
<1> QED BY <1>1, InitTurn, NextTurn, PTL DEF Spec

(***************************************************************************)
(* Where requests do not overlap, the answers of a round are written once: *)
(* the round found pending is the one UpdateClarificationAnswers writes to,*)
(* and is pending still.                                                   *)
(***************************************************************************)
THEOREM AnswersAreWrittenOnce == Spec => AnswersWrittenOnceInTurn
<1>1. ASSUME TurnInv, [Next]_vars, inFlight = 1
      PROVE  AnswersKept
  <2>1. TypeOK /\ InTurn /\ Effect
    BY <1>1, StepEffects DEF TurnInv
  <2>2. ASSUME NEW r \in Requests, pc[r] = "saveAnswers", Answered(r)
        PROVE  AnswersKept
    <3> DEFINE k == Max(Rounds(conv, target[r]))
               l == Max(Clarifications(conv))
    <3>1. /\ Clarifications(conv) # {}
          /\ conv.messages[l].round = target[r] /\ conv.messages[l].answers = NoAnswers
      BY <2>1, <2>2 DEF InTurn, Pending, Answered
    <3>2. Clarifications(conv) \in SUBSET (1 .. Len(conv.messages))
          /\ Len(conv.messages) \in Int
      BY <2>1, LogPositions DEF TypeOK
    <3>3. l \in Clarifications(conv) /\ \A i \in Clarifications(conv) : l >= i
      BY <3>1, <3>2, LastPosition
    <3>4. /\ DOMAIN conv'.messages = DOMAIN conv.messages
          /\ k \in Rounds(conv, target[r])
          /\ \A i \in Rounds(conv, target[r]) : i <= k
          /\ \A i \in DOMAIN conv.messages :
               i # k => conv'.messages[i].answers = conv.messages[i].answers
      BY <2>1, <2>2, AnsweredLog
    <3> HIDE DEF k, l
    <3>5. l \in Rounds(conv, target[r]) /\ k \in Clarifications(conv)
      BY <3>1, <3>3, <3>4 DEF Rounds
    <3>6. k = l
      BY <3>2, <3>3, <3>4, <3>5
    <3> QED BY <3>1, <3>4, <3>6 DEF AnswersKept, AnswersOf
  <2>3. CASE \E m : Appended(m)
    BY <2>1, <2>3, AppendedLog DEF AnswersKept, AnswersOf
  <2>4. CASE Still \/ Gone
    BY <2>4 DEF Still, Gone, AnswersKept, AnswersOf
  <2> QED BY <2>1, <2>2, <2>3, <2>4 DEF Effect, Moves
<1>2. TurnInv /\ [Next]_vars => [inFlight = 1 => AnswersKept]_vars
  BY <1>1
<1> QED BY <1>2, InitTurn, NextTurn, PTL DEF Spec, AnswersWrittenOnceInTurn

===========================================================================
