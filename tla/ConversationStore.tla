------------------------- MODULE ConversationStore -------------------------
(***************************************************************************)
(* What one conversation of internal/storage/storage.go is and what each   *)
(* method of Store does to it.  A method reads the whole file, decides and *)
(* writes the whole file back under the store's lock, so it is a function  *)
(* from the conversation to an error and a conversation; StorageFiles      *)
(* models how the file system steps below realise that function.           *)
(*                                                                         *)
(* The content of a message is represented by the request that wrote it.   *)
(***************************************************************************)
EXTENDS Integers, Sequences, FiniteSets, FiniteSetsExt

CONSTANTS
  Requests,   \* the HTTP requests that write to the conversation
  NoAnswers   \* the answers of a clarification round nobody has answered

ASSUME StoreAssumption == NoAnswers \notin Requests

\* Entries of Conversation.Messages.  round, asked (the number of questions)
\* and answers (the request that submitted them) only mean something in a
\* clarification round.
UserMessage(r) ==
  [role |-> "user", by |-> r, round |-> 0, asked |-> 0, answers |-> NoAnswers]
AssistantMessage(r) ==
  [role |-> "assistant", by |-> r, round |-> 0, asked |-> 0, answers |-> NoAnswers]
ClarificationMessage(r, n, q) ==
  [role |-> "clarification", by |-> r, round |-> n, asked |-> q, answers |-> NoAnswers]

\* exists is FALSE when there is no file: before CreateConversation and after
\* DeleteConversation.  The title is the initial one, one the user chose, or
\* one derived from an answer.
NoConversation ==
  [exists |-> FALSE, closed |-> FALSE, title |-> "new", messages |-> <<>>]

CreateConversation == [NoConversation EXCEPT !.exists = TRUE]

---------------------------------------------------------------------------
(* The outcome of a method: an error, or "none" and the file written.      *)

Written(c) == [err |-> "none", file |-> c]
Refused(c, e) == [err |-> e, file |-> c]

\* readConversation fails with NotFoundError when there is no file.
Update(c, result) == IF c.exists THEN result ELSE Refused(c, "notFound")

SaveUserMessage(c, r) ==
  Update(c, IF c.closed
            THEN Refused(c, "closed")
            ELSE Written([c EXCEPT !.messages = Append(@, UserMessage(r))]))

CloseConversation(c) == Update(c, Written([c EXCEPT !.closed = TRUE]))

SaveAssistantMessage_LogTruncated(c, r) ==
  Update(c, Written([c EXCEPT !.messages = <<AssistantMessage(r)>>]))

SaveAssistantMessage(c, r) ==
  Update(c, Written([c EXCEPT !.messages = Append(@, AssistantMessage(r))]))

SaveClarificationRound(c, r, n, q) ==
  Update(c, Written([c EXCEPT !.messages = Append(@, ClarificationMessage(r, n, q))]))

\* Positions of the clarification rounds, and of those numbered n.
Clarifications(c) == {i \in DOMAIN c.messages : c.messages[i].role = "clarification"}

Rounds(c, n) == {i \in Clarifications(c) : c.messages[i].round = n}

UpdateClarificationAnswers_ClosedUnchecked(c, r, n) ==
  Update(c, IF Rounds(c, n) = {}
            THEN Refused(c, "noRound")
            ELSE Written([c EXCEPT !.messages[Max(Rounds(c, n))].answers = r]))

\* The last round numbered n takes the answers, answered before or not.
UpdateClarificationAnswers(c, r, n) ==
  Update(c, IF c.closed
            THEN Refused(c, "closed")
            ELSE IF Rounds(c, n) = {}
            THEN Refused(c, "noRound")
            ELSE Written([c EXCEPT !.messages[Max(Rounds(c, n))].answers = r]))

\* The last clarification round, or the empty set.
GetLastClarificationRound(c) ==
  IF Clarifications(c) = {} THEN {} ELSE {c.messages[Max(Clarifications(c))]}

SaveTitle(c, title) == Update(c, Written([c EXCEPT !.title = title]))

DeleteConversation(c) == Update(c, Written(NoConversation))

---------------------------------------------------------------------------

Messages ==
  [role : {"user", "assistant", "clarification"}, by : Requests, round : Nat,
   asked : Nat, answers : Requests \cup {NoAnswers}]

Conversations ==
  [exists : BOOLEAN, closed : BOOLEAN, title : {"new", "renamed", "generated"},
   messages : Seq(Messages)]

===========================================================================
