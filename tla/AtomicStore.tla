---------------------------- MODULE AtomicStore ----------------------------
(***************************************************************************)
(* What Store of internal/storage/storage.go promises its callers: each    *)
(* call takes effect at one instant between its start and its return, with *)
(* the outcome ConversationStore gives it; a crash loses the calls under   *)
(* way but nothing a call has done.  StorageFiles implements it with a     *)
(* lock, a temporary file and a rename.                                    *)
(***************************************************************************)
EXTENDS ConversationStore

CONSTANTS
  Ids,        \* conversation ids
  NoCall,     \* a caller that is not in the store
  DiskFaults  \* whether the file system may fail

Reads == {"get", "list"}
Updates == {"saveUser", "saveAssistant", "saveRound", "saveAnswers", "saveTitle", "close"}
Methods == Reads \cup Updates \cup {"create", "delete"}

Calls == [method : Methods, id : Ids]

\* err is "pending" until the call has taken effect; got is what it returns.
Pending == [err |-> "pending", got |-> <<>>]
Outcome(e, g) == [err |-> e, got |-> g]

VARIABLES
  files,    \* the conversation of each id
  used,     \* the ids CreateConversation has drawn
  called,   \* the call each caller is in
  outcome   \* and its outcome

storeVars == <<files, used, called, outcome>>

\* What a method of Store makes of a file.  Callers are the Requests of
\* ConversationStore; rounds are all numbered 1 and ask one question.
Perform(method, r, file) ==
  CASE method = "saveUser"      -> SaveUserMessage(file, r)
    [] method = "saveAssistant" -> SaveAssistantMessage(file, r)
    [] method = "saveRound"     -> SaveClarificationRound(file, r, 1, 1)
    [] method = "saveAnswers"   -> UpdateClarificationAnswers(file, r, 1)
    [] method = "saveTitle"     -> SaveTitle(file, "renamed")
    [] method = "close"         -> CloseConversation(file)
    [] method = "create"        -> Written(CreateConversation)
    [] method = "delete"        -> DeleteConversation(file)

Init ==
  /\ files = [i \in Ids |-> NoConversation]
  /\ used = {}
  /\ called = [r \in Requests |-> NoCall]
  /\ outcome = [r \in Requests |-> Pending]

\* UUIDs are random: an id that is created has never been used.
Call(r) ==
  /\ called[r] = NoCall
  /\ \E c \in Calls :
       /\ called' = [called EXCEPT ![r] = c]
       /\ used' = IF c.method = "create" THEN used \cup {c.id} ELSE used
       /\ c.method = "create" => c.id \notin used
  /\ UNCHANGED <<files, outcome>>

Takes(r, result) == outcome' = [outcome EXCEPT ![r] = result]

Apply(r) ==
  /\ called[r] # NoCall
  /\ outcome[r] = Pending
  /\ LET call == called[r]
         id == called[r].id
     IN  \/ /\ call.method \notin Reads
            /\ LET res == Perform(call.method, r, files[id])
               IN  /\ files' = [files EXCEPT ![id] = res.file]
                   /\ Takes(r, Outcome(res.err, <<>>))
         \/ /\ call.method = "get"
            /\ UNCHANGED files
            /\ IF files[id].exists
               THEN Takes(r, Outcome("none", [i \in {id} |-> files[id]]))
               ELSE Takes(r, Outcome("notFound", <<>>))
         \/ /\ call.method = "list"
            /\ UNCHANGED files
            /\ LET stored == {i \in Ids : files[i].exists}
               IN  \E readable \in (IF DiskFaults THEN SUBSET stored ELSE {stored}) :
                     Takes(r, Outcome("none", [i \in readable |-> files[i]]))
         \/ /\ DiskFaults
            /\ UNCHANGED files
            /\ Takes(r, Outcome("io", <<>>))
  /\ UNCHANGED <<used, called>>

Return(r) ==
  /\ called[r] # NoCall
  /\ outcome[r] # Pending
  /\ called' = [called EXCEPT ![r] = NoCall]
  /\ outcome' = [outcome EXCEPT ![r] = Pending]
  /\ UNCHANGED <<files, used>>

Crash ==
  /\ called' = [r \in Requests |-> NoCall]
  /\ outcome' = [r \in Requests |-> Pending]
  /\ UNCHANGED <<files, used>>

Next == (\E r \in Requests : Call(r) \/ Apply(r) \/ Return(r)) \/ Crash

Spec == Init /\ [][Next]_storeVars

===========================================================================
