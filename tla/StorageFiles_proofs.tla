------------------------ MODULE StorageFiles_proofs ------------------------
(***************************************************************************)
(* Proofs about the files and the lock of the store, for any number of     *)
(* callers, conversations and calls.                                       *)
(***************************************************************************)
EXTENDS StorageFiles, SequenceTheorems, TLAPS

(***************************************************************************)
(* What the methods that write make of a conversation: a method that fails *)
(* leaves it as it is, and one that succeeds leaves one behind unless it   *)
(* deletes it.                                                             *)
(***************************************************************************)
Writes == Atomic!Updates \cup {"create", "delete"}
WriteErrors == {"none", "closed", "noRound", "notFound"}

\* What a method that writes makes of a file.
LEMMA PerformedFile ==
  ASSUME NEW m \in Writes, NEW r \in Requests, NEW file \in Conversations
  PROVE  /\ Atomic!Perform(m, r, file).err \in WriteErrors
         /\ Atomic!Perform(m, r, file).file \in Conversations
         /\ Atomic!Perform(m, r, file).err # "none" =>
              Atomic!Perform(m, r, file).file = file
         /\ Atomic!Perform(m, r, file).err = "none" /\ m # "delete" =>
              Atomic!Perform(m, r, file).file.exists
<1> DEFINE Good(res) == /\ res.err \in WriteErrors
                        /\ res.file \in Conversations
                        /\ res.err # "none" => res.file = file
                        /\ res.err = "none" /\ m # "delete" => res.file.exists
<1>a. /\ file = [exists |-> file.exists, closed |-> file.closed,
                 title |-> file.title, messages |-> file.messages]
      /\ file.messages \in Seq(Messages)
      /\ file.exists \in BOOLEAN /\ file.closed \in BOOLEAN
  BY DEF Conversations
<1>b. ASSUME NEW msg \in Messages
      PROVE  [file EXCEPT !.messages = Append(@, msg)] \in Conversations
  <2>1. Append(file.messages, msg) \in Seq(Messages)
    BY <1>a
  <2> QED BY <1>a, <2>1 DEF Conversations
<1>1. CASE m = "saveUser"
  <2>1. Atomic!UserMessage(r) \in Messages
    BY DEF Atomic!UserMessage, Messages
  <2>2. Atomic!Perform(m, r, file) = Atomic!SaveUserMessage(file, r)
    BY <1>1 DEF Atomic!Perform
  <2>3. Good(Atomic!SaveUserMessage(file, r))
    BY <1>b, <2>1
    DEF Atomic!SaveUserMessage, Atomic!Update, Atomic!Written, Atomic!Refused, WriteErrors
  <2> QED BY <2>2, <2>3
<1>2. CASE m = "saveAssistant"
  <2>1. Atomic!AssistantMessage(r) \in Messages
    BY DEF Atomic!AssistantMessage, Messages
  <2>2. Atomic!Perform(m, r, file) = Atomic!SaveAssistantMessage(file, r)
    BY <1>2 DEF Atomic!Perform
  <2>3. Good(Atomic!SaveAssistantMessage(file, r))
    BY <1>b, <2>1
    DEF Atomic!SaveAssistantMessage, Atomic!Update, Atomic!Written, Atomic!Refused, WriteErrors
  <2> QED BY <2>2, <2>3
<1>3. CASE m = "saveRound"
  <2>1. Atomic!ClarificationMessage(r, 1, 1) \in Messages
    BY DEF Atomic!ClarificationMessage, Messages
  <2>2. Atomic!Perform(m, r, file) = Atomic!SaveClarificationRound(file, r, 1, 1)
    BY <1>3 DEF Atomic!Perform
  <2>3. Good(Atomic!SaveClarificationRound(file, r, 1, 1))
    BY <1>b, <2>1
    DEF Atomic!SaveClarificationRound, Atomic!Update, Atomic!Written, Atomic!Refused, WriteErrors
  <2> QED BY <2>2, <2>3
<1>4. CASE m = "saveAnswers"
  <2> DEFINE last == Atomic!Max(Atomic!Rounds(file, 1))
             answered == [file EXCEPT !.messages[last].answers = r]
  <2>1. answered \in Conversations /\ answered.exists = file.exists
    <3> HIDE DEF last
    <3>1. ASSUME NEW msg \in Messages
          PROVE  [msg EXCEPT !.answers = r] \in Messages
      BY DEF Messages
    <3>2. [file.messages EXCEPT ![last].answers = r] \in Seq(Messages)
      <4>1. PICK n \in Nat : file.messages \in [1 .. n -> Messages]
        BY <1>a, SeqDef
      <4>2. [file.messages EXCEPT ![last].answers = r] \in [1 .. n -> Messages]
        BY <4>1, <3>1
      <4> QED BY <4>2, SeqDef
    <3> QED BY <1>a, <3>2 DEF Conversations
  <2>2. Atomic!Perform(m, r, file) = Atomic!UpdateClarificationAnswers(file, r, 1)
    BY <1>4 DEF Atomic!Perform
  <2>3. \/ Atomic!UpdateClarificationAnswers(file, r, 1) = Refused(file, "notFound")
        \/ Atomic!UpdateClarificationAnswers(file, r, 1) = Refused(file, "closed")
        \/ Atomic!UpdateClarificationAnswers(file, r, 1) = Refused(file, "noRound")
        \/ /\ file.exists
           /\ Atomic!UpdateClarificationAnswers(file, r, 1) = Written(answered)
    <3> HIDE DEF last
    <3> QED
      BY DEF Atomic!UpdateClarificationAnswers, Atomic!Update, Atomic!Written, Atomic!Refused,
             Written, Refused, last
  <2>4. Good(Atomic!UpdateClarificationAnswers(file, r, 1))
    <3> HIDE DEF answered
    <3> QED BY <2>1, <2>3 DEF Written, Refused, WriteErrors
  <2> QED BY <2>2, <2>4
<1>5. CASE m = "saveTitle"
  <2>1. Atomic!Perform(m, r, file) = Atomic!SaveTitle(file, "renamed")
    BY <1>5 DEF Atomic!Perform
  <2>2. Good(Atomic!SaveTitle(file, "renamed"))
    BY <1>a
    DEF Atomic!SaveTitle, Atomic!Update, Atomic!Written, Atomic!Refused, WriteErrors, Conversations
  <2> QED BY <2>1, <2>2
<1>6. CASE m = "close"
  <2>1. Atomic!Perform(m, r, file) = Atomic!CloseConversation(file)
    BY <1>6 DEF Atomic!Perform
  <2>2. Good(Atomic!CloseConversation(file))
    BY <1>a
    DEF Atomic!CloseConversation, Atomic!Update, Atomic!Written, Atomic!Refused, WriteErrors,
        Conversations
  <2> QED BY <2>1, <2>2
<1>7. CASE m \in {"create", "delete"}
  <2>1. Atomic!NoConversation \in Conversations
    <3>1. <<>> \in Seq(Messages)
      OBVIOUS
    <3> QED BY <3>1 DEF Atomic!NoConversation, Conversations
  <2>2. /\ Atomic!CreateConversation \in Conversations
        /\ Atomic!CreateConversation.exists
    BY <2>1 DEF Atomic!CreateConversation, Conversations
  <2>3. CASE m = "create"
    <3>1. Atomic!Perform(m, r, file) = Atomic!Written(Atomic!CreateConversation)
      BY <2>3 DEF Atomic!Perform
    <3> QED BY <2>2, <3>1 DEF Atomic!Written, WriteErrors
  <2>4. CASE m = "delete"
    <3>1. Atomic!Perform(m, r, file) = Atomic!DeleteConversation(file)
      BY <2>4 DEF Atomic!Perform
    <3> QED
      BY <2>1, <2>4, <3>1
      DEF Atomic!DeleteConversation, Atomic!Update, Atomic!Written, Atomic!Refused, WriteErrors
  <2> QED BY <1>7, <2>3, <2>4
<1> QED
  BY <1>1, <1>2, <1>3, <1>4, <1>5, <1>6, <1>7 DEF Writes, Atomic!Updates

(***************************************************************************)
(* CreateConversation does not look at the file, and DeleteConversation    *)
(* fails only where there is none.                                         *)
(***************************************************************************)
LEMMA CreatedFile ==
  ASSUME NEW r, NEW file
  PROVE  /\ Atomic!Perform("create", r, file).err = "none"
         /\ Atomic!Perform("create", r, file).file = CreateConversation
<1>1. Atomic!CreateConversation = CreateConversation
  <2>1. Atomic!NoConversation = NoConversation
    BY DEF Atomic!NoConversation, NoConversation
  <2> QED BY <2>1 DEF Atomic!CreateConversation, CreateConversation
<1>2. Atomic!Perform("create", r, file) = Atomic!Written(Atomic!CreateConversation)
  BY DEF Atomic!Perform
<1> QED BY <1>1, <1>2 DEF Atomic!Written

(***************************************************************************)
(* The conversations the code makes itself.                                *)
(***************************************************************************)
LEMMA Constructors ==
  /\ NoConversation \in Conversations /\ ~NoConversation.exists
  /\ CreateConversation \in Conversations /\ CreateConversation.exists
  /\ Torn \notin Conversations
<1>1. NoConversation \in Conversations /\ ~NoConversation.exists
  <2>1. <<>> \in Seq(Messages)
    OBVIOUS
  <2> QED BY <2>1 DEF NoConversation, Conversations
<1>2. CreateConversation \in Conversations /\ CreateConversation.exists
  BY <1>1 DEF CreateConversation, Conversations
<1> QED BY <1>1, <1>2, StorageAssumption DEF StorageAssumption

\* delete takes the conversation away or finds none.
LEMMA DeletedFile ==
  ASSUME NEW r, NEW file
  PROVE  /\ file.exists => Atomic!Perform("delete", r, file) = Written(NoConversation)
         /\ ~file.exists => Atomic!Perform("delete", r, file) = Refused(file, "notFound")
<1>1. Atomic!Perform("delete", r, file) = Atomic!DeleteConversation(file)
  BY DEF Atomic!Perform
<1>2. Atomic!NoConversation = NoConversation
  BY DEF Atomic!NoConversation, NoConversation
<1> QED
  BY <1>1, <1>2
  DEF Atomic!DeleteConversation, Atomic!Update, Atomic!Written, Atomic!Refused, Written, Refused

(***************************************************************************)
(* A caller about to return has an outcome.                                *)
(***************************************************************************)
LEMMA OutcomeIsNotPending ==
  ASSUME NEW e \in WriteErrors \cup {"io"}, NEW g
  PROVE  Atomic!Outcome(e, g) # Atomic!Pending
BY DEF Atomic!Outcome, Atomic!Pending, WriteErrors

---------------------------------------------------------------------------
(***************************************************************************)
(* The inductive invariant.  CopyIsFresh does not follow from itself: that *)
(* no one else writes the file is due to the lock, and that a caller at a  *)
(* given step holds the right lock is due to the path of its method        *)
(* through the code.                                                       *)
(***************************************************************************)
Saving == {"openTmp", "writeTmp", "rename"}

\* Each method goes its own way, and has an outcome when it returns.
OnItsWay ==
  /\ DOMAIN outcome = Requests
  /\ DOMAIN metas = Requests
  /\ \A r \in Requests :
       /\ pc[r] = "idle" <=> called[r] = NoCall
       /\ pc[r] = "return" <=> outcome[r] # Atomic!Pending
       /\ pc[r] = "readFile" => called[r].method \in Atomic!Updates \cup {"get"}
       /\ pc[r] \in {"readDir", "readEntry"} => called[r].method = "list"
       /\ pc[r] \in Saving => called[r].method \in Atomic!Updates \cup {"create"}
       /\ pc[r] = "unlink" => called[r].method = "delete"

\* A method that writes has the store to itself.
Excluded ==
  \A r \in Requests :
    /\ holds[r] = "read" => called[r].method \in Atomic!Reads
    /\ holds[r] = "write" => /\ called[r].method \notin Atomic!Reads
                             /\ \A q \in Requests : q # r => holds[q] = "none"

\* A caller that saves is going to write what its method makes of the file
\* that is on disk now, and has it in the temporary file when it renames.
SaveReady ==
  \A r \in Requests : pc[r] \in Saving =>
    /\ copy[r].exists
    /\ Atomic!Perform(called[r].method, r, disk[called[r].id]).err = "none"
    /\ Atomic!Perform(called[r].method, r, disk[called[r].id]).file = copy[r]
    /\ pc[r] = "rename" => tmp[called[r].id] = copy[r]

\* ListConversations has read what is on disk now.
ListReady ==
  \A r \in Requests :
    /\ pc[r] # "readEntry" => metas[r] = <<>>
    /\ pc[r] = "readEntry" =>
         /\ metas[r] = [i \in DOMAIN metas[r] |-> disk[i]]
         /\ \A i \in DOMAIN metas[r] : disk[i] \notin {Torn, NoConversation}
         /\ ~DiskFaults => \A i \in Ids : \/ disk[i] \in {Torn, NoConversation}
                                          \/ i \in left[r] \cup DOMAIN metas[r]

\* There is no file that says it does not exist.
FilesExist ==
  \A i \in Ids : /\ disk[i] \in {Torn, NoConversation} \/ disk[i].exists
                 /\ durable[i] \in {Torn, NoConversation} \/ durable[i].exists

Inv ==
  /\ TypeOK /\ OnItsWay /\ Excluded /\ SaveReady /\ ListReady /\ FilesExist
  /\ PowerLoss \/ NeverTorn

(***************************************************************************)
(* The store starts with no file and nobody in it.                         *)
(***************************************************************************)
LEMMA InitInv == Init => Inv
<1> SUFFICES ASSUME Init PROVE Inv
  OBVIOUS
<1>1. /\ disk = [i \in Ids |-> NoConversation] /\ durable = disk
      /\ tmp = [i \in Ids |-> NoConversation]
      /\ used = {}
      /\ called = [r \in Requests |-> NoCall]
      /\ outcome = [r \in Requests |-> Atomic!Pending]
      /\ pc = [r \in Requests |-> "idle"]
      /\ holds = [r \in Requests |-> "none"]
      /\ copy = [r \in Requests |-> NoConversation]
      /\ left = [r \in Requests |-> {}]
      /\ metas = [r \in Requests |-> <<>>]
  <2>1. Atomic!NoConversation = NoConversation
    BY DEF Atomic!NoConversation, NoConversation
  <2> QED BY <2>1 DEF Init, Atomic!Init
<1>2. TypeOK
  BY <1>1, Constructors DEF TypeOK, Files
<1>3. OnItsWay /\ Excluded /\ SaveReady /\ ListReady
  BY <1>1 DEF OnItsWay, Excluded, SaveReady, ListReady, Saving
<1>4. FilesExist /\ NeverTorn
  BY <1>1, Constructors DEF FilesExist, NeverTorn
<1> QED BY <1>2, <1>3, <1>4 DEF Inv

(***************************************************************************)
(* A caller that is about to write, or to list, and what others may do.    *)
(***************************************************************************)
LEMMA Alone ==
  ASSUME Inv, NEW r \in Requests, pc[r] \in Saving \cup {"unlink"},
         NEW q \in Requests, q # r
  PROVE  pc[q] \in {"idle", "lock"}
BY DEF Inv, TypeOK, OnItsWay, Excluded, Saving, Atomic!Reads, Atomic!Updates

(***************************************************************************)
(* A caller that is in the store is in one of its methods, with an id.     *)
(***************************************************************************)
LEMMA CallTyped ==
  ASSUME Inv, NEW r \in Requests, pc[r] # "idle"
  PROVE  /\ called[r] \in Atomic!Calls
         /\ called[r].id \in Ids
         /\ called[r].method \in Writes \cup Atomic!Reads
<1>1. called[r] \in Atomic!Calls
  BY DEF Inv, TypeOK, OnItsWay
<1> QED BY <1>1 DEF Atomic!Calls, Atomic!Methods, Writes

(***************************************************************************)
(* Every step preserves the invariant, one lemma for each action.          *)
(***************************************************************************)
LEMMA EnterInv ==
  ASSUME Inv, NEW r \in Requests, Enter(r)
  PROVE  Inv'
<1>0. PICK c \in Atomic!Calls :
        /\ called' = [called EXCEPT ![r] = c]
        /\ used' = IF c.method = "create" THEN used \cup {c.id} ELSE used
  BY DEF Enter, Atomic!Call
<1>1. /\ pc[r] = "idle" /\ pc' = [pc EXCEPT ![r] = "lock"]
      /\ UNCHANGED <<disk, tmp, durable, outcome, holds, copy, left, metas>>
  BY DEF Enter, Goto, Atomic!Call, listing
<1>2. TypeOK'
  BY <1>0, <1>1 DEF Inv, TypeOK, Atomic!Calls
<1>3. OnItsWay' /\ Excluded'
  BY <1>0, <1>1, CallAssumption DEF Inv, TypeOK, OnItsWay, Excluded, CallAssumption, Saving
<1>4. SaveReady' /\ ListReady'
  BY <1>0, <1>1 DEF Inv, TypeOK, SaveReady, ListReady, Saving
<1>5. FilesExist' /\ (PowerLoss \/ NeverTorn')
  BY <1>1 DEF Inv, FilesExist, NeverTorn
<1> QED BY <1>2, <1>3, <1>4, <1>5 DEF Inv

\* The lock is granted to one writer or to readers.
LEMMA LockInv ==
  ASSUME Inv, NEW r \in Requests, Lock(r)
  PROVE  Inv'
<1>1. /\ pc[r] = "lock"
      /\ UNCHANGED <<disk, tmp, durable, used, called, outcome, left, metas>>
  BY DEF Lock, diskVars, listing
<1>2. TypeOK'
  BY <1>1, Constructors DEF Lock, Goto, Inv, TypeOK
<1>3. OnItsWay'
  BY <1>1, CallTyped DEF Lock, Goto, Inv, TypeOK, OnItsWay, Saving, Writes, Atomic!Reads
<1>4. Excluded'
  BY <1>1 DEF Lock, Grants, Inv, TypeOK, Excluded
<1>5. SaveReady'
  <2>1. ASSUME NEW q \in Requests, q # r, pc'[q] \in Saving
        PROVE  pc[q] \in Saving /\ copy'[q] = copy[q]
    BY <2>1 DEF Lock, Goto, Inv, TypeOK
  <2>2. pc'[r] \in Saving => /\ called[r].method = "create"
                             /\ pc'[r] = "openTmp"
                             /\ copy'[r] = CreateConversation
    BY DEF Lock, Goto, Inv, TypeOK, Saving
  <2> QED BY <1>1, <2>1, <2>2, CreatedFile, Constructors DEF Inv, SaveReady, Lock, Goto, TypeOK
<1>6. ListReady' /\ FilesExist' /\ (PowerLoss \/ NeverTorn')
  BY <1>1 DEF Lock, Goto, Inv, TypeOK, ListReady, FilesExist, NeverTorn
<1> QED BY <1>2, <1>3, <1>4, <1>5, <1>6 DEF Inv

\* A caller releases the lock and its call is over.
LEMMA ReturnInv ==
  ASSUME Inv, NEW r \in Requests, Return(r)
  PROVE  Inv'
<1>1. /\ pc[r] = "return" /\ pc' = [pc EXCEPT ![r] = "idle"]
      /\ called' = [called EXCEPT ![r] = NoCall]
      /\ outcome' = [outcome EXCEPT ![r] = Atomic!Pending]
      /\ holds' = [holds EXCEPT ![r] = "none"]
      /\ copy' = [copy EXCEPT ![r] = NoConversation]
      /\ UNCHANGED <<disk, tmp, durable, used, left, metas>>
  BY DEF Return, Atomic!Return, Goto, listing
<1>2. TypeOK'
  BY <1>1, Constructors DEF Inv, TypeOK
<1>3. OnItsWay' /\ Excluded'
  BY <1>1 DEF Inv, TypeOK, OnItsWay, Excluded, Saving
<1>4. SaveReady' /\ ListReady'
  BY <1>1 DEF Inv, TypeOK, SaveReady, ListReady, Saving
<1>5. FilesExist' /\ (PowerLoss \/ NeverTorn')
  BY <1>1 DEF Inv, FilesExist, NeverTorn
<1> QED BY <1>2, <1>3, <1>4, <1>5 DEF Inv

\* A method reads the file; a save keeps the copy it will write.
LEMMA ReadFileInv ==
  ASSUME Inv, NEW r \in Requests, ReadFile(r)
  PROVE  Inv'
<1> DEFINE id == called[r].id
           res == Atomic!Perform(called[r].method, r, disk[id])
<1>1. /\ pc[r] = "readFile"
      /\ UNCHANGED <<disk, tmp, durable, used, called, holds, left, metas>>
  BY DEF ReadFile, diskVars, listing
<1>2. id \in Ids /\ disk[id] \in Files
  BY <1>1, CallTyped DEF Inv, TypeOK
<1>3. \/ /\ copy' = [copy EXCEPT ![r] = res.file]
         /\ pc' = [pc EXCEPT ![r] = "openTmp"]
         /\ outcome' = outcome
         /\ called[r].method \in Atomic!Updates
         /\ disk[id] \in Conversations
         /\ res.err = "none"
      \/ /\ \E e \in WriteErrors \cup {"io"}, g \in {<<>>, [i \in {id} |-> disk[id]]} :
              outcome' = [outcome EXCEPT ![r] = Atomic!Outcome(e, g)]
         /\ pc' = [pc EXCEPT ![r] = "return"]
         /\ copy' = copy
  <2>1. CASE disk[id] # Torn /\ called[r].method # "get" /\ disk[id].exists
    <3>1. called[r].method \in Atomic!Updates /\ disk[id] \in Conversations
      BY <1>1, <1>2, <2>1 DEF Inv, OnItsWay, Files
    <3>2. res.err \in WriteErrors
      BY <3>1, PerformedFile DEF Writes
    <3> HIDE DEF res
    <3> QED BY <2>1, <3>1, <3>2 DEF ReadFile, Finish, Goto, Parses, res
  <2>2. CASE ~(disk[id] # Torn /\ called[r].method # "get" /\ disk[id].exists)
    BY <2>2 DEF ReadFile, Finish, Goto, Parses, WriteErrors
  <2> QED BY <2>1, <2>2
<1>4. \/ res.file \in Conversations /\ res.file.exists
      \/ copy' = copy /\ pc' = [pc EXCEPT ![r] = "return"]
  BY <1>3, PerformedFile DEF Writes, Atomic!Updates
<1> HIDE DEF res
<1>5. TypeOK'
  BY <1>1, <1>3, <1>4 DEF Inv, TypeOK
<1>6. OnItsWay' /\ Excluded'
  BY <1>1, <1>3, OutcomeIsNotPending DEF Inv, TypeOK, OnItsWay, Excluded, Saving
<1>7. SaveReady'
  BY <1>1, <1>3, <1>4 DEF Inv, TypeOK, SaveReady, Saving, res
<1>8. ListReady' /\ FilesExist' /\ (PowerLoss \/ NeverTorn')
  BY <1>1, <1>3 DEF Inv, TypeOK, ListReady, FilesExist, NeverTorn
<1> QED BY <1>5, <1>6, <1>7, <1>8 DEF Inv

(***************************************************************************)
(* The list nothing has been read into yet.                                *)
(***************************************************************************)
LEMMA NothingListed == DOMAIN <<>> = {} /\ <<>> = [i \in {} |-> disk[i]]
<1>1. DOMAIN <<>> = {}
  BY EmptySeq
<1>2. <<>> \in Seq(Conversations)
  OBVIOUS
<1>3. PICK n \in Nat : <<>> \in [1 .. n -> Conversations]
  BY <1>2, SeqDef
<1>4. <<>> = [i \in DOMAIN <<>> |-> <<>>[i]]
  BY <1>3
<1> QED BY <1>1, <1>4

\* A listing takes the names in the directory.
LEMMA ReadDirInv ==
  ASSUME Inv, NEW r \in Requests, ReadDir(r)
  PROVE  Inv'
<1>1. /\ pc[r] = "readDir"
      /\ UNCHANGED <<disk, tmp, durable, used, called, holds, copy, metas>>
      /\ \/ /\ left' = [left EXCEPT ![r] = {i \in Ids : disk[i] # NoConversation}]
            /\ pc' = [pc EXCEPT ![r] = "readEntry"]
            /\ outcome' = outcome
         \/ /\ outcome' = [outcome EXCEPT ![r] = Atomic!Outcome("io", <<>>)]
            /\ pc' = [pc EXCEPT ![r] = "return"]
            /\ left' = left
  BY DEF ReadDir, Finish, Goto, diskVars
<1>2. TypeOK'
  BY <1>1 DEF Inv, TypeOK
<1>3. OnItsWay' /\ Excluded'
  <2>1. Atomic!Outcome("io", <<>>) # Atomic!Pending
    BY OutcomeIsNotPending
  <2> QED BY <1>1, <2>1 DEF Inv, TypeOK, OnItsWay, Excluded, Saving
<1>4. SaveReady' /\ FilesExist' /\ (PowerLoss \/ NeverTorn')
  BY <1>1 DEF Inv, TypeOK, SaveReady, FilesExist, NeverTorn, Saving
<1>5. ListReady'
  <2>1. metas[r] = <<>>
    BY <1>1 DEF Inv, ListReady
  <2> QED BY <1>1, <2>1, NothingListed DEF Inv, TypeOK, ListReady
<1> QED BY <1>2, <1>3, <1>4, <1>5 DEF Inv

\* A listing reads one file after the other.
LEMMA ReadEntryInv ==
  ASSUME Inv, NEW r \in Requests, ReadEntry(r)
  PROVE  Inv'
<1>1. /\ pc[r] = "readEntry"
      /\ UNCHANGED <<disk, tmp, durable, used, called, holds, copy>>
  BY DEF ReadEntry, diskVars
<1>2. CASE \E i \in left[r] :
             /\ left' = [left EXCEPT ![r] = @ \ {i}]
             /\ \/ /\ disk[i] # Torn /\ disk[i] # NoConversation
                   /\ metas' = [metas EXCEPT ![r] =
                        [j \in DOMAIN @ \cup {i} |-> IF j = i THEN disk[i] ELSE @[j]]]
                \/ /\ disk[i] = Torn \/ disk[i] = NoConversation \/ DiskFaults
                   /\ metas' = metas
             /\ UNCHANGED <<outcome, pc>>
  <2> PICK i \in left[r] :
        /\ left' = [left EXCEPT ![r] = @ \ {i}]
        /\ \/ /\ disk[i] # Torn /\ disk[i] # NoConversation
              /\ metas' = [metas EXCEPT ![r] =
                   [j \in DOMAIN @ \cup {i} |-> IF j = i THEN disk[i] ELSE @[j]]]
           \/ /\ disk[i] = Torn \/ disk[i] = NoConversation \/ DiskFaults
              /\ metas' = metas
        /\ UNCHANGED <<outcome, pc>>
    BY <1>2
  <2>1. i \in Ids
    BY DEF Inv, TypeOK
  <2>2. TypeOK'
    BY <1>1, <2>1 DEF Inv, TypeOK, OnItsWay
  <2>3. OnItsWay' /\ Excluded'
    BY <1>1 DEF Inv, OnItsWay, Excluded
  <2>4. ListReady'
    <3>1. ASSUME NEW q \in Requests, q # r
          PROVE  metas'[q] = metas[q] /\ left'[q] = left[q]
      BY <3>1 DEF Inv, OnItsWay, TypeOK
    <3>2. metas'[r] = [j \in DOMAIN metas'[r] |-> disk[j]]
      BY <1>1 DEF Inv, OnItsWay, ListReady
    <3>3. \A j \in DOMAIN metas'[r] : disk[j] \notin {Torn, NoConversation}
      BY <1>1 DEF Inv, OnItsWay, ListReady
    <3>4. /\ DOMAIN metas[r] \subseteq DOMAIN metas'[r]
          /\ left'[r] = left[r] \ {i}
          /\ i \in DOMAIN metas'[r] \/ disk[i] \in {Torn, NoConversation} \/ DiskFaults
      BY DEF Inv, OnItsWay, TypeOK
    <3>5. ~DiskFaults => \A j \in Ids : \/ disk[j] \in {Torn, NoConversation}
                                        \/ j \in left'[r] \cup DOMAIN metas'[r]
      BY <1>1, <3>4 DEF Inv, ListReady
    <3> QED BY <1>1, <3>1, <3>2, <3>3, <3>5 DEF Inv, ListReady
  <2>5. SaveReady' /\ FilesExist' /\ (PowerLoss \/ NeverTorn')
    BY <1>1 DEF Inv, SaveReady, FilesExist, NeverTorn
  <2> QED BY <2>2, <2>3, <2>4, <2>5 DEF Inv
<1>3. CASE /\ outcome' = [outcome EXCEPT ![r] = Atomic!Outcome("none", metas[r])]
           /\ pc' = [pc EXCEPT ![r] = "return"]
           /\ metas' = [metas EXCEPT ![r] = <<>>]
           /\ left' = left
  <2>1. TypeOK'
    BY <1>1, <1>3, NothingListed DEF Inv, TypeOK, OnItsWay
  <2>2. OnItsWay' /\ Excluded'
    <3>1. Atomic!Outcome("none", metas[r]) # Atomic!Pending
      BY OutcomeIsNotPending DEF WriteErrors
    <3> QED BY <1>1, <1>3, <3>1 DEF Inv, TypeOK, OnItsWay, Excluded, Saving
  <2>3. ListReady'
    BY <1>1, <1>3 DEF Inv, TypeOK, OnItsWay, ListReady
  <2>4. SaveReady' /\ FilesExist' /\ (PowerLoss \/ NeverTorn')
    BY <1>1, <1>3 DEF Inv, TypeOK, SaveReady, Saving, FilesExist, NeverTorn
  <2> QED BY <2>1, <2>2, <2>3, <2>4 DEF Inv
<1> QED BY <1>2, <1>3 DEF ReadEntry, Finish, Goto, Parses

\* A save opens its temporary file.
LEMMA OpenTmpInv ==
  ASSUME Inv, NEW r \in Requests, OpenTmp(r)
  PROVE  Inv'
<1>1. /\ pc[r] = "openTmp"
      /\ UNCHANGED <<disk, durable, used, called, holds, copy, left, metas>>
      /\ \/ /\ tmp' = [tmp EXCEPT ![called[r].id] = Torn]
            /\ pc' = [pc EXCEPT ![r] = "writeTmp"]
            /\ outcome' = outcome
         \/ /\ outcome' = [outcome EXCEPT ![r] = Atomic!Outcome("io", <<>>)]
            /\ pc' = [pc EXCEPT ![r] = "return"]
            /\ tmp' = tmp
  BY DEF OpenTmp, Finish, Goto, listing
<1>2. TypeOK'
  BY <1>1 DEF Inv, TypeOK, Files
<1>3. OnItsWay' /\ Excluded'
  <2>1. Atomic!Outcome("io", <<>>) # Atomic!Pending
    BY OutcomeIsNotPending
  <2> QED BY <1>1, <2>1 DEF Inv, TypeOK, OnItsWay, Excluded, Saving
<1>4. SaveReady'
  BY <1>1, Alone DEF Inv, TypeOK, SaveReady, Saving
<1>5. ListReady' /\ FilesExist' /\ (PowerLoss \/ NeverTorn')
  BY <1>1 DEF Inv, TypeOK, ListReady, FilesExist, NeverTorn
<1> QED BY <1>2, <1>3, <1>4, <1>5 DEF Inv

\* It fills the temporary file, or fails.
LEMMA WriteTmpInv ==
  ASSUME Inv, NEW r \in Requests, WriteTmp(r)
  PROVE  Inv'
<1>1. /\ pc[r] = "writeTmp"
      /\ UNCHANGED <<disk, durable, used, called, holds, copy, left, metas>>
      /\ \/ /\ tmp' = [tmp EXCEPT ![called[r].id] = copy[r]]
            /\ pc' = [pc EXCEPT ![r] = "rename"]
            /\ outcome' = outcome
         \/ /\ outcome' = [outcome EXCEPT ![r] = Atomic!Outcome("io", <<>>)]
            /\ pc' = [pc EXCEPT ![r] = "return"]
            /\ tmp' = tmp
  BY DEF WriteTmp, Finish, Goto, listing
<1>2. called[r].id \in Ids
  BY <1>1, CallTyped
<1>3. TypeOK'
  BY <1>1 DEF Inv, TypeOK, Files
<1>4. OnItsWay' /\ Excluded'
  <2>1. Atomic!Outcome("io", <<>>) # Atomic!Pending
    BY OutcomeIsNotPending
  <2> QED BY <1>1, <2>1 DEF Inv, TypeOK, OnItsWay, Excluded, Saving
<1>5. SaveReady'
  BY <1>1, <1>2, Alone DEF Inv, TypeOK, SaveReady, Saving
<1>6. ListReady' /\ FilesExist' /\ (PowerLoss \/ NeverTorn')
  BY <1>1 DEF Inv, TypeOK, ListReady, FilesExist, NeverTorn
<1> QED BY <1>3, <1>4, <1>5, <1>6 DEF Inv

(***************************************************************************)
(* A change of a file by the caller that holds the write lock disturbs no  *)
(* one else.                                                               *)
(***************************************************************************)
LEMMA OthersKeep ==
  ASSUME Inv, NEW r \in Requests, pc[r] \in {"rename", "unlink"},
         pc' = [pc EXCEPT ![r] = "return"],
         UNCHANGED <<called, holds, copy, left, metas>>
  PROVE  SaveReady' /\ ListReady'
<1>1. ASSUME NEW q \in Requests
      PROVE  pc'[q] \in {"idle", "lock", "return"}
  BY <1>1, Alone DEF Inv, TypeOK, Saving
<1>2. ASSUME NEW q \in Requests
      PROVE  metas'[q] = <<>>
  BY <1>2, Alone DEF Inv, TypeOK, ListReady, Saving
<1> QED BY <1>1, <1>2 DEF SaveReady, ListReady, Saving

\* The rename puts the copy in the place of the file.
LEMMA RenameInv ==
  ASSUME Inv, NEW r \in Requests, Rename(r)
  PROVE  Inv'
<1> DEFINE id == called[r].id
<1>1. /\ pc[r] = "rename" /\ pc' = [pc EXCEPT ![r] = "return"]
      /\ UNCHANGED <<durable, used, called, holds, copy, left, metas>>
      /\ tmp' \in {tmp, [tmp EXCEPT ![id] = NoConversation]}
      /\ \/ /\ disk' = [disk EXCEPT ![id] = tmp[id]]
            /\ outcome' = [outcome EXCEPT ![r] = Atomic!Outcome("none", <<>>)]
         \/ /\ disk' = disk
            /\ outcome' = [outcome EXCEPT ![r] = Atomic!Outcome("io", <<>>)]
  BY DEF Rename, Finish, Goto, listing
<1>2. id \in Ids /\ tmp[id] = copy[r] /\ copy[r] \in Conversations /\ copy[r].exists
  BY <1>1, CallTyped DEF Inv, TypeOK, SaveReady, Saving
<1>3. TypeOK'
  BY <1>1, <1>2, Constructors DEF Inv, TypeOK, Files
<1>4. OnItsWay' /\ Excluded'
  <2>1. /\ Atomic!Outcome("none", <<>>) # Atomic!Pending
        /\ Atomic!Outcome("io", <<>>) # Atomic!Pending
    BY OutcomeIsNotPending DEF WriteErrors
  <2> QED BY <1>1, <2>1 DEF Inv, TypeOK, OnItsWay, Excluded, Saving
<1>5. SaveReady' /\ ListReady'
  BY <1>1, OthersKeep
<1>6. FilesExist'
  BY <1>1, <1>2 DEF Inv, TypeOK, FilesExist
<1>7. PowerLoss \/ NeverTorn'
  BY <1>1, <1>2, Constructors DEF Inv, TypeOK, NeverTorn
<1> QED BY <1>3, <1>4, <1>5, <1>6, <1>7 DEF Inv

\* delete removes the file.
LEMMA UnlinkInv ==
  ASSUME Inv, NEW r \in Requests, Unlink(r)
  PROVE  Inv'
<1> DEFINE id == called[r].id
<1>1. /\ pc[r] = "unlink" /\ pc' = [pc EXCEPT ![r] = "return"]
      /\ UNCHANGED <<tmp, durable, used, called, holds, copy, left, metas>>
      /\ disk' \in {disk, [disk EXCEPT ![id] = NoConversation]}
      /\ \E e \in {"none", "notFound", "io"} :
           outcome' = [outcome EXCEPT ![r] = Atomic!Outcome(e, <<>>)]
  BY DEF Unlink, Finish, Goto, listing
<1>2. id \in Ids
  BY <1>1, CallTyped
<1>3. TypeOK'
  BY <1>1, <1>2, Constructors DEF Inv, TypeOK, Files
<1>4. OnItsWay' /\ Excluded'
  <2>1. \A e \in {"none", "notFound", "io"} : Atomic!Outcome(e, <<>>) # Atomic!Pending
    BY OutcomeIsNotPending DEF WriteErrors
  <2> QED BY <1>1, <2>1 DEF Inv, TypeOK, OnItsWay, Excluded, Saving
<1>5. SaveReady' /\ ListReady'
  BY <1>1, OthersKeep
<1>6. FilesExist' /\ (PowerLoss \/ NeverTorn')
  BY <1>1, <1>2, Constructors DEF Inv, TypeOK, FilesExist, NeverTorn
<1> QED BY <1>3, <1>4, <1>5, <1>6 DEF Inv

(***************************************************************************)
(* The process and the machine start over.                                 *)
(***************************************************************************)
LEMMA RestartInv ==
  ASSUME Inv, Restart,
         {disk', tmp', durable'} \subseteq [Ids -> Files],
         FilesExist', PowerLoss \/ NeverTorn'
  PROVE  Inv'
<1>1. /\ called' = [r \in Requests |-> NoCall]
      /\ outcome' = [r \in Requests |-> Atomic!Pending]
      /\ pc' = [r \in Requests |-> "idle"]
      /\ holds' = [r \in Requests |-> "none"]
      /\ copy' = [r \in Requests |-> NoConversation]
      /\ left' = [r \in Requests |-> {}]
      /\ metas' = [r \in Requests |-> <<>>]
      /\ UNCHANGED used
  BY DEF Restart
<1>2. TypeOK'
  BY <1>1, Constructors, NothingListed DEF Inv, TypeOK
<1>3. OnItsWay' /\ Excluded' /\ SaveReady' /\ ListReady'
  BY <1>1 DEF OnItsWay, Excluded, SaveReady, ListReady, Saving
<1> QED BY <1>2, <1>3 DEF Inv

\* The process dies between any two system calls.
LEMMA CrashInv ==
  ASSUME Inv, Crash
  PROVE  Inv'
BY RestartInv DEF Crash, diskVars, Inv, TypeOK, FilesExist, NeverTorn

\* The system writes a file back to the disk.
LEMMA WriteBackInv ==
  ASSUME Inv, NEW i \in Ids, WriteBack(i)
  PROVE  Inv'
<1>1. /\ PowerLoss
      /\ durable' = [durable EXCEPT ![i] = disk[i]]
      /\ UNCHANGED <<disk, tmp, used, called, outcome, pc, holds, copy, left, metas>>
  BY DEF WriteBack, listing
<1>2. TypeOK' /\ FilesExist'
  BY <1>1 DEF Inv, TypeOK, FilesExist
<1>3. OnItsWay' /\ Excluded' /\ SaveReady' /\ ListReady'
  BY <1>1 DEF Inv, OnItsWay, Excluded, SaveReady, ListReady
<1> QED BY <1>1, <1>2, <1>3 DEF Inv

\* The power fails: what was not written back is lost or torn.
LEMMA PowerFailsInv ==
  ASSUME Inv, PowerFails
  PROVE  Inv'
<1>1. PICK fate \in [Ids -> {"old", "new", "torn"}] :
        disk' = [i \in Ids |->
          IF disk[i] = durable[i] \/ fate[i] = "old" THEN durable[i]
          ELSE IF fate[i] = "new" \/ disk[i] = NoConversation THEN disk[i]
          ELSE Torn]
  BY DEF PowerFails
<1>2. /\ PowerLoss /\ Restart /\ durable' = disk'
      /\ tmp' = [i \in Ids |-> IF tmp[i] = NoConversation THEN NoConversation ELSE Torn]
  BY DEF PowerFails
<1>3. \A i \in Ids : disk'[i] \in {disk[i], durable[i], Torn}
  BY <1>1
<1>4. {disk', tmp', durable'} \subseteq [Ids -> Files]
  BY <1>1, <1>2, Constructors DEF Inv, TypeOK, Files
<1>5. FilesExist'
  BY <1>2, <1>3 DEF Inv, FilesExist
<1> QED BY <1>2, <1>4, <1>5, RestartInv

(***************************************************************************)
(* The invariant is inductive.                                             *)
(***************************************************************************)
LEMMA NextInv ==
  ASSUME Inv, [Next]_vars
  PROVE  Inv'
<1>1. CASE UNCHANGED vars
  BY <1>1
  DEF vars, Inv, TypeOK, OnItsWay, Excluded, SaveReady, ListReady, FilesExist, NeverTorn
<1>2. ASSUME NEW r \in Requests, Enter(r) \/ Lock(r) \/ Step(r)
      PROVE  Inv'
  BY <1>2, EnterInv, LockInv, ReturnInv, ReadFileInv, ReadDirInv, ReadEntryInv,
     OpenTmpInv, WriteTmpInv, RenameInv, UnlinkInv
  DEF Step
<1> QED BY <1>1, <1>2, CrashInv, PowerFailsInv, WriteBackInv DEF Next

(***************************************************************************)
(* Type correctness of the store, for any number of callers, conversations *)
(* and calls, with disk errors, crashes and losses of power.               *)
(***************************************************************************)
THEOREM TypeCorrect == Spec => []TypeOK
<1>1. Inv => TypeOK
  BY DEF Inv
<1> QED BY <1>1, InitInv, NextInv, PTL DEF Spec

(***************************************************************************)
(* While a save is between reading and renaming, what it read is still     *)
(* what is on disk: the store's lock (storage.go) loses no update.         *)
(***************************************************************************)
THEOREM SavesAreFresh == Spec => []CopyIsFresh
<1>1. Inv => CopyIsFresh
  BY DEF Inv, SaveReady, CopyIsFresh, Saving
<1> QED BY <1>1, InitInv, NextInv, PTL DEF Spec

(***************************************************************************)
(* Without a loss of power, {id}.json is never partial, whatever crashes   *)
(* and failed writes there are (writeConversation of storage.go).          *)
(***************************************************************************)
THEOREM FilesAreWhole == ~PowerLoss => (Spec => []NeverTorn)
<1> SUFFICES ASSUME ~PowerLoss PROVE Spec => []NeverTorn
  OBVIOUS
<1>1. Inv => NeverTorn
  BY DEF Inv
<1> QED BY <1>1, InitInv, NextInv, PTL DEF Spec

---------------------------------------------------------------------------
(***************************************************************************)
(* The refinement: a method takes effect at the step that gives it its     *)
(* outcome.                                                                *)
(***************************************************************************)
LEMMA MissingFile ==
  ASSUME NEW m \in Atomic!Updates, NEW r, NEW file, ~file.exists
  PROVE  Atomic!Perform(m, r, file) = Refused(file, "notFound")
<1>1. Atomic!Perform(m, r, file) \in
        {Atomic!SaveUserMessage(file, r), Atomic!SaveAssistantMessage(file, r),
         Atomic!SaveClarificationRound(file, r, 1, 1),
         Atomic!UpdateClarificationAnswers(file, r, 1),
         Atomic!SaveTitle(file, "renamed"), Atomic!CloseConversation(file)}
  BY DEF Atomic!Perform, Atomic!Updates
<1>2. \A result : Atomic!Update(file, result) = Refused(file, "notFound")
  BY DEF Atomic!Update, Atomic!Refused, Refused
<1> QED
  BY <1>1, <1>2
  DEF Atomic!SaveUserMessage, Atomic!SaveAssistantMessage, Atomic!SaveClarificationRound,
      Atomic!UpdateClarificationAnswers, Atomic!SaveTitle, Atomic!CloseConversation

\* The three ways in which a method takes effect here.
LEMMA WriteTakesEffect ==
  ASSUME Inv, NEW r \in Requests, pc[r] \notin {"idle", "return"},
         UNCHANGED <<used, called>>,
         called[r].method \notin Atomic!Reads,
         NEW res, res = Atomic!Perform(called[r].method, r, disk[called[r].id]),
         disk' = [disk EXCEPT ![called[r].id] = res.file],
         outcome' = [outcome EXCEPT ![r] = Atomic!Outcome(res.err, <<>>)]
  PROVE  Atomic!Apply(r)
<1>1. called[r] # NoCall /\ outcome[r] = Atomic!Pending
  BY DEF Inv, OnItsWay
<1> QED BY <1>1 DEF Atomic!Apply, Atomic!Takes

\* A read that returns what is on the disk.
LEMMA GetTakesEffect ==
  ASSUME Inv, NEW r \in Requests, pc[r] \notin {"idle", "return"},
         UNCHANGED <<disk, used, called>>,
         called[r].method = "get",
         IF disk[called[r].id].exists
         THEN outcome' = [outcome EXCEPT ![r] =
                            Atomic!Outcome("none", [i \in {called[r].id} |-> disk[called[r].id]])]
         ELSE outcome' = [outcome EXCEPT ![r] = Atomic!Outcome("notFound", <<>>)]
  PROVE  Atomic!Apply(r)
<1>1. called[r] # NoCall /\ outcome[r] = Atomic!Pending
  BY DEF Inv, OnItsWay
<1> QED BY <1>1 DEF Atomic!Apply, Atomic!Takes

\* A call that fails and leaves the disk alone.
LEMMA FaultTakesEffect ==
  ASSUME Inv, NEW r \in Requests, pc[r] \notin {"idle", "return"},
         UNCHANGED <<disk, used, called>>,
         DiskFaults,
         outcome' = [outcome EXCEPT ![r] = Atomic!Outcome("io", <<>>)]
  PROVE  Atomic!Apply(r)
<1>1. called[r] # NoCall /\ outcome[r] = Atomic!Pending
  BY DEF Inv, OnItsWay
<1> QED BY <1>1 DEF Atomic!Apply, Atomic!Takes

AtomicStep == [Atomic!Next]_(Atomic!storeVars)

(***************************************************************************)
(* Step by step: what the abstract store does when a caller takes the      *)
(* step.                                                                   *)
(***************************************************************************)
LEMMA ReadFileIsAtomic ==
  ASSUME Inv, NeverTorn, NEW r \in Requests, ReadFile(r)
  PROVE  AtomicStep
<1> DEFINE id == called[r].id
           res == Atomic!Perform(called[r].method, r, disk[id])
<1>1. /\ pc[r] = "readFile" /\ UNCHANGED <<disk, used, called>>
      /\ called[r].method \in Atomic!Updates \cup {"get"}
  BY DEF ReadFile, diskVars, Inv, OnItsWay
<1>2. id \in Ids /\ disk[id] # Torn /\ disk[id] \in Conversations
  BY <1>1, CallTyped DEF Inv, TypeOK, Files, NeverTorn
<1>3. disk = [disk EXCEPT ![id] = disk[id]]
  BY <1>2 DEF Inv, TypeOK
<1>4. CASE UNCHANGED outcome
  BY <1>1, <1>4 DEF AtomicStep, Atomic!storeVars
<1>5. CASE called[r].method = "get" /\ disk[id].exists
           /\ outcome' = [outcome EXCEPT ![r] = Atomic!Outcome("none", [i \in {id} |-> disk[id]])]
  BY <1>1, <1>5, GetTakesEffect DEF AtomicStep, Atomic!Next
<1>6. CASE called[r].method = "get" /\ ~disk[id].exists
           /\ outcome' = [outcome EXCEPT ![r] = Atomic!Outcome("notFound", <<>>)]
  BY <1>1, <1>6, GetTakesEffect DEF AtomicStep, Atomic!Next
<1>7. CASE called[r].method \in Atomic!Updates /\ ~disk[id].exists
           /\ outcome' = [outcome EXCEPT ![r] = Atomic!Outcome("notFound", <<>>)]
  <2>1. res.err = "notFound" /\ res.file = disk[id]
    BY <1>7, MissingFile DEF Refused
  <2> HIDE DEF res
  <2>2. Atomic!Apply(r)
    BY <1>1, <1>3, <1>7, <2>1, WriteTakesEffect DEF Atomic!Reads, Atomic!Updates, res
  <2> QED BY <2>2 DEF AtomicStep, Atomic!Next
<1>8. CASE called[r].method \in Atomic!Updates /\ res.err # "none"
           /\ outcome' = [outcome EXCEPT ![r] = Atomic!Outcome(res.err, <<>>)]
  <2>1. res.file = disk[id]
    BY <1>2, <1>8, PerformedFile DEF Writes
  <2> HIDE DEF res
  <2>2. Atomic!Apply(r)
    BY <1>1, <1>3, <1>8, <2>1, WriteTakesEffect DEF Atomic!Reads, Atomic!Updates, res
  <2> QED BY <2>2 DEF AtomicStep, Atomic!Next
<1>9. CASE DiskFaults
           /\ outcome' = [outcome EXCEPT ![r] = Atomic!Outcome("io", <<>>)]
  BY <1>1, <1>9, FaultTakesEffect DEF AtomicStep, Atomic!Next
<1> HIDE DEF res
<1> QED
  BY <1>1, <1>2, <1>4, <1>5, <1>6, <1>7, <1>8, <1>9
  DEF ReadFile, Finish, Parses, res

\* The last entry a listing reads is where the listing takes effect.
LEMMA ReadEntryIsAtomic ==
  ASSUME Inv, NeverTorn, NEW r \in Requests, ReadEntry(r)
  PROVE  AtomicStep
<1> DEFINE stored == {i \in Ids : disk[i].exists}
<1>1. /\ pc[r] = "readEntry" /\ UNCHANGED <<disk, used, called>>
      /\ called[r].method = "list"
      /\ called[r] # NoCall /\ outcome[r] = Atomic!Pending
  BY DEF ReadEntry, diskVars, Inv, OnItsWay
<1>2. CASE outcome' = outcome
  BY <1>1, <1>2 DEF AtomicStep, Atomic!storeVars
<1>3. CASE /\ left[r] = {}
           /\ outcome' = [outcome EXCEPT ![r] = Atomic!Outcome("none", metas[r])]
  <2>1. metas[r] = [i \in DOMAIN metas[r] |-> disk[i]]
    BY <1>1 DEF Inv, ListReady
  <2>2. DOMAIN metas[r] \subseteq stored
    BY <1>1 DEF Inv, TypeOK, ListReady, FilesExist
  <2>3. ~DiskFaults => stored \subseteq DOMAIN metas[r]
    BY <1>1, <1>3, Constructors DEF Inv, ListReady, NeverTorn
  <2>4. DOMAIN metas[r] \in (IF DiskFaults THEN SUBSET stored ELSE {stored})
    BY <2>2, <2>3
  <2> HIDE DEF stored
  <2>5. \E readable \in (IF DiskFaults THEN SUBSET stored ELSE {stored}) :
          outcome' = [outcome EXCEPT ![r] =
                        Atomic!Outcome("none", [i \in readable |-> disk[i]])]
    BY <1>3, <2>1, <2>4
  <2>6. Atomic!Apply(r)
    BY <1>1, <2>5 DEF Atomic!Apply, Atomic!Takes, stored
  <2> QED BY <2>6 DEF AtomicStep, Atomic!Next
<1> QED BY <1>2, <1>3 DEF ReadEntry, Finish

\* Of the steps of a save only the rename changes a conversation.
LEMMA SavingIsAtomic ==
  ASSUME Inv, NEW r \in Requests, ReadDir(r) \/ OpenTmp(r) \/ WriteTmp(r) \/ Rename(r)
  PROVE  AtomicStep
<1> DEFINE res == Atomic!Perform(called[r].method, r, disk[called[r].id])
<1>1. /\ pc[r] \in {"readDir", "openTmp", "writeTmp", "rename"}
      /\ UNCHANGED <<used, called>>
  BY DEF ReadDir, OpenTmp, WriteTmp, Rename
<1>2. \/ disk' = disk /\ outcome' = outcome
      \/ /\ DiskFaults /\ disk' = disk
         /\ outcome' = [outcome EXCEPT ![r] = Atomic!Outcome("io", <<>>)]
      \/ /\ pc[r] = "rename"
         /\ disk' = [disk EXCEPT ![called[r].id] = tmp[called[r].id]]
         /\ outcome' = [outcome EXCEPT ![r] = Atomic!Outcome("none", <<>>)]
  BY DEF ReadDir, OpenTmp, WriteTmp, Rename, Finish, diskVars
<1>3. pc[r] = "rename" => /\ called[r].method \notin Atomic!Reads
                          /\ res.err = "none" /\ res.file = tmp[called[r].id]
  BY DEF Inv, OnItsWay, SaveReady, Saving, Atomic!Reads, Atomic!Updates
<1> HIDE DEF res
<1>4. CASE disk' = disk /\ outcome' = outcome
  BY <1>1, <1>4 DEF AtomicStep, Atomic!storeVars
<1>5. CASE /\ DiskFaults /\ disk' = disk
           /\ outcome' = [outcome EXCEPT ![r] = Atomic!Outcome("io", <<>>)]
  BY <1>1, <1>5, FaultTakesEffect DEF AtomicStep, Atomic!Next
<1>6. CASE /\ pc[r] = "rename"
           /\ disk' = [disk EXCEPT ![called[r].id] = tmp[called[r].id]]
           /\ outcome' = [outcome EXCEPT ![r] = Atomic!Outcome("none", <<>>)]
  <2>1. Atomic!Apply(r)
    BY <1>1, <1>3, <1>6, WriteTakesEffect DEF res
  <2> QED BY <2>1 DEF AtomicStep, Atomic!Next
<1> QED BY <1>2, <1>4, <1>5, <1>6

\* The unlink is where a delete takes effect.
LEMMA UnlinkIsAtomic ==
  ASSUME Inv, NeverTorn, NEW r \in Requests, Unlink(r)
  PROVE  AtomicStep
<1> DEFINE id == called[r].id
           res == Atomic!Perform("delete", r, disk[id])
<1>1. /\ pc[r] = "unlink" /\ UNCHANGED <<used, called>>
      /\ called[r].method = "delete" /\ called[r].method \notin Atomic!Reads
  BY DEF Unlink, Inv, OnItsWay, Atomic!Reads
<1>2. id \in Ids /\ disk[id] # Torn
  BY <1>1, CallTyped DEF NeverTorn
<1>3. disk = [disk EXCEPT ![id] = disk[id]]
  BY <1>2 DEF Inv, TypeOK
<1>4. /\ disk[id] # NoConversation => res.err = "none" /\ res.file = NoConversation
      /\ disk[id] = NoConversation => res.err = "notFound" /\ res.file = disk[id]
  BY <1>2, DeletedFile, Constructors DEF Inv, FilesExist, Written, Refused
<1> HIDE DEF res
<1>5. \/ /\ disk' = [disk EXCEPT ![id] = res.file]
         /\ outcome' = [outcome EXCEPT ![r] = Atomic!Outcome(res.err, <<>>)]
      \/ /\ DiskFaults /\ disk' = disk
         /\ outcome' = [outcome EXCEPT ![r] = Atomic!Outcome("io", <<>>)]
  BY <1>3, <1>4 DEF Unlink, Finish
<1>6. Atomic!Apply(r)
  BY <1>1, <1>5, WriteTakesEffect, FaultTakesEffect DEF res
<1> QED BY <1>6 DEF AtomicStep, Atomic!Next

(***************************************************************************)
(* Every step of the files is a step of AtomicStore or a stutter.          *)
(***************************************************************************)
LEMMA StepIsAtomic ==
  ASSUME Inv, ~PowerLoss, [Next]_vars
  PROVE  AtomicStep
<1>1. NeverTorn
  BY DEF Inv
<1>2. CASE UNCHANGED vars
  BY <1>2 DEF vars, AtomicStep, Atomic!storeVars
<1>3. ASSUME NEW r \in Requests, Enter(r)
      PROVE  AtomicStep
  BY <1>3 DEF Enter, AtomicStep, Atomic!Next
<1>4. ASSUME NEW r \in Requests, Lock(r)
      PROVE  AtomicStep
  BY <1>4 DEF Lock, diskVars, AtomicStep, Atomic!storeVars
<1>5. ASSUME NEW r \in Requests, Return(r)
      PROVE  AtomicStep
  BY <1>5 DEF Return, AtomicStep, Atomic!Next
<1>6. CASE Crash
  BY <1>6 DEF Crash, Restart, diskVars, AtomicStep, Atomic!Next, Atomic!Crash
<1>7. ~PowerFails /\ \A i \in Ids : ~WriteBack(i)
  BY DEF PowerFails, WriteBack
<1> QED
  BY <1>1, <1>2, <1>3, <1>4, <1>5, <1>6, <1>7,
     ReadFileIsAtomic, ReadEntryIsAtomic, SavingIsAtomic, UnlinkIsAtomic
  DEF Next, Step

(***************************************************************************)
(* The lock, the temporary file and the rename implement AtomicStore: every*)
(* call takes effect at one instant with the outcome it reports, whatever  *)
(* crashes and disk errors there are, as long as the machine keeps running.*)
(***************************************************************************)
THEOREM FilesImplementAtomicStore == ~PowerLoss => (Spec => Linearizable)
<1> SUFFICES ASSUME ~PowerLoss PROVE Spec => Linearizable
  OBVIOUS
<1>1. Init => Atomic!Init
  BY DEF Init
<1>2. Inv /\ [Next]_vars => [Atomic!Next]_(Atomic!storeVars)
  BY StepIsAtomic DEF AtomicStep
<1> QED BY <1>1, <1>2, InitInv, NextInv, PTL DEF Spec, Linearizable, Atomic!Spec

---------------------------------------------------------------------------
(***************************************************************************)
(* Damaged files.  That no save writes over one needs more than the lock:  *)
(* an update has seen a conversation in the file, and an id that is being  *)
(* created has no file because no one has drawn it before.                 *)
(***************************************************************************)
Creates(r) == called[r] # NoCall /\ called[r].method = "create"

FreshIds ==
  /\ \A i \in Ids \ used : disk[i] = NoConversation /\ durable[i] = NoConversation
  /\ \A r \in Requests : Creates(r) =>
       /\ called[r].id \in used
       /\ pc[r] # "return" => disk[called[r].id] = NoConversation
       /\ \A q \in Requests : q # r /\ Creates(q) => called[q].id # called[r].id

UpdatesSaw ==
  \A r \in Requests : pc[r] \in Saving /\ called[r].method # "create" =>
    disk[called[r].id] \notin {Torn, NoConversation}

\* What a loss of power damaged is damaged on the disk too.
DamageIsDurable == \A i \in Ids : disk[i] = Torn => durable[i] = Torn

DamageInv == Inv /\ FreshIds /\ UpdatesSaw /\ DamageIsDurable

(***************************************************************************)
(* Nothing is damaged at the start, and every step keeps the invariant.    *)
(***************************************************************************)
LEMMA InitDamageInv == Init => DamageInv
<1> SUFFICES ASSUME Init PROVE DamageInv
  OBVIOUS
<1>1. /\ disk = [i \in Ids |-> NoConversation] /\ durable = disk
      /\ called = [r \in Requests |-> NoCall]
      /\ pc = [r \in Requests |-> "idle"]
  <2>1. Atomic!NoConversation = NoConversation
    BY DEF Atomic!NoConversation, NoConversation
  <2> QED BY <2>1 DEF Init, Atomic!Init
<1> QED
  BY <1>1, InitInv, Constructors
  DEF DamageInv, FreshIds, Creates, UpdatesSaw, DamageIsDurable, Saving

\* Steps that leave {id}.json and the calls alone.
LEMMA FilesUntouched ==
  ASSUME DamageInv, NEW r \in Requests,
         Lock(r) \/ ReadFile(r) \/ ReadDir(r) \/ ReadEntry(r) \/ OpenTmp(r) \/ WriteTmp(r)
  PROVE  FreshIds' /\ UpdatesSaw' /\ DamageIsDurable'
<1>1. UNCHANGED <<disk, durable, used, called>>
  BY DEF Lock, ReadFile, ReadDir, ReadEntry, OpenTmp, WriteTmp, diskVars
<1>2. pc[r] # "return" /\ \A q \in Requests \ {r} : pc'[q] = pc[q]
  BY DEF Lock, ReadFile, ReadDir, ReadEntry, OpenTmp, WriteTmp, Goto, Finish,
         DamageInv, Inv, TypeOK
<1>3. FreshIds' /\ DamageIsDurable'
  BY <1>1, <1>2 DEF DamageInv, FreshIds, Creates, DamageIsDurable
<1>4. pc'[r] \in Saving /\ called[r].method # "create" =>
        disk[called[r].id] \notin {Torn, NoConversation}
  <2>1. CASE Lock(r)
    BY <2>1 DEF Lock, Goto, DamageInv, Inv, TypeOK, Saving
  <2>2. CASE ReadFile(r)
    BY <2>2, Constructors DEF ReadFile, Finish, Goto, Parses, DamageInv, Inv, TypeOK, Saving
  <2>3. CASE ReadDir(r) \/ ReadEntry(r)
    BY <2>3 DEF ReadDir, ReadEntry, Finish, Goto, DamageInv, Inv, TypeOK, Saving
  <2>4. CASE OpenTmp(r) \/ WriteTmp(r)
    BY <2>4 DEF OpenTmp, WriteTmp, Finish, Goto, DamageInv, UpdatesSaw, Saving
  <2> QED BY <2>1, <2>2, <2>3, <2>4
<1>5. UpdatesSaw'
  BY <1>1, <1>2, <1>4 DEF DamageInv, UpdatesSaw
<1> QED BY <1>3, <1>5

\* A caller of create brings an id nobody has used.
LEMMA EnterKeepsIds ==
  ASSUME DamageInv, NEW r \in Requests, Enter(r)
  PROVE  FreshIds' /\ UpdatesSaw' /\ DamageIsDurable'
<1>1. PICK c \in Atomic!Calls :
        /\ called' = [called EXCEPT ![r] = c]
        /\ used' = IF c.method = "create" THEN used \cup {c.id} ELSE used
        /\ c.method = "create" => c.id \notin used
  BY DEF Enter, Atomic!Call
<1>2. /\ pc[r] = "idle" /\ pc' = [pc EXCEPT ![r] = "lock"]
      /\ UNCHANGED <<disk, durable>>
      /\ c.id \in Ids
  BY DEF Enter, Goto, Atomic!Call, Atomic!Calls
<1>3. FreshIds'
  BY <1>1, <1>2 DEF DamageInv, Inv, TypeOK, FreshIds, Creates
<1> QED
  BY <1>1, <1>2, <1>3 DEF DamageInv, Inv, TypeOK, UpdatesSaw, DamageIsDurable, Saving

\* A caller that writes the file of an id.
LEMMA FileWritten ==
  ASSUME DamageInv, NEW r \in Requests, Rename(r) \/ Unlink(r)
  PROVE  /\ FreshIds' /\ UpdatesSaw' /\ DamageIsDurable'
         /\ \A i \in Ids : disk[i] = Torn => disk'[i] \in {Torn, NoConversation}
<1> DEFINE id == called[r].id
<1>1. /\ pc[r] \in {"rename", "unlink"} /\ pc' = [pc EXCEPT ![r] = "return"]
      /\ UNCHANGED <<durable, used, called>>
  BY DEF Rename, Unlink, Finish, Goto
<1>2. /\ id \in Ids
      /\ called[r] # NoCall
      /\ pc[r] = "rename" => /\ tmp[id] = copy[r] /\ copy[r] \in Conversations
                             /\ called[r].method # "delete"
      /\ pc[r] = "unlink" => called[r].method = "delete"
  BY <1>1, CallTyped
  DEF DamageInv, Inv, TypeOK, OnItsWay, SaveReady, Saving, Atomic!Updates
<1>3. \/ disk' = disk
      \/ /\ pc[r] = "unlink" /\ disk' = [disk EXCEPT ![id] = NoConversation]
      \/ /\ pc[r] = "rename" /\ disk' = [disk EXCEPT ![id] = copy[r]]
  BY <1>1, <1>2 DEF Rename, Unlink
<1>4. pc[r] = "rename" => disk[id] # Torn /\ id \in used
  BY <1>1, <1>2, Constructors DEF DamageInv, FreshIds, Creates, UpdatesSaw, Saving
<1>5. ASSUME NEW q \in Requests, q # r, Creates(q), pc[q] # "return", pc[r] = "rename"
      PROVE  called[q].id # id
  BY <1>1, <1>2, <1>5 DEF DamageInv, FreshIds, UpdatesSaw, Creates, Saving
<1>6. FreshIds'
  BY <1>1, <1>2, <1>3, <1>4, <1>5 DEF DamageInv, Inv, TypeOK, FreshIds, Creates
<1>7. UpdatesSaw'
  BY <1>1, Alone DEF DamageInv, Inv, TypeOK, UpdatesSaw, Saving
<1>8. \A i \in Ids : disk[i] = Torn => disk'[i] \in {Torn, NoConversation}
  BY <1>3, <1>4 DEF DamageInv, Inv, TypeOK
<1>9. DamageIsDurable'
  BY <1>1, <1>2, <1>3, Constructors DEF DamageInv, Inv, TypeOK, DamageIsDurable
<1> QED BY <1>6, <1>7, <1>8, <1>9

\* A call that is over keeps its id used.
LEMMA ReturnKeepsIds ==
  ASSUME DamageInv, NEW r \in Requests, Return(r)
  PROVE  FreshIds' /\ UpdatesSaw' /\ DamageIsDurable'
<1>1. /\ pc' = [pc EXCEPT ![r] = "idle"]
      /\ called' = [called EXCEPT ![r] = NoCall]
      /\ UNCHANGED <<disk, durable, used>>
  BY DEF Return, Atomic!Return, Goto
<1> QED
  BY <1>1 DEF DamageInv, Inv, TypeOK, FreshIds, Creates, UpdatesSaw, DamageIsDurable, Saving

\* Crashes, losses of power and writing back.
LEMMA MachineKeepsDamage ==
  ASSUME DamageInv, Crash \/ PowerFails \/ \E i \in Ids : WriteBack(i)
  PROVE  /\ FreshIds' /\ UpdatesSaw' /\ DamageIsDurable'
         /\ \A i \in Ids : disk[i] = Torn => disk'[i] \in {Torn, NoConversation}
<1>1. CASE Crash
  BY <1>1
  DEF Crash, Restart, diskVars, DamageInv, FreshIds, Creates, UpdatesSaw, DamageIsDurable, Saving
<1>2. CASE PowerFails
  <2>1. /\ durable' = disk'
        /\ \A i \in Ids : /\ disk[i] = durable[i] => disk'[i] = disk[i]
                          /\ disk[i] = NoConversation /\ durable[i] = NoConversation
                               => disk'[i] = NoConversation
    BY <1>2 DEF PowerFails
  <2>2. /\ called' = [r \in Requests |-> NoCall]
        /\ pc' = [r \in Requests |-> "idle"]
        /\ UNCHANGED used
    BY <1>2 DEF PowerFails, Restart
  <2> QED
    BY <2>1, <2>2 DEF DamageInv, FreshIds, Creates, UpdatesSaw, DamageIsDurable, Saving
<1>3. ASSUME NEW i \in Ids, WriteBack(i)
      PROVE  /\ FreshIds' /\ UpdatesSaw' /\ DamageIsDurable'
             /\ \A j \in Ids : disk[j] = Torn => disk'[j] \in {Torn, NoConversation}
  BY <1>3
  DEF WriteBack, DamageInv, Inv, TypeOK, FreshIds, Creates, UpdatesSaw, DamageIsDurable
<1> QED BY <1>1, <1>2, <1>3

\* Every step keeps the invariant.
LEMMA NextDamageInv ==
  ASSUME DamageInv, [Next]_vars
  PROVE  /\ DamageInv'
         /\ \A i \in Ids : disk[i] = Torn => disk'[i] \in {Torn, NoConversation}
<1>1. Inv'
  BY NextInv DEF DamageInv
<1>2. CASE UNCHANGED vars
  BY <1>1, <1>2
  DEF vars, DamageInv, FreshIds, Creates, UpdatesSaw, DamageIsDurable
<1>3. ASSUME NEW r \in Requests,
             Enter(r) \/ Lock(r) \/ ReadFile(r) \/ ReadDir(r) \/ ReadEntry(r)
             \/ OpenTmp(r) \/ WriteTmp(r) \/ Return(r)
      PROVE  /\ FreshIds' /\ UpdatesSaw' /\ DamageIsDurable'
             /\ disk' = disk
  <2>1. disk' = disk
    BY <1>3
    DEF Enter, Lock, ReadFile, ReadDir, ReadEntry, OpenTmp, WriteTmp, Return,
        Atomic!Call, Atomic!Return, diskVars
  <2> QED BY <1>3, <2>1, EnterKeepsIds, FilesUntouched, ReturnKeepsIds
<1> QED
  BY <1>1, <1>2, <1>3, FileWritten, MachineKeepsDamage DEF Next, Step, DamageInv

(***************************************************************************)
(* A file that a loss of power damaged stays as it is until it is deleted: *)
(* readConversation refuses it, so no update writes over what is left of   *)
(* it, and no conversation is created under its id.                        *)
(***************************************************************************)
THEOREM DamageStays == Spec => DamageIsContained
<1>1. DamageInv /\ [Next]_vars =>
        [\A i \in Ids : disk[i] = Torn => disk'[i] \in {Torn, NoConversation}]_vars
  BY NextDamageInv
<1>2. DamageInv /\ [Next]_vars => DamageInv'
  BY NextDamageInv
<1> QED BY <1>1, <1>2, InitDamageInv, PTL DEF Spec, DamageIsContained

===========================================================================
