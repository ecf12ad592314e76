---------------------------- MODULE StorageFiles ---------------------------
(***************************************************************************)
(* How Store of internal/storage/storage.go realises its methods: a        *)
(* store-wide RWMutex, one JSON file per conversation, and updates that    *)
(* read the file, write {id}.json.tmp and rename it over {id}.json.  A     *)
(* step is one system call.  The process may crash between any two, and,   *)
(* where PowerLoss says so, the machine may lose what is not on the disk   *)
(* yet: nothing in the code asks for a sync.                               *)
(***************************************************************************)
EXTENDS ConversationStore

CONSTANTS
  Ids,         \* conversation ids
  NoCall,      \* a caller that is not in the store
  DiskFaults,  \* whether the file system may fail
  Torn,        \* a file that holds no JSON document: part of one, or nothing
  MaxCalls,    \* bound: calls of the store
  PowerLoss    \* whether the machine may lose power

ASSUME StorageAssumption ==
  /\ MaxCalls \in Nat
  /\ DiskFaults \in BOOLEAN
  /\ PowerLoss \in BOOLEAN
  /\ Torn \notin Conversations

VARIABLES
  disk,     \* {id}.json as the process sees it, or NoConversation
  tmp,      \* {id}.json.tmp, or NoConversation
  durable,  \* {id}.json as it would be after a loss of power
  used, called, outcome,  \* as in AtomicStore
  pc,       \* the next step of each caller
  holds,    \* the lock each caller holds: "none", "read" or "write"
  copy,     \* the conversation a caller has in memory
  left,     \* the directory entries ListConversations has still to read
  metas,    \* and what it has read
  calls     \* the calls made

diskVars == <<disk, tmp, durable>>
listing == <<left, metas>>
vars == <<disk, tmp, durable, used, called, outcome, pc, holds, copy, left, metas, calls>>

Atomic == INSTANCE AtomicStore WITH files <- disk

ASSUME CallAssumption == NoCall \notin Atomic!Calls

Init ==
  /\ Atomic!Init
  /\ tmp = [i \in Ids |-> NoConversation]
  /\ durable = disk
  /\ pc = [r \in Requests |-> "idle"]
  /\ holds = [r \in Requests |-> "none"]
  /\ copy = [r \in Requests |-> NoConversation]
  /\ left = [r \in Requests |-> {}]
  /\ metas = [r \in Requests |-> <<>>]
  /\ calls = 0

---------------------------------------------------------------------------
(* Entering and leaving a method.                                          *)

Goto(r, next) == pc' = [pc EXCEPT ![r] = next]

\* The method is about to return this: the deferred Unlock comes next.
Finish(r, e, g) ==
  /\ outcome' = [outcome EXCEPT ![r] = Atomic!Outcome(e, g)]
  /\ Goto(r, "return")

Enter(r) ==
  /\ pc[r] = "idle"
  /\ calls < MaxCalls
  /\ calls' = calls + 1
  /\ Atomic!Call(r)
  /\ Goto(r, "lock")
  /\ UNCHANGED <<tmp, durable, holds, copy, listing>>

Grants_SavesUnlocked(method) ==
  method \in Atomic!Reads => \A q \in Requests : holds[q] # "write"

\* RWMutex: one writer, or any number of readers.
Grants(method) ==
  IF method \in Atomic!Reads
  THEN \A q \in Requests : holds[q] # "write"
  ELSE \A q \in Requests : holds[q] = "none"

Lock(r) ==
  /\ pc[r] = "lock"
  /\ Grants(called[r].method)
  /\ holds' = [holds EXCEPT ![r] = IF called[r].method \in Atomic!Reads THEN "read" ELSE "write"]
  /\ Goto(r, CASE called[r].method = "create" -> "openTmp"
               [] called[r].method = "delete" -> "unlink"
               [] called[r].method = "list"   -> "readDir"
               [] OTHER                       -> "readFile")
  /\ copy' = [copy EXCEPT ![r] = IF called[r].method = "create" THEN CreateConversation ELSE @]
  /\ UNCHANGED <<diskVars, used, called, outcome, listing, calls>>

Return_LockKept(r) ==
  /\ pc[r] = "return"
  /\ Atomic!Return(r)
  /\ Goto(r, "idle")
  /\ holds' = [holds EXCEPT ![r] = IF outcome[r].err = "closed" THEN @ ELSE "none"]
  /\ copy' = [copy EXCEPT ![r] = NoConversation]
  /\ UNCHANGED <<tmp, durable, listing, calls>>

Return(r) ==
  /\ pc[r] = "return"
  /\ Atomic!Return(r)
  /\ Goto(r, "idle")
  /\ holds' = [holds EXCEPT ![r] = "none"]
  /\ copy' = [copy EXCEPT ![r] = NoConversation]
  /\ UNCHANGED <<tmp, durable, listing, calls>>

---------------------------------------------------------------------------
(* readConversation, and what each method makes of the file.               *)

\* Unmarshal refuses a torn file, so no method goes on with one.
Parses(file) == file # Torn

ReadFile_TornIsEmpty(r) ==
  LET id == called[r].id
      file == IF Parses(disk[id]) THEN disk[id] ELSE CreateConversation
      res == Atomic!Perform(called[r].method, r, file)
  IN  /\ pc[r] = "readFile"
      /\ IF called[r].method = "get"
         THEN /\ Finish(r, "none", [i \in {id} |-> file])
              /\ UNCHANGED copy
         ELSE IF res.err = "none"
         THEN /\ copy' = [copy EXCEPT ![r] = res.file]
              /\ Goto(r, "openTmp")
              /\ UNCHANGED outcome
         ELSE Finish(r, res.err, <<>>) /\ UNCHANGED copy
      /\ UNCHANGED <<diskVars, used, called, holds, listing, calls>>

ReadFile(r) ==
  LET id == called[r].id
      file == disk[id]
      res == Atomic!Perform(called[r].method, r, file)
  IN  /\ pc[r] = "readFile"
      /\ \/ /\ Parses(file)
            /\ called[r].method = "get" \/ ~file.exists
            /\ IF file.exists
               THEN Finish(r, "none", [i \in {id} |-> file])
               ELSE Finish(r, "notFound", <<>>)
            /\ UNCHANGED copy
         \/ /\ Parses(file)
            /\ called[r].method # "get" /\ file.exists
            /\ IF res.err = "none"
               THEN /\ copy' = [copy EXCEPT ![r] = res.file]
                    /\ Goto(r, "openTmp")
                    /\ UNCHANGED outcome
               ELSE Finish(r, res.err, <<>>) /\ UNCHANGED copy
         \/ /\ ~Parses(file) \/ DiskFaults
            /\ Finish(r, "io", <<>>)
            /\ UNCHANGED copy
      /\ UNCHANGED <<diskVars, used, called, holds, listing, calls>>

\* ListConversations: the names first, then one file after the other; a file
\* that cannot be read or parsed is left out.
ReadDir(r) ==
  /\ pc[r] = "readDir"
  /\ \/ /\ left' = [left EXCEPT ![r] = {i \in Ids : disk[i] # NoConversation}]
        /\ Goto(r, "readEntry")
        /\ UNCHANGED outcome
     \/ /\ DiskFaults
        /\ Finish(r, "io", <<>>)
        /\ UNCHANGED left
  /\ UNCHANGED <<diskVars, used, called, holds, copy, metas, calls>>

ReadEntry(r) ==
  /\ pc[r] = "readEntry"
  /\ \/ \E i \in left[r] :
          /\ left' = [left EXCEPT ![r] = @ \ {i}]
          /\ \/ /\ Parses(disk[i]) /\ disk[i] # NoConversation
                /\ metas' = [metas EXCEPT ![r] =
                     [j \in DOMAIN @ \cup {i} |-> IF j = i THEN disk[i] ELSE @[j]]]
             \/ /\ ~Parses(disk[i]) \/ disk[i] = NoConversation \/ DiskFaults
                /\ UNCHANGED metas
          /\ UNCHANGED <<outcome, pc>>
     \/ /\ left[r] = {}
        /\ Finish(r, "none", metas[r])
        /\ metas' = [metas EXCEPT ![r] = <<>>]
        /\ UNCHANGED left
  /\ UNCHANGED <<diskVars, used, called, holds, copy, calls>>

---------------------------------------------------------------------------
(* writeConversation, and os.Remove of DeleteConversation.                 *)

\* WriteFile truncates the temporary file and fills it.
OpenTmp(r) ==
  /\ pc[r] = "openTmp"
  /\ \/ /\ tmp' = [tmp EXCEPT ![called[r].id] = Torn]
        /\ Goto(r, "writeTmp")
        /\ UNCHANGED outcome
     \/ /\ DiskFaults
        /\ Finish(r, "io", <<>>)
        /\ UNCHANGED tmp
  /\ UNCHANGED <<disk, durable, used, called, holds, copy, listing, calls>>

WriteTmp_RenameAnyway(r) ==
  /\ pc[r] = "writeTmp"
  /\ tmp' \in {[tmp EXCEPT ![called[r].id] = copy[r]]} \cup (IF DiskFaults THEN {tmp} ELSE {})
  /\ Goto(r, "rename")
  /\ UNCHANGED <<disk, durable, used, called, outcome, holds, copy, listing, calls>>

WriteTmp(r) ==
  /\ pc[r] = "writeTmp"
  /\ \/ /\ tmp' = [tmp EXCEPT ![called[r].id] = copy[r]]
        /\ Goto(r, "rename")
        /\ UNCHANGED outcome
     \/ /\ DiskFaults
        /\ Finish(r, "io", <<>>)
        /\ UNCHANGED tmp
  /\ UNCHANGED <<disk, durable, used, called, holds, copy, listing, calls>>

\* A failed rename leaves the file; removing the temporary one may fail too.
Rename(r) ==
  LET id == called[r].id
  IN  /\ pc[r] = "rename"
      /\ \/ /\ disk' = [disk EXCEPT ![id] = tmp[id]]
            /\ tmp' = [tmp EXCEPT ![id] = NoConversation]
            /\ Finish(r, "none", <<>>)
         \/ /\ DiskFaults
            /\ tmp' \in {tmp, [tmp EXCEPT ![id] = NoConversation]}
            /\ Finish(r, "io", <<>>)
            /\ UNCHANGED disk
      /\ UNCHANGED <<durable, used, called, holds, copy, listing, calls>>

Unlink(r) ==
  LET id == called[r].id
  IN  /\ pc[r] = "unlink"
      /\ \/ /\ disk[id] # NoConversation
            /\ disk' = [disk EXCEPT ![id] = NoConversation]
            /\ Finish(r, "none", <<>>)
         \/ /\ disk[id] = NoConversation
            /\ Finish(r, "notFound", <<>>)
            /\ UNCHANGED disk
         \/ /\ DiskFaults
            /\ Finish(r, "io", <<>>)
            /\ UNCHANGED disk
      /\ UNCHANGED <<tmp, durable, used, called, holds, copy, listing, calls>>

---------------------------------------------------------------------------
(* The process and the machine.                                            *)

Restart ==
  /\ called' = [r \in Requests |-> NoCall]
  /\ outcome' = [r \in Requests |-> Atomic!Pending]
  /\ pc' = [r \in Requests |-> "idle"]
  /\ holds' = [r \in Requests |-> "none"]
  /\ copy' = [r \in Requests |-> NoConversation]
  /\ left' = [r \in Requests |-> {}]
  /\ metas' = [r \in Requests |-> <<>>]
  /\ UNCHANGED <<used, calls>>

\* Nothing removes a temporary file left behind; it is overwritten later.
Crash == Restart /\ UNCHANGED diskVars

\* The operating system writes a file back some time after the rename.
WriteBack(i) ==
  /\ PowerLoss
  /\ durable' = [durable EXCEPT ![i] = disk[i]]
  /\ UNCHANGED <<disk, tmp, used, called, outcome, pc, holds, copy, listing, calls>>

\* Of a file not written back, the old one is left, or the new one, or the
\* new name with data that never reached the disk.
PowerFails ==
  /\ PowerLoss
  /\ Restart
  /\ \E fate \in [Ids -> {"old", "new", "torn"}] :
       /\ disk' = [i \in Ids |->
            IF disk[i] = durable[i] \/ fate[i] = "old" THEN durable[i]
            ELSE IF fate[i] = "new" \/ disk[i] = NoConversation THEN disk[i]
            ELSE Torn]
       /\ durable' = disk'
  /\ tmp' = [i \in Ids |-> IF tmp[i] = NoConversation THEN NoConversation ELSE Torn]

Step(r) ==
  \/ ReadFile(r) \/ ReadDir(r) \/ ReadEntry(r) \/ OpenTmp(r) \/ WriteTmp(r)
  \/ Rename(r) \/ Unlink(r) \/ Return(r)

Next ==
  \/ \E r \in Requests : Enter(r) \/ Lock(r) \/ Step(r)
  \/ Crash
  \/ PowerFails
  \/ \E i \in Ids : WriteBack(i)

Spec == Init /\ [][Next]_vars

\* A system call ends, and a waiter of RWMutex is not passed over for ever: a
\* waiting writer keeps later readers out, and the mutex below is first come,
\* first served once a waiter starves.
LiveSpec == Spec /\ \A r \in Requests : WF_vars(Step(r)) /\ SF_vars(Lock(r))

---------------------------------------------------------------------------
(* Properties.                                                             *)

Files == Conversations \cup {Torn}

TypeOK ==
  /\ {disk, tmp, durable} \subseteq [Ids -> Files]
  /\ used \subseteq Ids
  /\ called \in [Requests -> Atomic!Calls \cup {NoCall}]
  /\ pc \in [Requests -> {"idle", "lock", "readFile", "readDir", "readEntry", "openTmp",
                          "writeTmp", "rename", "unlink", "return"}]
  /\ holds \in [Requests -> {"none", "read", "write"}]
  /\ \A r \in Requests : holds[r] = "none" <=> pc[r] \in {"idle", "lock"}
  /\ copy \in [Requests -> Conversations]
  /\ left \in [Requests -> SUBSET Ids]
  /\ \A r \in Requests : DOMAIN metas[r] \subseteq Ids

\* Every call of the store, the crashes included, behaves as one atomic
\* operation on whole conversations: no update is lost to another, no reader
\* or list sees part of one, and what a call reported is what it did.
Linearizable == Atomic!Spec

\* Only the temporary file of the conversation being saved is ever partial:
\* without a loss of power, no crash or failed write reaches {id}.json.
NeverTorn == \A i \in Ids : disk[i] # Torn

\* Exclusion as the code needs it: while a save is between reading and
\* renaming, what it read is still what is on disk.
CopyIsFresh ==
  \A r \in Requests :
    pc[r] \in {"openTmp", "writeTmp", "rename"} /\ called[r].method # "create"
    => copy[r] = Atomic!Perform(called[r].method, r, disk[called[r].id]).file

\* A file damaged by a loss of power stays as it is until it is deleted: no
\* save takes it for an empty conversation and writes over what is left.
DamageIsContained ==
  [][\A i \in Ids : disk[i] = Torn => disk'[i] \in {Torn, NoConversation}]_vars

\* Every call returns (or is lost in a crash): no path leaves the lock held.
EveryCallReturns == \A r \in Requests : called[r] # NoCall ~> called[r] = NoCall

===========================================================================
