--------------------------- MODULE DelegationStart ---------------------------
(***************************************************************************)
(* Delegations: HarnessDelegationCoordinator.start for an external Harness, *)
(* run by several callers over one MappingStore, and the projection of the  *)
(* end of the child's first Turn.                                           *)
(*                                                                         *)
(* Unlike the operations on Threads, those on Delegations do not pass       *)
(* through the Store's write queue: each checks memory, awaits its file,    *)
(* then writes memory and rebuilds every index, and they interleave at the  *)
(* awaits.  An operation on a Thread is one step here: ThreadStore is about *)
(* its inside.                                                              *)
(*                                                                         *)
(* Every call allocates one Delegation ID and one child Thread ID, so a     *)
(* call stands for both.  The Maps of the Store keep insertion order, which *)
(* decides what a rebuild that throws has indexed: they are sequences.      *)
(* Calls without a request ID (deduplicated by age and content), the model  *)
(* selection and the official Harness are left out.                         *)
(***************************************************************************)
EXTENDS Naturals, Sequences, FiniteSets, SequencesExt

CONSTANTS
  Calls,           \* calls of start, and the Delegation and child each allocates
  Requests,        \* request IDs given by the callers
  None,
  IdentityAtOpen,  \* TRUE: every Session knows its Native Session when it opens
  MaxConcurrent,   \* bound: calls under way at once
  MaxCrashes,      \* bound: crashes of the Host process
  MaxIoErrors      \* bound: files that cannot be written or removed

Status == {"creating", "running", "completed"}

ASSUME DelegationAssumption ==
  /\ IsFiniteSet(Calls) /\ None \notin Calls \cup Requests \cup Status \cup {"ready"}
  /\ IdentityAtOpen \in BOOLEAN
  /\ MaxConcurrent \in Nat \ {0} /\ {MaxCrashes, MaxIoErrors} \subseteq Nat

VARIABLES
  phase,        \* the Store: "up", "down", or "refused" (initialize threw)
  threads,      \* #records: the child Threads, in insertion order
  ready,        \* the child Threads that have a Native Session
  threadFiles,  \* [Calls -> {"creating", "ready", None}]
  delegations,  \* #delegations, in insertion order
  status,       \* their status
  files,        \* delegations/ID.json: the status on disk, or None
  index,        \* #delegationRequests, #delegationChildren and #createRequests
  pc,           \* where each call is
  request,      \* the request ID of each call
  record,       \* the child whose record createProvisional gave the call
  made,         \* calls whose `delegation' has been assigned
  turn,         \* where the projection of the end of the child's Turn is
  answer,       \* the child a caller was given
  raced,        \* history: two calls with one request were under way at once
  kept,         \* history: failed calls whose Delegation or Thread could not be removed
  crashes, ioErrors

store == <<threads, ready, threadFiles, delegations, status, files, index>>
calls == <<pc, request, record, made, turn, answer>>
vars == <<phase, store, calls, raced, kept, crashes, ioErrors>>

-----------------------------------------------------------------------------
(* #rebuildIndexes *)

\* The entries up to the first whose request an earlier one already has.
Repeating(seq) ==
  {i \in DOMAIN seq : \E j \in 1..i - 1 : request[seq[j]] = request[seq[i]]}
Indexed(seq) == {seq[i] : i \in {k \in DOMAIN seq : \A r \in Repeating(seq) : k < r}}

\* Mutant: a duplicate replaces the entry that is there.
NeverThrows(dels, thrs) == FALSE

Throws(dels, thrs) == Repeating(dels) # {} \/ Repeating(thrs) # {}

ByRequest(set) ==
  [q \in Requests |-> IF \E c \in set : request[c] = q
                      THEN CHOOSE c \in set : request[c] = q ELSE None]

\* The Delegations come first; when they throw, no Thread is indexed.  The child
\* of the Delegation that throws has been indexed already.
Rebuilt(dels, thrs) ==
  [requests |-> ByRequest(Indexed(dels)),
   children |-> {dels[i] : i \in {k \in DOMAIN dels : \A r \in Repeating(dels) : k <= r}},
   creates  |-> ByRequest(IF Repeating(dels) = {} THEN Indexed(thrs) ELSE {})]

\* Map.set: a key that is there keeps its place.
Put(seq, c) == IF c \in ToSet(seq) THEN seq ELSE Append(seq, c)

-----------------------------------------------------------------------------
Init ==
  /\ phase = "up"
  /\ threads = <<>> /\ ready = {} /\ threadFiles = [c \in Calls |-> None]
  /\ delegations = <<>> /\ status = [c \in Calls |-> None] /\ files = [c \in Calls |-> None]
  /\ index = [requests |-> [q \in Requests |-> None], children |-> {},
              creates |-> [q \in Requests |-> None]]
  /\ pc = [c \in Calls |-> "idle"] /\ request \in [Calls -> Requests]
  /\ record = [c \in Calls |-> None] /\ made = {}
  /\ turn = [c \in Calls |-> "none"] /\ answer = [c \in Calls |-> None]
  /\ raced = FALSE /\ kept = {} /\ crashes = 0 /\ ioErrors = 0

Settled == {"idle", "answered", "failed", "lost"}
Labels == {"provision", "delegate", "writing", "open", "commit", "execute", "identity",
           "mark", "marking", "marked", "cleanup", "forget", "drop"}
Active == {c \in Calls : pc[c] \notin Settled}

Step(c, from) == phase = "up" /\ pc[c] = from
Goto(c, to) == pc' = [pc EXCEPT ![c] = to]

\* findDelegationByRequest: a Delegation that is found is the answer.
Lookup(c) ==
  LET found == index.requests[request[c]]
  IN  /\ Step(c, "idle") /\ Cardinality(Active) < MaxConcurrent
      /\ Goto(c, IF found = None THEN "provision" ELSE "answered")
      /\ answer' = [answer EXCEPT ![c] = found]
      /\ raced' = (raced \/ \E d \in Active : request[d] = request[c])
      /\ UNCHANGED <<phase, store, request, record, made, turn, kept, crashes, ioErrors>>

\* createProvisional: a known create request gives the record stored for it.  A
\* rebuild that throws rejects the call, outside its try block.
Provision(c) ==
  LET known == index.creates[request[c]]
  IN  /\ Step(c, "provision")
      /\ record' = [record EXCEPT ![c] = IF known = None THEN c ELSE known]
      /\ IF known # None
         THEN Goto(c, "delegate") /\ UNCHANGED store
         ELSE /\ threads' = Append(threads, c)
              /\ threadFiles' = [threadFiles EXCEPT ![c] = "creating"]
              /\ index' = Rebuilt(delegations, threads')
              /\ Goto(c, IF Throws(delegations, threads') THEN "failed" ELSE "delegate")
              /\ UNCHANGED <<ready, delegations, status, files>>
      /\ UNCHANGED <<phase, request, made, turn, answer, raced, kept, crashes, ioErrors>>

\* createDelegation, up to its file.
Delegate(c) ==
  /\ Step(c, "delegate")
  /\ Goto(c, IF index.requests[request[c]] = None THEN "writing" ELSE "drop")
  /\ UNCHANGED <<phase, store, request, record, made, turn, answer, raced, kept, crashes, ioErrors>>

\* createDelegation, from its file on.  The record is in memory and on disk when
\* a rebuild throws, and the caller does not know it was made.
WriteDelegation(c) ==
  /\ Step(c, "writing")
  /\ files' = [files EXCEPT ![c] = "creating"]
  /\ delegations' = Append(delegations, c)
  /\ status' = [status EXCEPT ![c] = "creating"]
  /\ index' = Rebuilt(delegations', threads)
  /\ IF Throws(delegations', threads)
     THEN Goto(c, "drop") /\ UNCHANGED made
     ELSE Goto(c, "open") /\ made' = made \cup {c}
  /\ UNCHANGED <<phase, threads, ready, threadFiles, request, record, turn, answer,
                 raced, kept, crashes, ioErrors>>

\* The Adapter opens a Session, which may not know its Native Session yet.
Open(c) ==
  /\ Step(c, "open")
  /\ \/ Goto(c, "commit")
     \/ ~IdentityAtOpen /\ Goto(c, "execute")
     \/ Goto(c, "cleanup")
  /\ UNCHANGED <<phase, store, request, record, made, turn, answer, raced, kept, crashes, ioErrors>>

\* commitNative of the record createProvisional gave.
CommitRecord(c) ==
  IF record[c] \in ToSet(threads)
  THEN /\ ready' = ready \cup {record[c]}
       /\ threadFiles' = [threadFiles EXCEPT ![record[c]] = "ready"]
       /\ index' = Rebuilt(delegations, threads)
       /\ UNCHANGED <<threads, delegations, status, files>>
  ELSE UNCHANGED store

CommitNative(c) ==
  /\ Step(c, "commit")
  /\ CommitRecord(c)
  /\ Goto(c, IF record[c] \notin ToSet(threads) \/ Throws(delegations, threads)
             THEN "cleanup" ELSE "execute")
  /\ UNCHANGED <<phase, request, record, made, turn, answer, raced, kept, crashes, ioErrors>>

\* turn.start is accepted or refused.
StartTurn(c) ==
  /\ Step(c, "execute")
  /\ \/ Goto(c, "identity") /\ turn' = [turn EXCEPT ![c] = "running"]
     \/ Goto(c, "cleanup") /\ UNCHANGED turn
  /\ UNCHANGED <<phase, store, request, record, made, answer, raced, kept, crashes, ioErrors>>

\* The Session reports its identity while start waits for it.
PersistIdentity(c) ==
  /\ Step(c, "identity") /\ record[c] \notin ready
  /\ CommitRecord(c)
  /\ UNCHANGED <<phase, calls, raced, kept, crashes, ioErrors>>

AwaitIdentity(c) ==
  /\ Step(c, "identity")
  /\ \/ record[c] \in ready /\ Goto(c, "mark")
     \/ record[c] \notin ready /\ Goto(c, "cleanup")      \* ten seconds have passed
  /\ UNCHANGED <<phase, store, request, record, made, turn, answer, raced, kept, crashes, ioErrors>>

-----------------------------------------------------------------------------
(* setDelegationStatus: a check of memory, a rename of the file, and, once the  *)
(* rename is known to be done, memory and the indexes.  start sets "running",   *)
(* the projection of the end of the Turn sets "completed".                      *)

InMemory(d) == d \in ToSet(delegations)

RenameStatus(d, s) ==
  /\ files' = [files EXCEPT ![d] = s]
  /\ UNCHANGED <<threads, ready, threadFiles, delegations, status, index>>

CommitStatus(d, s) ==
  /\ delegations' = Put(delegations, d)
  /\ status' = [status EXCEPT ![d] = s]
  /\ index' = Rebuilt(delegations', threads)
  /\ UNCHANGED <<threads, ready, threadFiles, files>>

\* A status that is already there, or is final, is left alone.
CheckRunning(c) ==
  /\ Step(c, "mark")
  /\ IF ~InMemory(c) THEN Goto(c, "cleanup") /\ UNCHANGED answer
     ELSE IF status[c] = "creating" THEN Goto(c, "marking") /\ UNCHANGED answer
     ELSE Goto(c, "answered") /\ answer' = [answer EXCEPT ![c] = c]
  /\ UNCHANGED <<phase, store, request, record, made, turn, raced, kept, crashes, ioErrors>>

RenameRunning(c) ==
  /\ Step(c, "marking") /\ Goto(c, "marked")
  /\ RenameStatus(c, "running")
  /\ UNCHANGED <<phase, request, record, made, turn, answer, raced, kept, crashes, ioErrors>>

\* start answers with the child it allocated.
CommitRunning(c) ==
  /\ Step(c, "marked")
  /\ CommitStatus(c, "running")
  /\ IF Throws(delegations', threads)
     THEN Goto(c, "cleanup") /\ UNCHANGED answer
     ELSE Goto(c, "answered") /\ answer' = [answer EXCEPT ![c] = c]
  /\ UNCHANGED <<phase, request, record, made, turn, raced, kept, crashes, ioErrors>>

\* The Turn ends; the Delegation is looked up by the Thread it ran on.
EndTurn(c) ==
  /\ phase = "up" /\ turn[c] = "running"
  /\ turn' = [turn EXCEPT ![c] =
       IF record[c] \in index.children /\ InMemory(record[c])
          /\ status[record[c]] # "completed" THEN "checked" ELSE "done"]
  /\ UNCHANGED <<phase, store, pc, request, record, made, answer, raced, kept, crashes, ioErrors>>

RenameCompleted(c) ==
  /\ phase = "up" /\ turn[c] = "checked" /\ turn' = [turn EXCEPT ![c] = "renamed"]
  /\ RenameStatus(record[c], "completed")
  /\ UNCHANGED <<phase, pc, request, record, made, answer, raced, kept, crashes, ioErrors>>

CommitCompleted(c) ==
  /\ phase = "up" /\ turn[c] = "renamed" /\ turn' = [turn EXCEPT ![c] = "done"]
  /\ CommitStatus(record[c], "completed")
  /\ UNCHANGED <<phase, pc, request, record, made, answer, raced, kept, crashes, ioErrors>>

-----------------------------------------------------------------------------
(* The catch block: removeDelegation if it was made, then removeThread, the     *)
(* errors of both ignored.                                                      *)

\* Mutant: the file is left.
KeepFile(c) ==
  /\ Step(c, "cleanup") /\ Goto(c, "forget")
  /\ UNCHANGED <<phase, store, request, record, made, turn, answer, raced, kept, crashes, ioErrors>>

\* Mutant: the Delegation is left.
KeepDelegation(c) ==
  /\ Step(c, "cleanup") /\ Goto(c, "drop")
  /\ UNCHANGED <<phase, store, request, record, made, turn, answer, raced, kept, crashes, ioErrors>>

RemoveDelegationFile(c) ==
  /\ Step(c, "cleanup") /\ Goto(c, "forget")
  /\ files' = [files EXCEPT ![c] = None]
  /\ UNCHANGED <<phase, threads, ready, threadFiles, delegations, status, index,
                 request, record, made, turn, answer, raced, kept, crashes, ioErrors>>

ForgetDelegation(c) ==
  /\ Step(c, "forget") /\ Goto(c, "drop")
  /\ delegations' = RemoveFirst(delegations, c)
  /\ status' = [status EXCEPT ![c] = None]
  /\ index' = Rebuilt(delegations', threads)
  /\ UNCHANGED <<phase, threads, ready, threadFiles, files,
                 request, record, made, turn, answer, raced, kept, crashes, ioErrors>>

\* Mutant: without a Delegation of its own the call leaves its Thread, too.
DropMadeThread(c) ==
  /\ Step(c, "drop") /\ Goto(c, "failed")
  /\ IF c \in ToSet(threads) /\ c \in made
     THEN /\ threads' = RemoveFirst(threads, c)
          /\ ready' = ready \ {c}
          /\ threadFiles' = [threadFiles EXCEPT ![c] = None]
          /\ index' = Rebuilt(delegations, threads')
          /\ UNCHANGED <<delegations, status, files>>
     ELSE UNCHANGED store
  /\ UNCHANGED <<phase, request, record, made, turn, answer, raced, kept, crashes, ioErrors>>

\* removeThread of the child the call allocated, if it is stored.
DropThread(c) ==
  /\ Step(c, "drop") /\ Goto(c, "failed")
  /\ IF c \in ToSet(threads)
     THEN /\ threads' = RemoveFirst(threads, c)
          /\ ready' = ready \ {c}
          /\ threadFiles' = [threadFiles EXCEPT ![c] = None]
          /\ index' = Rebuilt(delegations, threads')
          /\ UNCHANGED <<delegations, status, files>>
     ELSE UNCHANGED store
  /\ UNCHANGED <<phase, request, record, made, turn, answer, raced, kept, crashes, ioErrors>>

IoError == ioErrors < MaxIoErrors /\ ioErrors' = ioErrors + 1

\* A file cannot be written: createProvisional, createDelegation, commitNative or
\* setDelegationStatus is rejected, and so is the call.
FailWrite(c) ==
  /\ IoError
  /\ \/ Step(c, "provision") /\ index.creates[request[c]] = None /\ Goto(c, "failed")
     \/ Step(c, "writing") /\ Goto(c, "drop")
     \/ Step(c, "commit") /\ Goto(c, "cleanup")
     \/ Step(c, "marking") /\ Goto(c, "cleanup")
  /\ UNCHANGED <<phase, store, request, record, made, turn, answer, raced, kept, crashes>>

\* removeDelegation is rejected at its file: the Delegation stays, in memory as well.
FailRemoveDelegation(c) ==
  /\ IoError /\ Step(c, "cleanup") /\ Goto(c, "drop")
  /\ kept' = kept \cup {c}
  /\ UNCHANGED <<phase, store, request, record, made, turn, answer, raced, crashes>>

\* removeThread is rejected: the Thread stays in memory, and its file may be gone.
FailDropThread(c) ==
  /\ IoError /\ Step(c, "drop") /\ c \in ToSet(threads) /\ Goto(c, "failed")
  /\ threadFiles' \in {threadFiles, [threadFiles EXCEPT ![c] = None]}
  /\ kept' = kept \cup {c}
  /\ UNCHANGED <<phase, threads, ready, delegations, status, files, index,
                 request, record, made, turn, answer, raced, crashes>>

-----------------------------------------------------------------------------
Crash ==
  /\ phase = "up" /\ crashes < MaxCrashes /\ crashes' = crashes + 1
  /\ phase' = "down"
  /\ threads' = <<>> /\ ready' = {} /\ delegations' = <<>>
  /\ status' = [c \in Calls |-> None]
  /\ pc' = [c \in Calls |-> IF c \in Active THEN "lost" ELSE pc[c]]
  /\ turn' = [c \in Calls |-> IF turn[c] = "none" THEN "none" ELSE "done"]
  /\ UNCHANGED <<threadFiles, files, index, request, record, made, answer, raced, kept, ioErrors>>

\* initialize: Threads without a Native Session are deleted, Delegations are kept,
\* and the indexes are rebuilt, or the Store is refused.
Initialize ==
  /\ phase = "down"
  /\ \E thrs \in SetToSeqs({c \in Calls : threadFiles[c] = "ready"}),
        dels \in SetToSeqs({c \in Calls : files[c] # None}) :
        /\ threads' = thrs /\ delegations' = dels
        /\ index' = Rebuilt(dels, thrs)
        /\ phase' = IF Throws(dels, thrs) THEN "refused" ELSE "up"
  /\ ready' = {c \in Calls : threadFiles[c] = "ready"}
  /\ threadFiles' = [c \in Calls |-> IF threadFiles[c] = "ready" THEN "ready" ELSE None]
  /\ status' = files
  /\ UNCHANGED <<files, calls, raced, kept, crashes, ioErrors>>

Next ==
  \/ \E c \in Calls :
       \/ Lookup(c) \/ Provision(c) \/ Delegate(c) \/ WriteDelegation(c) \/ Open(c)
       \/ CommitNative(c) \/ StartTurn(c) \/ PersistIdentity(c) \/ AwaitIdentity(c)
       \/ CheckRunning(c) \/ RenameRunning(c) \/ CommitRunning(c)
       \/ EndTurn(c) \/ RenameCompleted(c) \/ CommitCompleted(c)
       \/ RemoveDelegationFile(c) \/ ForgetDelegation(c) \/ DropThread(c)
       \/ FailWrite(c) \/ FailRemoveDelegation(c) \/ FailDropThread(c)
  \/ Crash \/ Initialize

Spec == Init /\ [][Next]_vars

-----------------------------------------------------------------------------
TypeOK ==
  /\ phase \in {"up", "down", "refused"} /\ raced \in BOOLEAN /\ kept \subseteq Calls
  /\ crashes \in 0..MaxCrashes /\ ioErrors \in 0..MaxIoErrors
  /\ threads \in Seq(Calls) /\ IsInjective(threads) /\ ready \subseteq ToSet(threads)
  /\ delegations \in Seq(Calls) /\ IsInjective(delegations)
  /\ status \in [Calls -> Status \cup {None}] /\ files \in [Calls -> Status \cup {None}]
  /\ threadFiles \in [Calls -> {"creating", "ready", None}]
  /\ index \in [requests : [Requests -> Calls \cup {None}], children : SUBSET Calls,
                creates : [Requests -> Calls \cup {None}]]
  /\ pc \in [Calls -> Settled \cup Labels] /\ request \in [Calls -> Requests]
  /\ record \in [Calls -> Calls \cup {None}] /\ made \subseteq Calls
  /\ turn \in [Calls -> {"none", "running", "checked", "renamed", "done"}]
  /\ answer \in [Calls -> Calls \cup {None}]
  /\ \A c \in Calls : status[c] # None <=> InMemory(c)

\* Nothing is under way.
Quiet == phase = "up" /\ Active = {} /\ \A c \in Calls : turn[c] \notin {"checked", "renamed"}

\* Of the calls with the same request, however they race, fail and retry, at most
\* one is told that it started a child: cross-harness-delegation spec.md, "MUST NOT
\* create a second child Thread or a second Session".
OneStartPerRequest ==
  \A c, d \in Calls :
     answer[c] = c /\ answer[d] = d /\ request[c] = request[d] => c = d

\* What the code guards against: calls with one request did not overlap, and no start
\* was taken back after its Turn had begun, when a late status may undo the cleanup.
Orderly ==
  ~raced /\ \A c \in Calls :
    turn[c] # "none" => pc[c] \notin {"cleanup", "forget", "drop", "failed"}

\* A start of this request could not be taken back.
Soiled(q) == \E d \in kept : request[d] = q

\* In an orderly history without a crash a caller is given a child Thread that is
\* stored, and so is its Delegation, whatever failed or was refused before, unless a
\* start of the same request could not be taken back: its Delegation is then the answer
\* to the next, or its Thread is used under an ID that is not its own.
AnswerNamesStoredChild ==
  Orderly /\ crashes = 0 =>
    \A c \in Calls :
       pc[c] = "answered" /\ ~Soiled(request[c])
         => answer[c] \in ToSet(threads) \cap ToSet(delegations)

\* The call has left neither a child Thread nor a Delegation, in memory or on disk.
LeftNothing(c) ==
  /\ c \notin ToSet(threads) \cup ToSet(delegations)
  /\ threadFiles[c] = None /\ files[c] = None

\* A start that failed leaves nothing behind, once nothing is under way:
\* cross-harness-delegation spec.md, "the Host MUST NOT leave a published or
\* half-persisted child Thread".
FailedStartLeavesNothing == Quiet => \A c \in Calls : pc[c] = "failed" => LeftNothing(c)

\* The same, in an orderly history, of a start whose own cleanup did not fail, whatever
\* earlier ones left behind.
RefusedStartLeavesNothing ==
  Orderly /\ Quiet => \A c \in Calls : pc[c] = "failed" /\ c \notin kept => LeftNothing(c)

\* Whatever the calls leave on disk, the Store can be opened again.
StoreReopens == phase # "refused"

\* The same, in an orderly history: failed starts, crashes and retries never leave two
\* Delegations of one request.
RetriedStoreReopens == Orderly => StoreReopens

\* Once nothing is under way, a restart restores the status that is reported now:
\* cross-harness-delegation spec.md, "the status SHALL be restored".
StatusOnDisk == Quiet => files = status

\* The status of a Delegation that has ended does not go back to running.
TerminalStatusSticks ==
  [][\A c \in Calls : status[c] = "completed" /\ phase' = "up" => status'[c] # "running"]_vars
=============================================================================
