------------------------------ MODULE StoreLock ------------------------------
(***************************************************************************)
(* The process lock of MappingStore: #acquireLock, lockOwnerIsLive and      *)
(* close, run by several Host processes on one store directory.             *)
(*                                                                         *)
(* Every file operation is a step of its own: creating store.lock, writing  *)
(* its content, reading it, renaming it aside, creating it again, and, to   *)
(* release it, reading it and unlinking it.  A step acts on whatever file   *)
(* bears the name at that moment; only the content is written through the   *)
(* handle of the file the process created.                                  *)
(***************************************************************************)
EXTENDS Naturals, FiniteSets

CONSTANTS
  Processes,       \* Host processes, one MappingStore instance each
  NoLock,          \* store.lock does not exist
  MaxContenders,   \* bound: processes inside #acquireLock at once
  MaxCrashes,      \* bound: processes that die
  MaxFailures      \* bound: file operations that fail

ASSUME StoreLockAssumption ==
  /\ MaxContenders \in Nat \ {0} /\ MaxCrashes \in Nat /\ MaxFailures \in Nat
  /\ NoLock \notin [by : Processes, written : BOOLEAN]

VARIABLES
  place,    \* where each process is
  lock,     \* the file named store.lock: who created it, and whether it has content
  reused,   \* dead processes whose PID now belongs to an unrelated live process
  crashes, failures,
  \* History, which no action reads:
  overlapped,  \* two processes were inside #acquireLock at once
  misread,     \* the lock of a live process could not be read
  kept         \* processes whose latest lock stayed because its removal or its sync failed

lockVars == <<place, lock, reused, crashes, failures, overlapped, misread, kept>>

Acquiring == {"open", "inspect", "steal", "reopen", "write"}
Releasing == {"release", "unlink"}

Alive(p) == place[p] # "dead"
Acquirers == {p \in Processes : place[p] \in Acquiring}
Written == lock # NoLock /\ lock.written

MoveTo(p, step) == place' = [place EXCEPT ![p] = step]

\* A file operation fails.
Fails == failures < MaxFailures /\ failures' = failures + 1

\* Mutant: no PID is ever found live.
NeverLive(q) == {FALSE}

\* Mutant: a PID that no longer exists is taken for live.
AlwaysLive(q) == {TRUE}

\* What lockOwnerIsLive may answer of a lock created by q.  A PID that exists is live on
\* Linux; elsewhere its start and executable are compared, which may fail, time out, be
\* unreadable, or match within the tolerance: all of these count as live.
OwnerIsLive(q) == IF Alive(q) THEN {TRUE} ELSE IF q \in reused THEN BOOLEAN ELSE {FALSE}

-----------------------------------------------------------------------------
LockInit ==
  /\ place = [p \in Processes |-> "out"]
  /\ lock = NoLock /\ reused = {} /\ crashes = 0 /\ failures = 0
  /\ overlapped = FALSE /\ misread = FALSE /\ kept = {}

Start(p) ==
  /\ place[p] \in {"out", "refused"} /\ Cardinality(Acquirers) < MaxContenders
  /\ MoveTo(p, "open")
  /\ overlapped' = (overlapped \/ Acquirers # {})
  /\ UNCHANGED <<lock, reused, crashes, failures, misread, kept>>

\* open(..., "wx") succeeds only when the name is free; the file is still empty.
Create(p) ==
  /\ lock = NoLock
  /\ lock' = [by |-> p, written |-> FALSE]
  /\ kept' = kept \ {p}
  /\ MoveTo(p, "write")
  /\ UNCHANGED <<reused, crashes, failures, overlapped, misread>>

\* The name is taken.
Found(p, step) ==
  /\ lock # NoLock /\ MoveTo(p, step)
  /\ UNCHANGED <<lock, reused, crashes, failures, overlapped, misread, kept>>

\* open fails for another reason, and initialize throws.
FailOpen(p) ==
  /\ Fails /\ MoveTo(p, "out")
  /\ UNCHANGED <<lock, reused, crashes, overlapped, misread, kept>>

Open(p) == place[p] = "open" /\ (Create(p) \/ Found(p, "inspect") \/ FailOpen(p))

\* A file that is gone, or empty, proves no live owner.
Inspect(p) ==
  /\ place[p] = "inspect"
  /\ \E live \in IF Written THEN OwnerIsLive(lock.by) ELSE {FALSE} :
       MoveTo(p, IF live THEN "refused" ELSE "steal")
  /\ UNCHANGED <<lock, reused, crashes, failures, overlapped, misread, kept>>

\* Neither does one that cannot be read.
FailInspect(p) ==
  /\ place[p] = "inspect" /\ Fails
  /\ MoveTo(p, "steal")
  /\ misread' = (misread \/ (Written /\ Alive(lock.by)))
  /\ UNCHANGED <<lock, reused, crashes, overlapped, kept>>

\* rename(store.lock, store.lock.stale-...).
Steal(p) ==
  /\ place[p] = "steal"
  /\ lock' = NoLock
  /\ MoveTo(p, "reopen")
  /\ UNCHANGED <<reused, crashes, failures, overlapped, misread, kept>>

\* A rename that fails is ignored.
FailSteal(p) ==
  /\ place[p] = "steal" /\ Fails
  /\ MoveTo(p, "reopen")
  /\ kept' = IF lock = NoLock THEN kept ELSE kept \cup {lock.by}
  /\ UNCHANGED <<lock, reused, crashes, overlapped, misread>>

Reopen(p) == place[p] = "reopen" /\ (Create(p) \/ Found(p, "refused") \/ FailOpen(p))

\* writeFile goes to the file the process created, wherever it is by now.
Content(p) == IF lock # NoLock /\ lock.by = p THEN [lock EXCEPT !.written = TRUE] ELSE lock

Write(p) ==
  /\ place[p] = "write"
  /\ lock' = Content(p)
  /\ MoveTo(p, "own")
  /\ UNCHANGED <<reused, crashes, failures, overlapped, misread, kept>>

\* The write fails, or the sync after it: initialize throws and removes nothing.
FailWrite(p) ==
  /\ place[p] = "write" /\ Fails
  /\ MoveTo(p, "out")
  /\ \/ UNCHANGED <<lock, kept>>
     \/ lock' = Content(p) /\ kept' = kept \cup {p}
  /\ UNCHANGED <<reused, crashes, overlapped, misread>>

\* close: the Store stops serving, then the lock is read and, if it names this
\* instance, unlinked.
Close(p) ==
  /\ place[p] = "own" /\ MoveTo(p, "release")
  /\ UNCHANGED <<lock, reused, crashes, failures, overlapped, misread, kept>>

Release(p) ==
  /\ place[p] = "release"
  /\ MoveTo(p, IF Written /\ lock.by = p THEN "unlink" ELSE "out")
  /\ UNCHANGED <<lock, reused, crashes, failures, overlapped, misread, kept>>

\* Mutant: the file is left for the next owner to find stale.
UnlinkForgotten(p) ==
  /\ place[p] = "unlink" /\ MoveTo(p, "out")
  /\ UNCHANGED <<lock, reused, crashes, failures, overlapped, misread, kept>>

UnlinkLock(p) ==
  /\ place[p] = "unlink"
  /\ lock' = NoLock
  /\ MoveTo(p, "out")
  /\ UNCHANGED <<reused, crashes, failures, overlapped, misread, kept>>

\* Reading or unlinking fails, and close ignores it.
FailRelease(p) ==
  /\ place[p] \in Releasing /\ Fails
  /\ MoveTo(p, "out")
  /\ kept' = kept \cup {p}
  /\ UNCHANGED <<lock, reused, crashes, overlapped, misread>>

Die(p) ==
  /\ Alive(p) /\ crashes < MaxCrashes /\ crashes' = crashes + 1
  /\ MoveTo(p, "dead")
  /\ UNCHANGED <<lock, reused, failures, overlapped, misread, kept>>

ReusePid(p) ==
  /\ ~Alive(p) /\ reused' = reused \cup {p}
  /\ UNCHANGED <<place, lock, crashes, failures, overlapped, misread, kept>>

LockNext ==
  \E p \in Processes :
     \/ Start(p) \/ Open(p) \/ Inspect(p) \/ FailInspect(p) \/ Steal(p) \/ FailSteal(p)
     \/ Reopen(p) \/ Write(p) \/ FailWrite(p)
     \/ Close(p) \/ Release(p) \/ UnlinkLock(p) \/ FailRelease(p)
     \/ Die(p) \/ ReusePid(p)

LockSpec == LockInit /\ [][LockNext]_lockVars

-----------------------------------------------------------------------------
LockTypeOK ==
  /\ place \in [Processes -> {"out", "own", "refused", "dead"} \cup Acquiring \cup Releasing]
  /\ lock \in [by : Processes, written : BOOLEAN] \cup {NoLock}
  /\ reused \subseteq Processes /\ kept \subseteq Processes
  /\ overlapped \in BOOLEAN /\ misread \in BOOLEAN
  /\ crashes \in 0..MaxCrashes /\ failures \in 0..MaxFailures

Holding == {"own"} \cup Releasing

\* At most one process believes it owns the Store: spec.md, "acquire one exclusive
\* process lock".
ExclusiveOwner == \A p, q \in Processes : place[p] = "own" /\ place[q] = "own" => p = q

\* Inspecting the lock and renaming it are separate steps, and a lock that cannot be read
\* is renamed too, so the promise is kept only as long as acquisitions do not overlap and
\* the lock of a live process can be read: crashes, reused PIDs, a release under way, and
\* any other operation that fails do not break it.
ExclusiveUnlessOverlapped == ~overlapped /\ ~misread => ExclusiveOwner

\* A lock with content names a process that owns the Store, is releasing it, is dead, or
\* failed to remove or to sync its lock, however acquisitions overlap and whatever else
\* fails: nothing but a failed operation on its own lock lets a live process that does not
\* hold the Store keep everybody out.
LockNamesHolder == Written => place[lock.by] \in Holding \cup {"dead"} \/ lock.by \in kept

\* A process is turned away only by a lock of a process that owns the Store or releases it,
\* of a dead one whose PID is in use again, or of one whose removal failed, unless
\* acquisitions overlapped: not by an empty lock, nor by a dead owner as such.
RefusedOnlyByHolder ==
  [][~overlapped' => \A p \in Processes :
       place[p] # "refused" /\ place'[p] = "refused" =>
         /\ lock # NoLock
         /\ \/ place[lock.by] \in Holding /\ lock.by # p
            \/ place[lock.by] = "dead" /\ lock.by \in reused
            \/ lock.by \in kept]_lockVars
=============================================================================
