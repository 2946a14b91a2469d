----------------------------- MODULE ThreadSession -----------------------------
(***************************************************************************)
(* The Native Session of one stored external Thread inside the Host:        *)
(* ExternalThreadRuntime, which restores and registers it, the queue that   *)
(* orders the Desktop's requests for the Thread, ExternalThreadIdleRelease, *)
(* which closes an idle Session and counts the operations that forbid it,   *)
(* thread/delete, and the shutdown of the Host.                             *)
(*                                                                         *)
(* A Session is numbered by the order in which it is opened.  Locating a    *)
(* Thread is one step: the awaits inside read memory only.  Opening a       *)
(* Session, reading its snapshot, closing it and removing a record are      *)
(* separate steps, and anything may happen in between.                      *)
(*                                                                         *)
(* Subagent Threads, the replacement of a Session by rollback, and the      *)
(* pending approvals and Subagents that only postpone a release are left    *)
(* out.  A projected output is one step; a persistence error is an output   *)
(* failure.                                                                 *)
(***************************************************************************)
EXTENDS Naturals, Sequences, FiniteSets

CONSTANTS
  Uses,         \* Desktop requests that use the Session
  Deletes,      \* Desktop requests thread/delete
  Calls,        \* calls of the delegation API, which do not pass the queue
  None,
  MaxSessions   \* bound: Sessions opened

Requests == Uses \cup Deletes
Callers == Requests \cup Calls

ASSUME SessionAssumption ==
  /\ MaxSessions \in Nat \ {0} /\ None \notin Callers \cup Nat
  /\ "release" \notin Callers
  /\ Uses \cap Deletes = {} /\ Requests \cap Calls = {}

VARIABLES
  phase,      \* "up", "ended" (no more input), "stopped", "closing", "exited"
  stored,     \* the record is in MappingStore
  sessions,   \* what became of each Session opened so far
  loaded,     \* the Session in ExternalThreadRuntime.#threads
  restoring,  \* the Session of the restore in #restores
  running,    \* running and activeTurnId of the loaded Thread
  failed,     \* Sessions whose outputFailed is set
  blocked,    \* Sessions whose closeFailed is set
  idle,       \* the loaded Session has been inactive for the configured time
  enabled,    \* idle release is on
  queue,      \* the Thread's chain in DesktopRequestQueue, its head running
  candidate,  \* the Session the release in the queue was scheduled for
  releasing,  \* #closing: the Session a release is closing
  pc,         \* where each caller is
  holds       \* the Session each caller was given

session == <<sessions, loaded, restoring, running, failed>>
release == <<blocked, idle, enabled, candidate, releasing>>
callers == <<pc, holds>>
vars == <<phase, stored, session, release, queue, callers>>

Numbers == 1..MaxSessions
Native == {"opening", "open", "closing", "closed", "lost"}

\* #operations: the callers that are counted.
Operating == {c \in Callers : pc[c] \in {"operating", "restoring", "using", "detached",
                                         "removing", "closing"}}
Stopped == phase \notin {"up", "ended"}

-----------------------------------------------------------------------------
Init ==
  /\ phase = "up" /\ stored = TRUE
  /\ sessions = <<>> /\ loaded = None /\ restoring = None
  /\ running = FALSE /\ failed = {} /\ blocked = {}
  /\ idle = FALSE /\ enabled = FALSE /\ candidate = None /\ releasing = None
  /\ queue = <<>>
  /\ pc = [c \in Callers |-> "idle"] /\ holds = [c \in Callers |-> None]

Goto(c, to) == pc' = [pc EXCEPT ![c] = to]
Become(i, state) == sessions' = [sessions EXCEPT ![i] = state]

\* The head of the queue is done.
Leave(c) == queue' = IF queue # <<>> /\ Head(queue) = c THEN Tail(queue) ELSE queue

\* #track, at the end: the last operation restarts the idle time.
Finish(c) ==
  /\ Goto(c, "done") /\ holds' = [holds EXCEPT ![c] = None] /\ Leave(c)
  /\ idle' = IF Operating \subseteq {c} /\ loaded # None THEN FALSE ELSE idle

-----------------------------------------------------------------------------
(* Callers *)

\* #forwardDesktop reads a request.
Receive(c) ==
  /\ phase = "up" /\ c \in Requests /\ pc[c] = "idle"
  /\ Goto(c, "queued") /\ queue' = Append(queue, c)
  /\ UNCHANGED <<phase, stored, session, release, holds>>

\* runOperation: refused once the Host stops, and delayed while a release closes
\* the Session.
Enter(c) ==
  /\ \/ c \in Calls /\ pc[c] = "idle" /\ phase # "exited"
     \/ pc[c] = "queued" /\ Head(queue) = c
     \/ pc[c] = "waiting" /\ releasing = None
  /\ IF Stopped THEN Goto(c, "done") /\ Leave(c)
     ELSE Goto(c, IF releasing # None THEN "waiting" ELSE "operating") /\ UNCHANGED queue
  /\ UNCHANGED <<phase, stored, session, release, holds>>

\* Mutant: a Session whose release failed is given out.
UsableAlways == loaded # None

\* The loaded Session, unless idleRelease.failure reports it.
Usable == loaded # None /\ loaded \notin blocked

\* resolve: the loaded Session unless its release failed, or the restore under
\* way, or a new restore; a Thread that is not stored is somebody else's.
Resolve(c) ==
  /\ pc[c] = "operating" /\ c \notin Deletes
  /\ IF Usable
     THEN /\ Goto(c, "using") /\ holds' = [holds EXCEPT ![c] = loaded]
          /\ idle' = FALSE /\ UNCHANGED <<sessions, restoring, queue>>
     ELSE IF loaded # None \/ ~stored
     THEN Finish(c) /\ UNCHANGED <<sessions, restoring>>
     ELSE /\ Goto(c, "restoring")
          /\ IF restoring = None
             THEN /\ Len(sessions) < MaxSessions
                  /\ sessions' = Append(sessions, "opening") /\ restoring' = Len(sessions')
             ELSE UNCHANGED <<sessions, restoring>>
          /\ UNCHANGED <<holds, idle, queue>>
  /\ UNCHANGED <<phase, stored, loaded, running, failed, blocked, enabled, candidate, releasing>>

\* turn/start, turn/steer and commands are dispatched as an operation of their own,
\* counted before the request that resolved the Session is done.
Detach(c) ==
  /\ c \in Uses /\ pc[c] = "using"
  /\ Goto(c, "detached") /\ Leave(c)
  /\ UNCHANGED <<phase, stored, session, release, holds>>

StartTurn(c) ==
  /\ pc[c] \in {"using", "detached"} /\ holds[c] = loaded /\ ~running
  /\ running' = TRUE
  /\ UNCHANGED <<phase, stored, sessions, loaded, restoring, failed, release, queue, callers>>

Return(c) ==
  /\ pc[c] \in {"using", "detached"} /\ Finish(c)
  /\ UNCHANGED <<phase, stored, session, blocked, enabled, candidate, releasing>>

-----------------------------------------------------------------------------
(* #restore.  Every caller waits for the same promise. *)

OpenSession ==
  /\ restoring # None /\ sessions[restoring] = "opening"
  /\ Become(restoring, "open")
  /\ UNCHANGED <<phase, stored, loaded, restoring, running, failed, release, queue, callers>>

\* The snapshot is read and aligned, and the Session registered: whatever became of
\* the record meanwhile, as long as there was nothing to write to it.
Register ==
  /\ restoring # None /\ sessions[restoring] = "open"
  /\ loaded' = restoring /\ restoring' = None
  /\ running' = FALSE /\ idle' = FALSE
  /\ pc' = [c \in Callers |-> IF pc[c] = "restoring" THEN "using" ELSE pc[c]]
  /\ holds' = [c \in Callers |-> IF pc[c] = "restoring" THEN restoring ELSE holds[c]]
  /\ UNCHANGED <<phase, stored, sessions, failed, blocked, enabled, candidate, releasing, queue>>

RejectRestore ==
  /\ restoring' = None
  /\ pc' = [c \in Callers |-> IF pc[c] = "restoring" THEN "done" ELSE pc[c]]
  /\ queue' = IF queue # <<>> /\ Head(queue) \in Callers /\ pc[Head(queue)] = "restoring"
              THEN Tail(queue) ELSE queue
  /\ UNCHANGED <<phase, stored, loaded, running, failed, release, holds>>

FailOpen ==
  /\ restoring # None /\ sessions[restoring] = "opening"
  /\ Become(restoring, "closed")
  /\ RejectRestore

\* The Session opened, but not what follows: it is closed before the restore fails.
AbortRestore ==
  /\ restoring # None /\ sessions[restoring] = "open"
  /\ Become(restoring, "closing")
  /\ UNCHANGED <<phase, stored, loaded, restoring, running, failed, release, queue, callers>>

FailRestore ==
  /\ restoring # None /\ sessions[restoring] \in {"closed", "lost"}
  /\ RejectRestore
  /\ UNCHANGED sessions

-----------------------------------------------------------------------------
(* thread/delete *)

\* A Thread whose release failed, or that is not stored, is not deleted here.
Locate(c) ==
  /\ c \in Deletes /\ pc[c] = "operating"
  /\ IF loaded \in blocked \/ (loaded = None /\ ~stored)
     THEN Finish(c)
     ELSE /\ Goto(c, "removing") /\ holds' = [holds EXCEPT ![c] = loaded]
          /\ UNCHANGED <<queue, idle>>
  /\ UNCHANGED <<phase, stored, session, blocked, enabled, candidate, releasing>>

\* removeThread is done.  What is loaded now is forgotten; what was loaded when the
\* Thread was located is closed.
Remove(c) ==
  /\ pc[c] = "removing"
  /\ stored' = FALSE /\ loaded' = None /\ running' = FALSE
  /\ Goto(c, "closing")
  /\ IF holds[c] # None /\ sessions[holds[c]] = "open"
     THEN Become(holds[c], "closing") ELSE UNCHANGED sessions
  /\ UNCHANGED <<phase, restoring, failed, release, queue, holds>>

\* removeThread is rejected.
FailRemove(c) ==
  /\ pc[c] = "removing" /\ Finish(c)
  /\ UNCHANGED <<phase, stored, session, blocked, enabled, candidate, releasing>>

EndDelete(c) ==
  /\ pc[c] = "closing"
  /\ holds[c] # None => sessions[holds[c]] \in {"closed", "lost"}
  /\ Finish(c)
  /\ UNCHANGED <<phase, stored, session, blocked, enabled, candidate, releasing>>

-----------------------------------------------------------------------------
(* ExternalThreadIdleRelease *)

\* Mutant: operations are not counted.
EligibleUncounted(i) ==
  /\ ~Stopped /\ enabled /\ idle /\ loaded = i /\ releasing = None
  /\ i \notin failed \cup blocked /\ ~running

Eligible(i) ==
  /\ ~Stopped /\ enabled /\ idle
  /\ loaded = i /\ i \notin failed \cup blocked
  /\ releasing = None /\ Operating = {} /\ ~running

Configure ==
  /\ ~Stopped /\ enabled' = ~enabled
  /\ UNCHANGED <<phase, stored, session, blocked, idle, candidate, releasing, queue, callers>>

Elapse ==
  /\ loaded # None /\ ~idle /\ idle' = TRUE
  /\ UNCHANGED <<phase, stored, session, blocked, enabled, candidate, releasing, queue, callers>>

Scheduled == \E i \in DOMAIN queue : queue[i] = "release"

\* check, every minute.
Check ==
  /\ loaded # None /\ Eligible(loaded) /\ ~Scheduled
  /\ candidate' = loaded /\ queue' = Append(queue, "release")
  /\ UNCHANGED <<phase, stored, session, blocked, idle, enabled, releasing, callers>>

\* The release has its turn; what made the Session a candidate is looked at again.
RunRelease ==
  /\ queue # <<>> /\ Head(queue) = "release" /\ releasing = None
  /\ IF Eligible(candidate)
     THEN /\ releasing' = candidate /\ Become(candidate, "closing")
          /\ UNCHANGED <<queue, candidate>>
     ELSE queue' = Tail(queue) /\ candidate' = None /\ UNCHANGED <<releasing, sessions>>
  /\ UNCHANGED <<phase, stored, loaded, restoring, running, failed, blocked, idle, enabled,
                 callers>>

EndRelease == releasing' = None /\ candidate' = None /\ queue' = Tail(queue)

\* The Session is closed and its outputs are read: it is forgotten, so that the next
\* request restores it.  If anything went wrong it stays, and stays blocked.
FinishRelease ==
  /\ releasing # None /\ sessions[releasing] \in {"closed", "lost"}
  /\ IF sessions[releasing] = "closed" /\ releasing \notin failed /\ loaded = releasing
     THEN loaded' = None /\ UNCHANGED blocked
     ELSE blocked' = blocked \cup {releasing} /\ UNCHANGED loaded
  /\ EndRelease
  /\ UNCHANGED <<phase, stored, sessions, restoring, running, failed, idle, enabled, callers>>

\* Mutant: the Session is forgotten although it may still be closing.
TimeoutForgets ==
  /\ releasing # None /\ loaded' = None
  /\ EndRelease
  /\ UNCHANGED <<phase, stored, sessions, restoring, running, failed, blocked, idle, enabled,
                 callers>>

\* Mutant: nothing bounds the close.
NoTimeout == FALSE /\ UNCHANGED vars

\* Sixty seconds have passed.  The close goes on, and its end changes nothing here.
TimeoutRelease ==
  /\ releasing # None
  /\ blocked' = blocked \cup {releasing}
  /\ EndRelease
  /\ UNCHANGED <<phase, stored, session, idle, enabled, callers>>

-----------------------------------------------------------------------------
(* The Harness (external), and the projection of its outputs *)

\* session.close settles, well or badly.
CloseNative(i) ==
  /\ i \in DOMAIN sessions /\ sessions[i] = "closing"
  /\ Become(i, "closed") \/ Become(i, "lost")
  /\ UNCHANGED <<phase, stored, loaded, restoring, running, failed, release, queue, callers>>

EndTurn ==
  /\ loaded # None /\ loaded \notin failed /\ running
  /\ running' = FALSE /\ idle' = FALSE
  /\ UNCHANGED <<phase, stored, sessions, loaded, restoring, failed, blocked, enabled, candidate,
                 releasing, queue, callers>>

\* #consumeHarnessOutputs throws, or the identity of a Turn is not persisted.
FailOutput ==
  /\ loaded # None /\ failed' = failed \cup {loaded} /\ idle' = FALSE
  /\ UNCHANGED <<phase, stored, sessions, loaded, restoring, running, blocked, enabled, candidate,
                 releasing, queue, callers>>

-----------------------------------------------------------------------------
(* Shutdown *)

\* The Desktop input ends, which disables the release, or fails, which does not.
EndInput ==
  /\ phase = "up" /\ phase' = "ended"
  /\ enabled' \in {FALSE, enabled}
  /\ UNCHANGED <<stored, session, blocked, idle, candidate, releasing, queue, callers>>

\* desktopRequests.drain, then idleRelease.stop.
Stop ==
  /\ phase = "ended" /\ \A i \in DOMAIN queue : queue[i] = "release"
  /\ phase' = "stopped" /\ enabled' = FALSE
  /\ UNCHANGED <<stored, session, blocked, idle, candidate, releasing, queue, callers>>

CloseLoaded ==
  /\ phase' = "closing"
  /\ IF loaded # None /\ sessions[loaded] = "open" THEN Become(loaded, "closing")
     ELSE UNCHANGED sessions
  /\ UNCHANGED <<stored, loaded, restoring, running, failed, release, queue, callers>>

\* Mutant: only the Desktop's requests are waited for.
CloseAllAtOnce == phase = "stopped" /\ CloseLoaded

\* idleRelease.drain, then what is loaded is closed.
CloseAll ==
  /\ phase = "stopped" /\ Operating = {} /\ queue = <<>>
  /\ CloseLoaded

Exit ==
  /\ phase = "closing"
  /\ loaded # None => sessions[loaded] \in {"closed", "lost"}
  /\ phase' = "exited" /\ loaded' = None /\ restoring' = None
  /\ UNCHANGED <<stored, sessions, running, failed, release, queue, callers>>

-----------------------------------------------------------------------------
CallerStep(c) ==
  \/ Receive(c) \/ Enter(c) \/ Resolve(c) \/ Detach(c) \/ StartTurn(c) \/ Return(c)
  \/ Locate(c) \/ Remove(c) \/ FailRemove(c) \/ EndDelete(c)

RestoreStep == OpenSession \/ Register \/ FailOpen \/ AbortRestore \/ FailRestore

ReleaseStep ==
  Configure \/ Elapse \/ Check \/ RunRelease \/ FinishRelease \/ TimeoutRelease

Next ==
  \/ \E c \in Callers : CallerStep(c)
  \/ RestoreStep \/ ReleaseStep
  \/ \E i \in Numbers : CloseNative(i)
  \/ EndTurn \/ FailOutput
  \/ EndInput \/ Stop \/ CloseAll \/ Exit

Spec == Init /\ [][Next]_vars

\* Continuations run, timers fire, operations return, and the Harness answers open,
\* readSnapshot and the close of a Session that a restore or a delete waits for.
\* Nothing obliges it to answer the close of a release.
Fairness ==
  /\ \A c \in Callers :
       /\ WF_vars(Enter(c)) /\ WF_vars(Resolve(c)) /\ WF_vars(Return(c)) /\ WF_vars(Locate(c))
       /\ WF_vars(Remove(c) \/ FailRemove(c)) /\ WF_vars(EndDelete(c))
  /\ WF_vars(OpenSession \/ FailOpen) /\ WF_vars(Register \/ AbortRestore) /\ WF_vars(FailRestore)
  /\ WF_vars(RunRelease) /\ WF_vars(FinishRelease) /\ WF_vars(TimeoutRelease)
  /\ WF_vars(\E i \in Numbers \ ({releasing} \cup blocked) : CloseNative(i))

FairSpec == Spec /\ Fairness

-----------------------------------------------------------------------------
TypeOK ==
  /\ phase \in {"up", "ended", "stopped", "closing", "exited"}
  /\ {stored, running, idle, enabled} \subseteq BOOLEAN
  /\ sessions \in Seq(Native) /\ Len(sessions) <= MaxSessions
  /\ {loaded, restoring, candidate, releasing} \subseteq DOMAIN sessions \cup {None}
  /\ failed \cup blocked \subseteq DOMAIN sessions
  /\ queue \in Seq(Requests \cup {"release"})
  /\ \A i, j \in DOMAIN queue : queue[i] = queue[j] => i = j
  /\ pc \in [Callers -> {"idle", "queued", "waiting", "operating", "restoring", "using",
                         "detached", "removing", "closing", "done"}]
  /\ holds \in [Callers -> DOMAIN sessions \cup {None}]

\* Sessions that may still write: a close that failed in a release counts.
Writers ==
  {i \in DOMAIN sessions : sessions[i] \in {"opening", "open", "closing"} \/ i \in blocked}

\* A Thread never has two Sessions that may write, however releases, timeouts, late
\* closes, restores, deletes and the shutdown fall: external-thread-idle-release.ts,
\* "Further use is blocked to avoid duplicate writers".
OneWriter == Cardinality(Writers) <= 1

\* As long as the Thread is stored, an operation that was given a Session holds an
\* open one, and the one that is loaded: no release and no shutdown closes it or
\* puts another in its place under the operation.
UsersHoldOpenSession ==
  stored => \A c \in Callers :
    pc[c] \in {"using", "detached"} => holds[c] = loaded /\ sessions[loaded] = "open"

\* No Session of a Thread that was not deleted outlives the Host's shutdown, restores
\* and detached operations that were under way included.
NoSessionOutlivesHost ==
  phase = "exited" /\ stored =>
    \A i \in DOMAIN sessions : sessions[i] \in {"closed", "lost"}

\* Once a thread/delete is over and nothing else is under way, no Session of the
\* Thread is left open: versioned-renderer-agent-routing spec.md, "the Host closes and
\* removes that Thread locally".
DeletedThreadIsClosed ==
  ~stored /\ Operating = {} =>
    loaded = None /\ \A i \in DOMAIN sessions : sessions[i] # "open"

\* A Session whose release failed is never given to anybody again.
BlockedStaysUnused ==
  [][\A c \in Callers :
       pc[c] # "using" /\ pc'[c] = "using" => holds'[c] \notin blocked']_vars

\* Every request the Desktop sends is dealt with, even if the Session a release is
\* closing never closes.
RequestsServed == \A c \in Requests : pc[c] = "queued" ~> pc[c] = "done"
=============================================================================
