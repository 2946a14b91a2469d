------------------------- MODULE ThreadSession_proofs -------------------------
(***************************************************************************)
(* What the Host keeps about the Native Session of a Thread, for any        *)
(* requests, calls and Sessions: one writer, an open Session under every    *)
(* operation, nothing left open by the shutdown, and no use of a Session    *)
(* whose release failed.                                                    *)
(***************************************************************************)
EXTENDS ThreadSession, FiniteSetTheorems, SequenceTheorems, TLAPS

Ending == phase \in {"closing", "exited"}

\* The queue names a request only once it was received, and the release only with
\* a candidate.
QueueIsKnown ==
  \A i \in DOMAIN queue : IF queue[i] = "release" THEN candidate # None ELSE pc[queue[i]] # "idle"

\* A release closes the loaded Session from the head of the queue, and nothing is
\* counted while it does.
ReleaseIsAlone ==
  releasing # None =>
    /\ releasing = loaded /\ releasing \notin blocked /\ Operating = {}
    /\ queue # <<>> /\ Head(queue) = "release"

\* A restore has a caller that waits for it, and nothing loaded beside it.
RestoreIsAwaited ==
  restoring # None =>
    /\ loaded = None /\ restoring \notin blocked
    /\ \E c \in Callers : pc[c] = "restoring"

\* Once the Host closes its Sessions, nothing is under way.
EndingIsQuiet == Ending => Operating = {} /\ queue = <<>>

\* Only the last Session opened may write; it is the one that is loaded or being
\* restored, and while the Thread has neither there is none.
LastWrites ==
  /\ \A i \in Writers : i = Len(sessions)
  /\ loaded \in {None, Len(sessions)} /\ restoring \in {None, Len(sessions)}
  /\ stored /\ loaded = None /\ restoring = None /\ phase # "exited" => Writers = {}

Inv == QueueIsKnown /\ ReleaseIsAlone /\ RestoreIsAwaited /\ EndingIsQuiet /\ LastWrites

\* What is loaded is open, unless it is being closed or its release failed.
LoadedIsOpen ==
  stored /\ loaded # None /\ loaded \notin blocked /\ releasing = None /\ ~Ending
    => sessions[loaded] = "open"

\* An operation that was given a Session holds the loaded one, which is open.
UsersHold ==
  stored => \A c \in Callers :
    pc[c] \in {"using", "detached"} =>
      holds[c] = loaded /\ loaded # None /\ sessions[loaded] = "open"

-----------------------------------------------------------------------------
(* The queue and the Sessions as sequences. *)

Distinct(q) == \A i, j \in DOMAIN q : q[i] = q[j] => i = j

QueueTyped(q) == q \in Seq(Requests \cup {"release"}) /\ Distinct(q)

\* Everything in q is in the queue.
From(q) == \A j \in DOMAIN q : \E i \in DOMAIN queue : q[j] = queue[i]

\* What follows the head of the queue is in it, and is not the head.
LEMMA TailOfQueue ==
  ASSUME QueueTyped(queue), queue # <<>>
  PROVE  /\ QueueTyped(Tail(queue)) /\ From(Tail(queue))
         /\ \A j \in DOMAIN Tail(queue) : Tail(queue)[j] # Head(queue)
<1>1. /\ Tail(queue) \in Seq(Requests \cup {"release"})
      /\ Len(Tail(queue)) = Len(queue) - 1
      /\ \A i \in 1..Len(Tail(queue)) : Tail(queue)[i] = queue[i + 1]
  BY HeadTailProperties DEF QueueTyped
<1>2. \A j \in DOMAIN Tail(queue) :
        /\ j + 1 \in DOMAIN queue /\ j + 1 # 1 /\ 1 \in DOMAIN queue
        /\ Tail(queue)[j] = queue[j + 1]
  BY <1>1 DEF QueueTyped
<1>3. DOMAIN Tail(queue) \subseteq Int
  BY <1>1
<1>4. Distinct(Tail(queue))
  BY <1>2, <1>3 DEF QueueTyped, Distinct
<1>5. Head(queue) = queue[1]
  BY DEF QueueTyped
<1>6. \A j \in DOMAIN Tail(queue) : Tail(queue)[j] # Head(queue)
  BY <1>2, <1>5 DEF QueueTyped, Distinct
<1> QED BY <1>1, <1>2, <1>4, <1>6 DEF QueueTyped, From

\* Something new at the end of the queue.
LEMMA AppendToQueue ==
  ASSUME QueueTyped(queue), NEW x \in Requests \cup {"release"},
         \A i \in DOMAIN queue : queue[i] # x
  PROVE  /\ QueueTyped(Append(queue, x))
         /\ Append(queue, x) # <<>>
         /\ queue # <<>> => Head(Append(queue, x)) = Head(queue)
         /\ \A j \in DOMAIN Append(queue, x) :
              Append(queue, x)[j] = x \/ \E i \in DOMAIN queue : Append(queue, x)[j] = queue[i]
<1> DEFINE q == Append(queue, x)
<1>1. /\ q \in Seq(Requests \cup {"release"}) /\ Len(q) = Len(queue) + 1
      /\ \A i \in 1..Len(queue) : q[i] = queue[i]
      /\ q[Len(queue) + 1] = x
  BY AppendProperties DEF QueueTyped
<1>2. Len(queue) \in Nat /\ DOMAIN queue = 1..Len(queue) /\ DOMAIN q = 1..(Len(queue) + 1)
  BY <1>1 DEF QueueTyped
<1> HIDE DEF q
<1>3. \A i \in DOMAIN q : IF i \in DOMAIN queue THEN q[i] = queue[i] ELSE i = Len(queue) + 1 /\ q[i] = x
  BY <1>1, <1>2
<1>4. Distinct(q)
  BY <1>2, <1>3 DEF QueueTyped, Distinct
<1>5. q # <<>> /\ (queue # <<>> => Head(q) = Head(queue))
  BY <1>1, <1>2 DEF QueueTyped
<1> QED BY <1>1, <1>3, <1>4, <1>5 DEF QueueTyped, q

\* Leaving the queue takes away nothing but the head.
LEMMA LeaveQueue ==
  ASSUME QueueTyped(queue), NEW c, Leave(c)
  PROVE  /\ QueueTyped(queue') /\ From(queue')
         /\ queue # <<>> /\ Head(queue) # c => queue' = queue
  BY TailOfQueue DEF Leave, From

\* A Session changes its state.
LEMMA BecomeSession ==
  ASSUME sessions \in Seq(Native), NEW i \in DOMAIN sessions, NEW state \in Native, Become(i, state)
  PROVE  /\ sessions' \in Seq(Native) /\ Len(sessions') = Len(sessions)
         /\ DOMAIN sessions' = DOMAIN sessions
         /\ sessions'[i] = state /\ \A j \in DOMAIN sessions : j # i => sessions'[j] = sessions[j]
  BY DEF Become

\* A Session is opened.
LEMMA AppendSession ==
  ASSUME sessions \in Seq(Native), sessions' = Append(sessions, "opening")
  PROVE  /\ sessions' \in Seq(Native) /\ Len(sessions') = Len(sessions) + 1
         /\ DOMAIN sessions' = DOMAIN sessions \cup {Len(sessions) + 1}
         /\ sessions'[Len(sessions) + 1] = "opening"
         /\ \A j \in DOMAIN sessions : sessions'[j] = sessions[j]
<1>1. "opening" \in Native
  BY DEF Native
<1>2. /\ sessions' \in Seq(Native) /\ Len(sessions') = Len(sessions) + 1
      /\ \A j \in 1..Len(sessions) : sessions'[j] = sessions[j]
      /\ sessions'[Len(sessions) + 1] = "opening"
  BY <1>1, AppendProperties
<1>3. DOMAIN sessions = 1..Len(sessions) /\ DOMAIN sessions' = 1..(Len(sessions) + 1)
  BY <1>2
<1> QED BY <1>2, <1>3

-----------------------------------------------------------------------------
(* Types. *)

Labels == {"idle", "queued", "waiting", "operating", "restoring", "using", "detached",
           "removing", "closing", "done"}

HostTyped ==
  /\ phase \in {"up", "ended", "stopped", "closing", "exited"}
  /\ stored \in BOOLEAN /\ running \in BOOLEAN /\ idle \in BOOLEAN /\ enabled \in BOOLEAN

SessionsTyped ==
  /\ sessions \in Seq(Native) /\ Len(sessions) <= MaxSessions
  /\ loaded \in DOMAIN sessions \cup {None} /\ restoring \in DOMAIN sessions \cup {None}
  /\ candidate \in DOMAIN sessions \cup {None} /\ releasing \in DOMAIN sessions \cup {None}
  /\ failed \subseteq DOMAIN sessions /\ blocked \subseteq DOMAIN sessions

CallersTyped == pc \in [Callers -> Labels] /\ holds \in [Callers -> DOMAIN sessions \cup {None}]

Typed == HostTyped /\ SessionsTyped /\ QueueTyped(queue) /\ CallersTyped

LEMMA TypedIsTypeOK == Typed <=> TypeOK
BY DEF TypeOK, Typed, HostTyped, SessionsTyped, QueueTyped, Distinct, CallersTyped, Labels

\* No Session has the number None.
LEMMA NumbersAreSessions ==
  ASSUME SessionsTyped
  PROVE  /\ DOMAIN sessions = 1..Len(sessions) /\ Len(sessions) \in Nat
         /\ None \notin DOMAIN sessions
<1>1. Len(sessions) \in Nat /\ DOMAIN sessions = 1..Len(sessions)
  BY DEF SessionsTyped
<1> QED BY <1>1, SessionAssumption DEF SessionAssumption

\* An operation that ends leaves the Sessions as they are.
LEMMA FinishTypes ==
  ASSUME Typed, NEW c \in Callers, Finish(c)
  PROVE  /\ QueueTyped(queue') /\ From(queue') /\ idle' \in BOOLEAN
         /\ pc' = [pc EXCEPT ![c] = "done"] /\ holds' = [holds EXCEPT ![c] = None]
BY LeaveQueue DEF Finish, Goto, Typed, HostTyped

\* A step of a caller.
LEMMA CallerTypes ==
  ASSUME Typed, QueueIsKnown, NEW c \in Callers, CallerStep(c)
  PROVE  Typed'
<1> USE DEF Typed, HostTyped, CallersTyped, Labels, Goto, session, release, callers
<1>1. CASE Receive(c)
  <2>1. \A i \in DOMAIN queue : queue[i] # c
    BY <1>1, SessionAssumption DEF QueueIsKnown, Receive, SessionAssumption
  <2>2. QueueTyped(queue')
    BY <1>1, <2>1, AppendToQueue DEF Receive
  <2> QED BY <1>1, <2>2 DEF Receive, SessionsTyped
<1>2. CASE Enter(c)
  <2>1. QueueTyped(queue')
    BY <1>2, LeaveQueue DEF Enter
  <2> QED BY <1>2, <2>1 DEF Enter, SessionsTyped
<1>3. CASE Resolve(c)
  <2>1. CASE Usable
    BY <1>3, <2>1 DEF Resolve, SessionsTyped
  <2>2. CASE ~Usable /\ (loaded # None \/ ~stored)
    BY <1>3, <2>2, FinishTypes DEF Resolve, SessionsTyped
  <2>3. CASE ~(Usable \/ loaded # None \/ ~stored) /\ restoring # None
    BY <1>3, <2>3 DEF Resolve, SessionsTyped
  <2>4. CASE ~(Usable \/ loaded # None \/ ~stored) /\ restoring = None
    <3>1. Len(sessions) < MaxSessions /\ sessions' = Append(sessions, "opening") /\ restoring' = Len(sessions')
      BY <1>3, <2>4 DEF Resolve
    <3>2. SessionsTyped'
      BY <1>3, <2>4, <3>1, AppendSession, SessionAssumption, NumbersAreSessions
      DEF Resolve, SessionsTyped, SessionAssumption
    <3>3. HostTyped' /\ CallersTyped' /\ queue' = queue
      BY <1>3, <2>4, <3>1, AppendSession DEF Resolve, SessionsTyped
    <3> QED BY <3>2, <3>3
  <2> QED BY <2>1, <2>2, <2>3, <2>4
<1>4. CASE Detach(c)
  BY <1>4, LeaveQueue DEF Detach, SessionsTyped
<1>5. CASE StartTurn(c)
  BY <1>5 DEF StartTurn, SessionsTyped
<1>6. CASE Return(c)
  BY <1>6, FinishTypes DEF Return, SessionsTyped
<1>7. CASE Locate(c)
  <2>1. CASE loaded \in blocked \/ (loaded = None /\ ~stored)
    BY <1>7, <2>1, FinishTypes DEF Locate, SessionsTyped
  <2>2. CASE ~(loaded \in blocked \/ (loaded = None /\ ~stored))
    BY <1>7, <2>2 DEF Locate, SessionsTyped
  <2> QED BY <2>1, <2>2
<1>8. CASE Remove(c)
  <2>1. CASE holds[c] # None /\ sessions[holds[c]] = "open"
    <3>1. SessionsTyped' /\ DOMAIN sessions' = DOMAIN sessions
      BY <1>8, <2>1, BecomeSession DEF Remove, SessionsTyped, Native
    <3> QED BY <1>8, <3>1 DEF Remove
  <2>2. CASE sessions' = sessions
    BY <1>8, <2>2 DEF Remove, SessionsTyped
  <2> QED BY <1>8, <2>1, <2>2 DEF Remove
<1>9. CASE FailRemove(c)
  BY <1>9, FinishTypes DEF FailRemove, SessionsTyped
<1>10. CASE EndDelete(c)
  BY <1>10, FinishTypes DEF EndDelete, SessionsTyped
<1> QED
  BY <1>1, <1>2, <1>3, <1>4, <1>5, <1>6, <1>7, <1>8, <1>9, <1>10 DEF CallerStep

\* A step of the restore.
LEMMA RestoreTypes ==
  ASSUME Typed, RestoreStep
  PROVE  Typed'
<1> USE DEF Typed, HostTyped, CallersTyped, Labels, session, release, callers
<1>0. ASSUME RejectRestore PROVE QueueTyped(queue')
  BY <1>0, TailOfQueue DEF RejectRestore
<1>1. CASE OpenSession
  <2>1. SessionsTyped' /\ DOMAIN sessions' = DOMAIN sessions
    BY <1>1, BecomeSession DEF OpenSession, SessionsTyped, Native
  <2> QED BY <1>1, <2>1 DEF OpenSession
<1>2. CASE Register
  BY <1>2 DEF Register, SessionsTyped
<1>3. CASE FailOpen
  <2>1. SessionsTyped' /\ DOMAIN sessions' = DOMAIN sessions
    BY <1>3, BecomeSession DEF FailOpen, RejectRestore, SessionsTyped, Native
  <2> QED BY <1>0, <1>3, <2>1 DEF FailOpen, RejectRestore
<1>4. CASE AbortRestore
  <2>1. SessionsTyped' /\ DOMAIN sessions' = DOMAIN sessions
    BY <1>4, BecomeSession DEF AbortRestore, SessionsTyped, Native
  <2> QED BY <1>4, <2>1 DEF AbortRestore
<1>5. CASE FailRestore
  BY <1>0, <1>5 DEF FailRestore, RejectRestore, SessionsTyped
<1> QED BY <1>1, <1>2, <1>3, <1>4, <1>5 DEF RestoreStep

\* A release whose turn has come has a candidate.
LEMMA ReleaseHasCandidate ==
  ASSUME Typed, QueueIsKnown, queue # <<>>, Head(queue) = "release"
  PROVE  candidate \in DOMAIN sessions
<1>1. 1 \in DOMAIN queue /\ queue[1] = "release"
  BY DEF Typed, QueueTyped
<1> QED BY <1>1 DEF QueueIsKnown, Typed, SessionsTyped

LEMMA ReleaseTypes ==
  ASSUME Typed, QueueIsKnown, ReleaseIsAlone, ReleaseStep
  PROVE  Typed'
<1> USE DEF Typed, HostTyped, CallersTyped, Labels, session, release, callers
<1>1. CASE Configure
  BY <1>1 DEF Configure, SessionsTyped
<1>2. CASE Elapse
  BY <1>2 DEF Elapse, SessionsTyped
<1>3. CASE Check
  <2>1. QueueTyped(queue')
    BY <1>3, AppendToQueue DEF Check, Scheduled
  <2> QED BY <1>3, <2>1 DEF Check, SessionsTyped
<1>4. CASE RunRelease
  <2>1. CASE Eligible(candidate)
    <3>1. SessionsTyped' /\ DOMAIN sessions' = DOMAIN sessions
      BY <1>4, <2>1, ReleaseHasCandidate, BecomeSession DEF RunRelease, SessionsTyped, Native
    <3> QED BY <1>4, <2>1, <3>1 DEF RunRelease
  <2>2. CASE ~Eligible(candidate)
    BY <1>4, <2>2, TailOfQueue DEF RunRelease, SessionsTyped
  <2> QED BY <2>1, <2>2
<1>5. CASE FinishRelease
  BY <1>5, TailOfQueue DEF FinishRelease, EndRelease, ReleaseIsAlone, SessionsTyped
<1>6. CASE TimeoutRelease
  BY <1>6, TailOfQueue DEF TimeoutRelease, EndRelease, ReleaseIsAlone, SessionsTyped
<1> QED BY <1>1, <1>2, <1>3, <1>4, <1>5, <1>6 DEF ReleaseStep

\* Any step.
LEMMA TypeStep ==
  ASSUME Typed, QueueIsKnown, ReleaseIsAlone, [Next]_vars
  PROVE  Typed'
<1> USE DEF Typed, HostTyped, CallersTyped, Labels, session, release, callers
<1>1. ASSUME NEW i \in Numbers, CloseNative(i) PROVE Typed'
  <2>1. SessionsTyped' /\ DOMAIN sessions' = DOMAIN sessions
    BY <1>1, BecomeSession DEF CloseNative, SessionsTyped, Native
  <2> QED BY <1>1, <2>1 DEF CloseNative
<1>2. CASE EndTurn
  BY <1>2 DEF EndTurn, SessionsTyped
<1>3. CASE FailOutput
  BY <1>3 DEF FailOutput, SessionsTyped
<1>4. CASE EndInput
  BY <1>4 DEF EndInput, SessionsTyped
<1>5. CASE Stop
  BY <1>5 DEF Stop, SessionsTyped
<1>6. CASE CloseAll
  <2>1. CASE loaded # None /\ sessions[loaded] = "open"
    <3>1. SessionsTyped' /\ DOMAIN sessions' = DOMAIN sessions
      BY <1>6, <2>1, BecomeSession DEF CloseAll, CloseLoaded, SessionsTyped, Native
    <3> QED BY <1>6, <3>1 DEF CloseAll, CloseLoaded
  <2>2. CASE sessions' = sessions
    BY <1>6, <2>2 DEF CloseAll, CloseLoaded, SessionsTyped
  <2> QED BY <1>6, <2>1, <2>2 DEF CloseAll, CloseLoaded
<1>7. CASE Exit
  BY <1>7 DEF Exit, SessionsTyped
<1>8. CASE UNCHANGED vars
  BY <1>8 DEF vars, SessionsTyped
<1> QED
  BY CallerTypes, RestoreTypes, ReleaseTypes, <1>1, <1>2, <1>3, <1>4, <1>5, <1>6, <1>7, <1>8 DEF Next

-----------------------------------------------------------------------------
(* The queue, the release and the restore. *)

\* A queue that lost its head, while no caller became idle, is still known.
LEMMA KnownStays ==
  ASSUME Typed, QueueIsKnown, QueueTyped(queue'),
         From(queue'), candidate' = candidate,
         \A c \in Callers : pc[c] # "idle" => pc'[c] # "idle"
  PROVE  QueueIsKnown'
<1> SUFFICES ASSUME NEW j \in DOMAIN queue'
             PROVE  IF queue'[j] = "release" THEN candidate # None ELSE pc'[queue'[j]] # "idle"
  BY DEF QueueIsKnown
<1>1. PICK i \in DOMAIN queue : queue'[j] = queue[i]
  BY DEF From
<1>2. queue[i] \in Requests \cup {"release"}
  BY DEF Typed, QueueTyped
<1> QED BY <1>1, <1>2 DEF QueueIsKnown, Callers

\* Without its head, the release, the queue holds requests only.
LEMMA KnownAfterRelease ==
  ASSUME Typed, QueueIsKnown, queue # <<>>, Head(queue) = "release", queue' = Tail(queue), pc' = pc
  PROVE  QueueIsKnown'
<1>1. \A j \in DOMAIN queue' : queue'[j] # "release" /\ \E i \in DOMAIN queue : queue'[j] = queue[i]
  BY TailOfQueue DEF Typed, From
<1> QED BY <1>1 DEF QueueIsKnown

LEMMA QueueStep ==
  ASSUME Typed, QueueIsKnown, ReleaseIsAlone, [Next]_vars
  PROVE  QueueIsKnown'
<1> USE DEF session, release, callers, Goto, CallersTyped
<1>0. QueueTyped(queue) /\ From(queue)
  BY DEF Typed, From
<1>1. ASSUME NEW c \in Callers, CallerStep(c) PROVE QueueIsKnown'
  <2>1. CASE Receive(c)
    <3>1. \A i \in DOMAIN queue : queue[i] # c
      BY <2>1, SessionAssumption DEF QueueIsKnown, Receive, SessionAssumption
    <3>2. c # "release" /\ pc'[c] = "queued"
      BY <2>1, SessionAssumption DEF Receive, SessionAssumption, Typed
    <3>3. \A j \in DOMAIN queue' : queue'[j] = c \/ \E i \in DOMAIN queue : queue'[j] = queue[i]
      BY <1>0, <2>1, <3>1, AppendToQueue DEF Receive
    <3> QED BY <2>1, <3>2, <3>3 DEF Receive, QueueIsKnown, Typed
  <2>2. CASE ~Receive(c)
    <3>1. QueueTyped(queue') /\ From(queue')
      BY <1>0, <1>1, <2>2, LeaveQueue, FinishTypes, Zenon
      DEF CallerStep, Enter, Resolve, Detach, StartTurn, Return, Locate, Remove, FailRemove, EndDelete,
          From
    <3>2. candidate' = candidate
      BY <1>1, <2>2 DEF CallerStep, Enter, Resolve, Detach, StartTurn, Return, Locate, Remove,
                        FailRemove, EndDelete
    <3>3. \A d \in Callers : pc[d] # "idle" => pc'[d] # "idle"
      BY <1>1, <2>2 DEF CallerStep, Enter, Resolve, Detach, StartTurn, Return, Locate, Remove,
                        FailRemove, EndDelete, Finish, Typed
    <3> QED BY <3>1, <3>2, <3>3, KnownStays
  <2> QED BY <2>1, <2>2
<1>2. CASE RestoreStep
  <2>1. QueueTyped(queue') /\ From(queue')
    BY <1>0, <1>2, TailOfQueue
    DEF RestoreStep, OpenSession, Register, FailOpen, AbortRestore, FailRestore, RejectRestore
  <2>2. candidate' = candidate
    BY <1>2 DEF RestoreStep, OpenSession, Register, FailOpen, AbortRestore, FailRestore, RejectRestore
  <2>3. \A d \in Callers : pc[d] # "idle" => pc'[d] # "idle"
    BY <1>2 DEF RestoreStep, OpenSession, Register, FailOpen, AbortRestore, FailRestore, RejectRestore
  <2> QED BY <2>1, <2>2, <2>3, KnownStays
<1>3. CASE ReleaseStep
  <2>1. CASE Configure \/ Elapse
    BY <2>1, <1>0, KnownStays DEF Configure, Elapse
  <2>2. CASE Check
    BY <1>0, <2>2, AppendToQueue DEF Check, Scheduled, QueueIsKnown
  <2>3. CASE RunRelease
    BY <1>0, <2>3, KnownStays, KnownAfterRelease DEF RunRelease
  <2>4. CASE FinishRelease \/ TimeoutRelease
    BY <2>4, KnownAfterRelease DEF FinishRelease, TimeoutRelease, EndRelease, ReleaseIsAlone
  <2> QED BY <1>3, <2>1, <2>2, <2>3, <2>4 DEF ReleaseStep
<1>4. CASE UNCHANGED <<queue, candidate, pc>>
  BY <1>0, <1>4, KnownStays
<1> QED
  BY <1>1, <1>2, <1>3, <1>4
  DEF Next, CloseNative, EndTurn, FailOutput, EndInput, Stop, CloseAll, CloseLoaded, Exit, vars

\* While a release closes a Session no caller is counted, and none comes to be.
LEMMA NobodyOperates ==
  ASSUME Typed, ReleaseIsAlone, releasing # None, NEW c \in Callers, CallerStep(c)
  PROVE  /\ Operating' = {} /\ queue' # <<>> /\ Head(queue') = "release"
         /\ UNCHANGED <<loaded, releasing, restoring, blocked, sessions, stored, phase>>
<1> USE DEF session, release, callers, Goto, CallersTyped
<1>1. \A d \in Callers : pc[d] \notin {"operating", "restoring", "using", "detached", "removing", "closing"}
  BY DEF ReleaseIsAlone, Operating
<1>2. Receive(c) \/ Enter(c)
  BY <1>1 DEF CallerStep, Resolve, Detach, StartTurn, Return, Locate, Remove, FailRemove, EndDelete
<1>3. queue' # <<>> /\ Head(queue') = "release"
  <2>1. CASE Receive(c)
    <3>1. queue' = Append(queue, c) /\ queue \in Seq(Requests \cup {"release"}) /\ c \in Requests
      BY <2>1 DEF Receive, Typed, QueueTyped
    <3> QED BY <3>1 DEF ReleaseIsAlone
  <2>2. CASE Enter(c)
    <3>1. c # "release"
      BY SessionAssumption DEF SessionAssumption
    <3> QED BY <2>2, <3>1 DEF Enter, Leave, ReleaseIsAlone
  <2> QED BY <1>2, <2>1, <2>2
<1>4. \A d \in Callers : pc'[d] \notin {"operating", "restoring", "using", "detached", "removing", "closing"}
  BY <1>1, <1>2 DEF Receive, Enter, Typed
<1> QED BY <1>2, <1>3, <1>4 DEF Operating, Receive, Enter

\* The release stays alone.
LEMMA AloneStep ==
  ASSUME Typed, Inv, [Next]_vars
  PROVE  ReleaseIsAlone'
<1> USE DEF session, release, callers, Goto
<1> USE NumbersAreSessions
<1>1. ASSUME NEW c \in Callers, CallerStep(c) PROVE ReleaseIsAlone'
  <2>1. CASE releasing = None
    BY <1>1, <2>1 DEF ReleaseIsAlone, CallerStep, Receive, Enter, Resolve, Detach, StartTurn, Return,
                      Locate, Remove, FailRemove, EndDelete
  <2>2. CASE releasing # None
    BY <1>1, <2>2, NobodyOperates DEF Inv, ReleaseIsAlone
  <2> QED BY <2>1, <2>2
<1>2. CASE RestoreStep
  <2>1. restoring # None /\ releasing' = releasing
    BY <1>2 DEF RestoreStep, OpenSession, Register, FailOpen, AbortRestore, FailRestore, RejectRestore
  <2>2. releasing = None
    BY <2>1 DEF Inv, RestoreIsAwaited, ReleaseIsAlone, Operating
  <2> QED BY <2>1, <2>2 DEF ReleaseIsAlone
<1>3. CASE ReleaseStep
  <2>1. CASE Configure \/ Elapse
    BY <2>1 DEF Configure, Elapse, Inv, ReleaseIsAlone, Operating
  <2>2. CASE Check
    BY <2>2 DEF Check, Eligible, ReleaseIsAlone
  <2>3. CASE RunRelease
    <3>1. CASE Eligible(candidate)
      BY <2>3, <3>1 DEF RunRelease, Eligible, ReleaseIsAlone, Operating
    <3>2. CASE ~Eligible(candidate)
      BY <2>3, <3>2 DEF RunRelease, ReleaseIsAlone
    <3> QED BY <3>1, <3>2
  <2>4. CASE FinishRelease \/ TimeoutRelease
    BY <2>4 DEF FinishRelease, TimeoutRelease, EndRelease, ReleaseIsAlone
  <2> QED BY <1>3, <2>1, <2>2, <2>3, <2>4 DEF ReleaseStep
<1>4. CASE UNCHANGED <<queue, releasing, loaded, blocked, pc>>
  BY <1>4 DEF Inv, ReleaseIsAlone, Operating
<1>5. CASE Exit
  <2>1. releasing = None
    BY <1>5 DEF Exit, Inv, EndingIsQuiet, Ending, ReleaseIsAlone
  <2> QED BY <1>5, <2>1 DEF Exit, ReleaseIsAlone
<1> QED
  BY <1>1, <1>2, <1>3, <1>4, <1>5
  DEF Next, CloseNative, EndTurn, FailOutput, EndInput, Stop, CloseAll, CloseLoaded, vars

\* A restore stays awaited.
LEMMA AwaitedStep ==
  ASSUME Typed, Inv, [Next]_vars
  PROVE  RestoreIsAwaited'
<1> USE DEF session, release, callers, Goto
<1> USE NumbersAreSessions DEF Typed, SessionsTyped, CallersTyped
<1>1. ASSUME NEW c \in Callers, CallerStep(c) PROVE RestoreIsAwaited'
  <2>1. CASE restoring' = restoring /\ loaded' = loaded /\ blocked' = blocked /\ (pc[c] # "restoring" \/ pc' = pc)
    BY <2>1, <1>1 DEF Inv, RestoreIsAwaited, CallerStep, Receive, Enter, Resolve, Detach, StartTurn, Return,
                Locate, FailRemove, EndDelete, Finish, Remove
  <2>2. CASE Remove(c)
    BY <2>2 DEF Remove, Inv, RestoreIsAwaited
  <2>3. CASE Resolve(c)
    <3>1. CASE restoring' = restoring
      BY <2>1, <2>3, <3>1 DEF Resolve
    <3>2. CASE restoring' # restoring
      <4>1. /\ loaded = None /\ loaded' = loaded /\ blocked' = blocked
            /\ sessions' = Append(sessions, "opening") /\ restoring' = Len(sessions')
            /\ pc' = [pc EXCEPT ![c] = "restoring"]
        BY <2>3, <3>2 DEF Resolve, Finish
      <4>2. restoring' = Len(sessions) + 1
        BY <4>1, AppendSession
      <4>3. restoring' \notin blocked
        BY <4>2
      <4> QED BY <4>1, <4>3 DEF RestoreIsAwaited
    <3> QED BY <3>1, <3>2
  <2>4. CASE Receive(c) \/ Enter(c) \/ Detach(c) \/ StartTurn(c) \/ Return(c) \/ Locate(c) \/ FailRemove(c) \/ EndDelete(c)
    BY <2>1, <2>4 DEF Receive, Enter, Detach, StartTurn, Return, Locate, FailRemove, EndDelete
  <2> QED BY <1>1, <2>2, <2>3, <2>4 DEF CallerStep
<1>2. CASE RestoreStep
  BY <1>2 DEF RestoreStep, OpenSession, Register, FailOpen, AbortRestore, FailRestore, RejectRestore,
              Inv, RestoreIsAwaited
<1>3. CASE ReleaseStep
  BY <1>3 DEF ReleaseStep, Configure, Elapse, Check, RunRelease, FinishRelease, TimeoutRelease,
              Inv, RestoreIsAwaited, ReleaseIsAlone, Operating
<1>4. CASE UNCHANGED <<loaded, restoring, blocked, pc>>
  BY <1>4 DEF Inv, RestoreIsAwaited
<1>5. CASE Exit
  BY <1>5 DEF Exit, RestoreIsAwaited
<1> QED
  BY <1>1, <1>2, <1>3, <1>4, <1>5
  DEF Next, CloseNative, EndTurn, FailOutput, EndInput, Stop, CloseAll, CloseLoaded, vars

\* Nothing begins once the Host closes its Sessions.
LEMMA EndingStep ==
  ASSUME Typed, Inv, [Next]_vars
  PROVE  EndingIsQuiet'
<1> USE DEF session, release, callers, Goto
<1>1. ASSUME NEW c \in Callers, CallerStep(c) PROVE EndingIsQuiet'
  <2>1. phase' = phase
    BY <1>1 DEF CallerStep, Receive, Enter, Resolve, Detach, StartTurn, Return,
                Locate, Remove, FailRemove, EndDelete
  <2>2. SUFFICES ASSUME Ending PROVE Operating' = {} /\ queue' = <<>>
    BY <2>1 DEF EndingIsQuiet, Ending
  <2>3. \A d \in Callers : pc[d] \notin {"operating", "restoring", "using", "detached", "removing", "closing"}
    BY <2>2 DEF Inv, EndingIsQuiet, Operating
  <2>4. Enter(c) /\ Stopped
    BY <1>1, <2>2, <2>3 DEF CallerStep, Receive, Resolve, Detach, StartTurn, Return, Locate, Remove,
                            FailRemove, EndDelete, Ending, Stopped
  <2> QED BY <2>2, <2>3, <2>4 DEF Enter, Leave, Inv, EndingIsQuiet, Operating, Typed, CallersTyped
<1>2. CASE RestoreStep
  <2>1. restoring # None /\ phase' = phase
    BY <1>2 DEF RestoreStep, OpenSession, Register, FailOpen, AbortRestore, FailRestore, RejectRestore
  <2>2. ~Ending
    BY <2>1 DEF Inv, RestoreIsAwaited, EndingIsQuiet, Operating
  <2> QED BY <2>1, <2>2 DEF EndingIsQuiet, Ending
<1>3. CASE ReleaseStep
  <2>1. phase' = phase /\ pc' = pc
    BY <1>3 DEF ReleaseStep, Configure, Elapse, Check, RunRelease, FinishRelease, TimeoutRelease
  <2>2. CASE queue' = queue
    BY <2>1, <2>2 DEF Inv, EndingIsQuiet, Ending, Operating
  <2>3. CASE queue' # queue
    <3>1. ~Ending
      BY <1>3, <2>3 DEF ReleaseStep, Configure, Elapse, Check, RunRelease, FinishRelease, TimeoutRelease,
                        Eligible, Stopped, Ending, Inv, EndingIsQuiet, ReleaseIsAlone
    <3> QED BY <2>1, <3>1 DEF EndingIsQuiet, Ending
  <2> QED BY <2>2, <2>3
<1>4. CASE CloseAll
  BY <1>4 DEF CloseAll, CloseLoaded, EndingIsQuiet, Operating
<1>5. CASE EndInput \/ Stop \/ Exit
  BY <1>5 DEF EndInput, Stop, Exit, Inv, EndingIsQuiet, Operating, Ending
<1>6. CASE UNCHANGED <<queue, pc, phase>>
  BY <1>6 DEF Inv, EndingIsQuiet, Operating, Ending
<1> QED
  BY <1>1, <1>2, <1>3, <1>4, <1>5, <1>6 DEF Next, CloseNative, EndTurn, FailOutput, vars

-----------------------------------------------------------------------------
(* The writers. *)

\* A Session that may write changes its state.
LEMMA WritersOfBecome ==
  ASSUME Typed, Inv, blocked' = blocked,
         NEW i \in Writers, NEW state \in Native, Become(i, state)
  PROVE  /\ DOMAIN sessions' = DOMAIN sessions /\ Len(sessions') = Len(sessions)
         /\ Writers' \subseteq Writers
         /\ state \in {"closed", "lost"} /\ i \notin blocked => Writers' = {}
<1>1. /\ DOMAIN sessions' = DOMAIN sessions /\ Len(sessions') = Len(sessions)
      /\ sessions'[i] = state /\ \A j \in DOMAIN sessions : j # i => sessions'[j] = sessions[j]
  BY BecomeSession DEF Writers, Typed, SessionsTyped
<1>2. \A j \in Writers : j = i
  BY DEF Inv, LastWrites
<1>3. Writers' \subseteq {i}
  BY <1>1, <1>2 DEF Writers
<1>4. state \in {"closed", "lost"} /\ i \notin blocked => i \notin Writers'
  BY <1>1 DEF Writers
<1> QED BY <1>1, <1>3, <1>4

\* Steps that give no Session the right to write, and leave the Thread with what it has.
LEMMA LastWritesStays ==
  ASSUME Typed, Inv, Len(sessions') = Len(sessions), Writers' \subseteq Writers,
         loaded' = loaded, restoring' = restoring, stored' => stored, phase' # "exited" => phase # "exited"
  PROVE  LastWrites'
BY DEF Inv, LastWrites

\* A Session closed by a caller, or by no one.
LEMMA LastWritesStep ==
  ASSUME Typed, Inv, [Next]_vars
  PROVE  LastWrites'
<1> USE DEF session, release, callers, Goto
<1>0. /\ DOMAIN sessions = 1..Len(sessions) /\ Len(sessions) \in Nat /\ None \notin Nat
      /\ sessions \in Seq(Native)
  BY NumbersAreSessions, SessionAssumption DEF Typed, SessionsTyped, SessionAssumption
<1>1. ASSUME NEW c \in Callers, CallerStep(c) PROVE LastWrites'
  <2>1. CASE Resolve(c)
    <3>1. CASE sessions' = sessions
      <4>1. UNCHANGED <<loaded, restoring, stored, phase, blocked>> \/ restoring' # restoring
        BY <2>1 DEF Resolve
      <4>2. restoring' = restoring
        <5>1. ASSUME sessions' = Append(sessions, "opening") PROVE FALSE
          <6>1. Len(sessions') = Len(sessions) + 1
            BY <1>0, <5>1, AppendSession
          <6> QED BY <1>0, <3>1, <6>1
        <5> QED BY <2>1, <3>1, <5>1 DEF Resolve, Finish
      <4> QED BY <2>1, <3>1, <4>1, <4>2, LastWritesStays DEF Writers
    <3>2. CASE sessions' # sessions
      <4>1. /\ pc[c] = "operating" /\ stored /\ loaded = None /\ restoring = None
            /\ sessions' = Append(sessions, "opening") /\ restoring' = Len(sessions')
            /\ loaded' = loaded /\ blocked' = blocked
        BY <2>1, <3>2 DEF Resolve
      <4>2. phase # "exited"
        BY <4>1 DEF Inv, EndingIsQuiet, Ending, Operating
      <4>3. Writers = {}
        BY <4>1, <4>2 DEF Inv, LastWrites
      <4>4. /\ DOMAIN sessions' = DOMAIN sessions \cup {Len(sessions) + 1}
            /\ Len(sessions') = Len(sessions) + 1
            /\ \A j \in DOMAIN sessions : sessions'[j] = sessions[j]
        BY <1>0, <4>1, AppendSession
      <4>5. \A i \in Writers' : i = Len(sessions')
        BY <4>1, <4>3, <4>4 DEF Writers
      <4> QED BY <1>0, <4>1, <4>4, <4>5 DEF LastWrites
    <3> QED BY <3>1, <3>2
  <2>2. CASE Remove(c)
    <3>1. /\ stored' = FALSE /\ loaded' = None /\ restoring' = restoring /\ blocked' = blocked
      BY <2>2 DEF Remove
    <3>2. Len(sessions') = Len(sessions) /\ Writers' \subseteq Writers
      <4>1. CASE holds[c] # None /\ sessions[holds[c]] = "open"
        <5>1. holds[c] \in Writers
          BY <4>1 DEF Typed, CallersTyped, Writers
        <5> QED BY <2>2, <3>1, <4>1, <5>1, WritersOfBecome DEF Remove, Native
      <4>2. CASE sessions' = sessions
        BY <3>1, <4>2 DEF Writers
      <4> QED BY <2>2, <4>1, <4>2 DEF Remove
    <3> QED BY <3>1, <3>2 DEF Inv, LastWrites
  <2>3. CASE UNCHANGED <<sessions, loaded, restoring, stored, phase, blocked>>
    BY <2>3, LastWritesStays DEF Writers
  <2> QED BY <1>1, <2>1, <2>2, <2>3
          DEF CallerStep, Receive, Enter, Detach, StartTurn, Return, Locate, FailRemove, EndDelete
<1>2. CASE RestoreStep
  <2>1. restoring # None /\ restoring \in DOMAIN sessions /\ loaded = None /\ restoring \notin blocked
    BY <1>2 DEF RestoreStep, OpenSession, Register, FailOpen, AbortRestore, FailRestore, RejectRestore,
                Inv, RestoreIsAwaited, Typed, SessionsTyped
  <2>2. UNCHANGED <<stored, phase, blocked>>
    BY <1>2 DEF RestoreStep, OpenSession, Register, FailOpen, AbortRestore, FailRestore, RejectRestore
  <2>3. ASSUME NEW state \in {"open", "closed", "closing"}, sessions[restoring] \in {"opening", "open"},
               Become(restoring, state)
        PROVE  /\ Len(sessions') = Len(sessions) /\ Writers' \subseteq Writers
               /\ state = "closed" => Writers' = {}
    <3>1. restoring \in Writers /\ state \in Native
      BY <2>1, <2>3 DEF Writers, Native
    <3> QED BY <2>1, <2>2, <2>3, <3>1, WritersOfBecome
  <2>4. CASE OpenSession \/ AbortRestore
    BY <2>2, <2>3, <2>4, LastWritesStays DEF OpenSession, AbortRestore
  <2>5. CASE Register
    <3>1. Writers' = Writers
      BY <2>5 DEF Register, Writers
    <3> QED BY <2>1, <2>5, <3>1 DEF Register, Inv, LastWrites
  <2>6. CASE FailOpen
    BY <2>1, <2>2, <2>3, <2>6 DEF FailOpen, RejectRestore, LastWrites, Inv
  <2>7. CASE FailRestore
    <3>1. Writers' = Writers /\ restoring \notin Writers
      BY <2>1, <2>7 DEF FailRestore, RejectRestore, Writers
    <3> QED BY <2>1, <2>7, <3>1 DEF FailRestore, RejectRestore, Inv, LastWrites
  <2> QED BY <1>2, <2>4, <2>5, <2>6, <2>7 DEF RestoreStep
<1>3. CASE ReleaseStep
  <2>1. CASE Configure \/ Elapse \/ Check
    BY <2>1, LastWritesStays DEF Configure, Elapse, Check, Writers
  <2>2. CASE RunRelease
    <3>1. UNCHANGED <<loaded, restoring, stored, phase, blocked>>
      BY <2>2 DEF RunRelease
    <3>2. CASE Eligible(candidate)
      <4>1. candidate \in DOMAIN sessions /\ candidate = loaded /\ sessions' = [sessions EXCEPT ![candidate] = "closing"]
        BY <2>2, <3>2, ReleaseHasCandidate DEF RunRelease, Eligible, Become, Inv
      <4>2. candidate = Len(sessions)
        BY <1>0, <4>1 DEF Inv, LastWrites
      <4>3. /\ Len(sessions') = Len(sessions) /\ DOMAIN sessions' = DOMAIN sessions
            /\ \A j \in DOMAIN sessions : j # candidate => sessions'[j] = sessions[j]
        BY <1>0, <4>1
      <4>4. Writers' \subseteq Writers \cup {candidate}
        BY <3>1, <4>3 DEF Writers
      <4> QED BY <1>0, <3>1, <4>1, <4>2, <4>3, <4>4 DEF Inv, LastWrites
    <3>3. CASE ~Eligible(candidate)
      BY <2>2, <3>1, <3>3, LastWritesStays DEF RunRelease, Writers
    <3> QED BY <3>2, <3>3
  <2>3. CASE FinishRelease \/ TimeoutRelease
    <3>1. /\ releasing # None /\ releasing = loaded /\ releasing \notin blocked
          /\ UNCHANGED <<sessions, restoring, stored, phase>>
      BY <2>3 DEF FinishRelease, TimeoutRelease, Inv, ReleaseIsAlone
    <3>2. CASE blocked' = blocked \cup {releasing} /\ loaded' = loaded
      <4>1. Writers' \subseteq Writers \cup {releasing}
        BY <3>1, <3>2 DEF Writers
      <4> QED BY <1>0, <3>1, <3>2, <4>1 DEF Inv, LastWrites
    <3>3. CASE sessions[releasing] = "closed" /\ loaded' = None /\ blocked' = blocked
      <4>1. Writers' = Writers /\ releasing \notin Writers
        BY <3>1, <3>3 DEF Writers
      <4> QED BY <3>1, <3>3, <4>1 DEF Inv, LastWrites
    <3> QED BY <2>3, <3>1, <3>2, <3>3 DEF FinishRelease, TimeoutRelease
  <2> QED BY <1>3, <2>1, <2>2, <2>3 DEF ReleaseStep
<1>4. ASSUME NEW i \in Numbers, CloseNative(i) PROVE LastWrites'
  <2>1. i \in Writers
    BY <1>4 DEF CloseNative, Writers
  <2>2. Len(sessions') = Len(sessions) /\ Writers' \subseteq Writers
    BY <1>4, <2>1, WritersOfBecome DEF CloseNative, Native
  <2> QED BY <1>4, <2>2, LastWritesStays DEF CloseNative
<1>5. CASE CloseAll
  <2>1. CASE loaded # None /\ sessions[loaded] = "open"
    <3>1. loaded \in Writers
      BY <2>1 DEF Typed, SessionsTyped, Writers
    <3>2. Len(sessions') = Len(sessions) /\ Writers' \subseteq Writers
      BY <1>5, <2>1, <3>1, WritersOfBecome DEF CloseAll, CloseLoaded, Native
    <3> QED BY <1>5, <3>2, LastWritesStays DEF CloseAll, CloseLoaded
  <2>2. CASE sessions' = sessions
    BY <1>5, <2>2, LastWritesStays DEF CloseAll, CloseLoaded, Writers
  <2> QED BY <1>5, <2>1, <2>2 DEF CloseAll, CloseLoaded
<1>6. CASE EndTurn \/ FailOutput \/ EndInput \/ Stop \/ UNCHANGED vars
  <2>1. UNCHANGED <<sessions, blocked, loaded, restoring, stored>> /\ (phase = "exited" => phase' = "exited")
    BY <1>6 DEF EndTurn, FailOutput, EndInput, Stop, vars
  <2> QED BY <2>1, LastWritesStays DEF Writers
<1>7. CASE Exit
  BY <1>7 DEF Exit, Inv, LastWrites, Writers
<1> QED
  BY <1>1, <1>2, <1>3, <1>4, <1>5, <1>6, <1>7 DEF Next

-----------------------------------------------------------------------------
(* Users, and what the shutdown leaves. *)

LEMMA LoadedStep ==
  ASSUME Typed, Inv, LoadedIsOpen, [Next]_vars
  PROVE  LoadedIsOpen'
<1> USE DEF session, release, callers, Goto
<1>0. /\ DOMAIN sessions = 1..Len(sessions) /\ None \notin DOMAIN sessions
      /\ sessions \in Seq(Native) /\ loaded \in DOMAIN sessions \cup {None}
  BY NumbersAreSessions DEF Typed, SessionsTyped
<1>1. ASSUME NEW c \in Callers, CallerStep(c) PROVE LoadedIsOpen'
  <2>1. CASE Remove(c)
    BY <2>1 DEF Remove, LoadedIsOpen
  <2>2. CASE ~Remove(c)
    <3>1. UNCHANGED <<stored, loaded, blocked, releasing, phase>>
      BY <1>1, <2>2 DEF CallerStep, Receive, Enter, Resolve, Detach, StartTurn, Return, Locate, FailRemove, EndDelete
    <3>2. loaded # None => sessions' = sessions
      BY <1>1, <2>2 DEF CallerStep, Receive, Enter, Resolve, Detach, StartTurn, Return, Locate, FailRemove, EndDelete
    <3> QED BY <3>1, <3>2 DEF LoadedIsOpen, Ending
  <2> QED BY <2>1, <2>2
<1>2. CASE RestoreStep
  BY <1>2 DEF RestoreStep, OpenSession, Register, FailOpen, AbortRestore, FailRestore, RejectRestore,
              Inv, RestoreIsAwaited, LoadedIsOpen
<1>3. CASE ReleaseStep
  <2>1. CASE RunRelease
    <3>1. CASE Eligible(candidate)
      BY <1>0, <2>1, <3>1, ReleaseHasCandidate DEF RunRelease, LoadedIsOpen, Inv
    <3>2. CASE ~Eligible(candidate)
      BY <2>1, <3>2 DEF RunRelease, LoadedIsOpen, Ending
    <3> QED BY <3>1, <3>2
  <2>2. CASE Configure \/ Elapse \/ Check
    <3>1. UNCHANGED <<stored, sessions, loaded, blocked, releasing, phase>>
      BY <2>2 DEF Configure, Elapse, Check
    <3> QED BY <3>1 DEF LoadedIsOpen, Ending
  <2>3. CASE FinishRelease \/ TimeoutRelease
    <3>1. loaded' = None \/ loaded' \in blocked'
      BY <2>3 DEF FinishRelease, TimeoutRelease, EndRelease, Inv, ReleaseIsAlone
    <3> QED BY <3>1 DEF LoadedIsOpen
  <2> QED BY <1>3, <2>1, <2>2, <2>3 DEF ReleaseStep
<1>4. ASSUME NEW i \in Numbers, CloseNative(i) PROVE LoadedIsOpen'
  <2>1. /\ UNCHANGED <<stored, loaded, blocked, releasing, phase>> /\ sessions[i] = "closing"
        /\ \A j \in DOMAIN sessions : j # i => sessions'[j] = sessions[j]
    BY <1>0, <1>4, BecomeSession DEF CloseNative, Native
  <2> QED BY <1>0, <2>1 DEF LoadedIsOpen, Ending
<1>5. CASE CloseAll \/ Exit
  BY <1>5 DEF CloseAll, CloseLoaded, Exit, LoadedIsOpen, Ending
<1>6. CASE EndTurn \/ FailOutput \/ EndInput \/ Stop \/ UNCHANGED vars
  <2>1. UNCHANGED <<sessions, blocked, loaded, releasing, stored>> /\ (Ending => Ending')
    BY <1>6 DEF EndTurn, FailOutput, EndInput, Stop, vars, Ending
  <2> QED BY <2>1 DEF LoadedIsOpen
<1> QED
  BY <1>1, <1>2, <1>3, <1>4, <1>5, <1>6 DEF Next

Busy(c) == pc[c] \in {"using", "detached"}

\* Steps under which an operation keeps its Session.
LEMMA UsersStay ==
  ASSUME UsersHold, stored' => stored, loaded' = loaded,
         \A c \in Callers : Busy(c)' => Busy(c) /\ holds'[c] = holds[c],
         loaded # None => sessions'[loaded] = sessions[loaded]
  PROVE  UsersHold'
BY DEF UsersHold, Busy

LEMMA UsersStep ==
  ASSUME Typed, Inv, LoadedIsOpen, UsersHold, [Next]_vars
  PROVE  UsersHold'
<1> USE DEF session, release, callers, Goto
<1>0. /\ DOMAIN sessions = 1..Len(sessions) /\ None \notin DOMAIN sessions
      /\ sessions \in Seq(Native) /\ loaded \in DOMAIN sessions \cup {None}
      /\ pc \in [Callers -> Labels] /\ holds \in [Callers -> DOMAIN sessions \cup {None}]
  BY NumbersAreSessions DEF Typed, SessionsTyped, CallersTyped
<1>q. Operating = {} /\ pc' = pc => \A c \in Callers : ~Busy(c)'
  BY DEF Operating, Busy
<1>1. ASSUME NEW c \in Callers, CallerStep(c) PROVE UsersHold'
  <2>1. CASE Remove(c)
    BY <2>1 DEF Remove, UsersHold
  <2>2. CASE Resolve(c)
    <3>1. UNCHANGED <<stored, loaded, blocked, releasing, phase>> /\ (loaded # None => sessions' = sessions)
      BY <2>2 DEF Resolve
    <3>2. CASE Usable
      <4>1. /\ pc' = [pc EXCEPT ![c] = "using"] /\ holds' = [holds EXCEPT ![c] = loaded]
            /\ loaded # None /\ loaded \notin blocked /\ sessions' = sessions
        BY <2>2, <3>2 DEF Resolve, Usable
      <4>2. Operating # {}
        BY <2>2 DEF Resolve, Operating
      <4>3. releasing = None /\ ~Ending
        BY <4>2 DEF Inv, ReleaseIsAlone, EndingIsQuiet
      <4>4. stored => sessions[loaded] = "open"
        BY <4>1, <4>3 DEF LoadedIsOpen
      <4> QED BY <1>0, <3>1, <4>1, <4>4 DEF UsersHold
    <3>3. CASE ~Usable
      <4>1. \A d \in Callers : Busy(d)' => Busy(d) /\ holds'[d] = holds[d]
        BY <1>0, <2>2, <3>3 DEF Resolve, Finish, Busy
      <4> QED BY <3>1, <4>1, UsersStay
    <3> QED BY <3>2, <3>3
  <2>3. CASE Detach(c)
    <3>1. \A d \in Callers : Busy(d)' => Busy(d) /\ holds'[d] = holds[d]
      BY <1>0, <2>3 DEF Detach, Busy
    <3> QED BY <2>3, <3>1, UsersStay DEF Detach
  <2>4. CASE Receive(c) \/ Enter(c) \/ StartTurn(c) \/ Return(c) \/ Locate(c) \/ FailRemove(c) \/ EndDelete(c)
    <3>1. UNCHANGED <<stored, loaded, sessions>>
      BY <2>4 DEF Receive, Enter, StartTurn, Return, Locate, FailRemove, EndDelete
    <3>2. \A d \in Callers : Busy(d)' => Busy(d) /\ holds'[d] = holds[d]
      BY <1>0, <2>4 DEF Receive, Enter, StartTurn, Return, Locate, FailRemove, EndDelete, Finish, Busy
    <3> QED BY <3>1, <3>2, UsersStay
  <2> QED BY <1>1, <2>1, <2>2, <2>3, <2>4 DEF CallerStep
<1>2. CASE RestoreStep
  <2>1. restoring # None /\ loaded = None
    BY <1>2 DEF RestoreStep, OpenSession, Register, FailOpen, AbortRestore, FailRestore, RejectRestore,
                Inv, RestoreIsAwaited
  <2>2. stored => \A c \in Callers : ~Busy(c)
    BY <2>1 DEF UsersHold, Busy
  <2>3. CASE Register
    <3>1. \A c \in Callers : stored /\ Busy(c)' => holds'[c] = restoring
      BY <1>0, <2>2, <2>3 DEF Register, Busy
    <3> QED BY <2>1, <2>3, <3>1 DEF Register, UsersHold, Busy
  <2>4. CASE ~Register
    <3>1. UNCHANGED <<stored, loaded, holds>> /\ \A c \in Callers : Busy(c)' => Busy(c)
      BY <1>0, <1>2, <2>4 DEF RestoreStep, OpenSession, FailOpen, AbortRestore, FailRestore, RejectRestore, Busy
    <3> QED BY <2>1, <3>1, UsersStay
  <2> QED BY <2>3, <2>4
<1>3. CASE ReleaseStep
  <2>1. CASE Operating = {}
    <3>1. pc' = pc
      BY <1>3 DEF ReleaseStep, Configure, Elapse, Check, RunRelease, FinishRelease, TimeoutRelease
    <3> QED BY <1>q, <2>1, <3>1 DEF UsersHold, Busy
  <2>2. CASE Operating # {}
    <3>1. UNCHANGED <<stored, loaded, sessions, pc, holds>>
      BY <1>3, <2>2 DEF ReleaseStep, Configure, Elapse, Check, RunRelease, FinishRelease, TimeoutRelease,
                        Eligible, Inv, ReleaseIsAlone
    <3> QED BY <3>1, UsersStay DEF Busy
  <2> QED BY <2>1, <2>2
<1>4. ASSUME NEW i \in Numbers, CloseNative(i) PROVE UsersHold'
  <2>1. /\ UNCHANGED <<stored, loaded, pc, holds>> /\ sessions[i] = "closing"
        /\ \A j \in DOMAIN sessions : j # i => sessions'[j] = sessions[j]
    BY <1>0, <1>4, BecomeSession DEF CloseNative, Native
  <2> QED BY <1>0, <2>1 DEF UsersHold
<1>5. CASE CloseAll \/ Exit
  <2>1. Operating = {} /\ pc' = pc
    BY <1>5 DEF CloseAll, CloseLoaded, Exit, Inv, EndingIsQuiet, Ending
  <2> QED BY <1>q, <2>1 DEF UsersHold, Busy
<1>6. CASE EndTurn \/ FailOutput \/ EndInput \/ Stop \/ UNCHANGED vars
  <2>1. UNCHANGED <<sessions, loaded, stored, pc, holds>>
    BY <1>6 DEF EndTurn, FailOutput, EndInput, Stop, vars
  <2> QED BY <2>1, UsersStay DEF Busy
<1> QED
  BY <1>1, <1>2, <1>3, <1>4, <1>5, <1>6 DEF Next

\* What the Host has closed stays closed.
LEMMA ExitStep ==
  ASSUME Typed, Inv, NoSessionOutlivesHost, [Next]_vars
  PROVE  NoSessionOutlivesHost'
<1> USE DEF session, release, callers, Goto
<1>0. /\ DOMAIN sessions = 1..Len(sessions) /\ None \notin DOMAIN sessions /\ Len(sessions) \in Nat
      /\ sessions \in Seq(Native) /\ loaded \in DOMAIN sessions \cup {None}
  BY NumbersAreSessions DEF Typed, SessionsTyped
<1>1. CASE Exit
  <2>1. loaded # None => sessions[loaded] \in {"closed", "lost"}
    BY <1>1 DEF Exit
  <2>2. restoring = None
    BY <1>1 DEF Exit, Inv, RestoreIsAwaited, EndingIsQuiet, Ending, Operating
  <2>3. ASSUME stored, NEW i \in DOMAIN sessions PROVE sessions[i] \in {"closed", "lost"}
    <3>1. CASE i \in Writers
      <4>1. i = Len(sessions) /\ loaded = i
        BY <1>1, <2>2, <2>3, <3>1 DEF Exit, Inv, LastWrites
      <4> QED BY <1>0, <2>1, <4>1
    <3>2. CASE i \notin Writers
      <4>1. sessions[i] \in Native
        BY <1>0, <2>3, ElementOfSeq
      <4> QED BY <3>2, <4>1 DEF Writers, Native
    <3> QED BY <3>1, <3>2
  <2> QED BY <1>1, <2>3 DEF Exit, NoSessionOutlivesHost
<1>2. CASE phase # "exited" /\ ~Exit
  <2>1. phase' # "exited"
    BY <1>2 DEF Next, vars, CallerStep, Receive, Enter, Resolve, Detach, StartTurn, Return, Locate, Remove,
       FailRemove, EndDelete, RestoreStep, OpenSession, Register, FailOpen, AbortRestore, FailRestore,
       RejectRestore, ReleaseStep, Configure, Elapse, Check, RunRelease, FinishRelease, TimeoutRelease,
       CloseNative, EndTurn, FailOutput, EndInput, Stop, CloseAll, CloseLoaded
  <2> QED BY <2>1 DEF NoSessionOutlivesHost
<1>3. CASE phase = "exited"
  <2>1. Operating = {} /\ queue = <<>> /\ restoring = None /\ releasing = None
    BY <1>3 DEF Inv, EndingIsQuiet, Ending, RestoreIsAwaited, ReleaseIsAlone, Operating
  <2>2. ~stored => ~stored'
    BY <2>1 DEF Next, vars, CallerStep, Receive, Enter, Resolve, Detach, StartTurn, Return, Locate, Remove,
       FailRemove, EndDelete, RestoreStep, OpenSession, Register, FailOpen, AbortRestore, FailRestore,
       RejectRestore, ReleaseStep, Configure, Elapse, Check, RunRelease, FinishRelease, TimeoutRelease,
       CloseNative, EndTurn, FailOutput, EndInput, Stop, CloseAll, CloseLoaded, Exit
  <2>3. SUFFICES ASSUME stored PROVE NoSessionOutlivesHost'
    BY <2>2 DEF NoSessionOutlivesHost
  <2>4. \A i \in DOMAIN sessions : sessions[i] \in {"closed", "lost"}
    BY <1>3, <2>3 DEF NoSessionOutlivesHost
  <2>5. sessions' = sessions
    <3>1. ASSUME NEW c \in Callers, CallerStep(c) PROVE sessions' = sessions
      BY <2>1, <3>1 DEF CallerStep, Receive, Enter, Resolve, Detach, StartTurn, Return, Locate, Remove,
                        FailRemove, EndDelete, Operating
    <3>2. ~RestoreStep
      BY <2>1 DEF RestoreStep, OpenSession, Register, FailOpen, AbortRestore, FailRestore
    <3>3. CASE ReleaseStep
      BY <2>1, <3>3 DEF ReleaseStep, Configure, Elapse, Check, RunRelease, FinishRelease, TimeoutRelease
    <3>4. ASSUME NEW i \in Numbers PROVE ~CloseNative(i)
      BY <2>4 DEF CloseNative
    <3> QED BY <1>3, <3>1, <3>2, <3>3, <3>4
            DEF Next, vars, EndTurn, FailOutput, EndInput, Stop, CloseAll, Exit
  <2> QED BY <2>4, <2>5 DEF NoSessionOutlivesHost
<1> QED BY <1>1, <1>2, <1>3

-----------------------------------------------------------------------------
(* The theorems. *)

IInv == Typed /\ Inv

LEMMA InitInv == Init => IInv
<1> SUFFICES ASSUME Init PROVE IInv
  OBVIOUS
<1>1. Typed
  <2>1. sessions \in Seq(Native) /\ Len(sessions) = 0 /\ QueueTyped(queue)
    BY DEF Init, QueueTyped, Distinct
  <2>2. SessionsTyped
    BY <2>1, SessionAssumption DEF Init, SessionsTyped, SessionAssumption
  <2>3. HostTyped /\ CallersTyped
    BY DEF Init, HostTyped, CallersTyped, Labels
  <2> QED BY <2>1, <2>2, <2>3 DEF Typed
<1>2. DOMAIN queue = {} /\ Writers = {}
  BY DEF Init, Writers
<1>3. Inv
  BY <1>2 DEF Init, Inv, QueueIsKnown, ReleaseIsAlone, RestoreIsAwaited, EndingIsQuiet, Ending, LastWrites
<1> QED BY <1>1, <1>3 DEF IInv

LEMMA Invariant == Spec => []IInv
<1>1. IInv /\ [Next]_vars => IInv'
  BY TypeStep, QueueStep, AloneStep, AwaitedStep, EndingStep, LastWritesStep DEF IInv, Inv
<1> QED BY <1>1, InitInv, PTL DEF Spec

\* Every variable keeps its type.
THEOREM TypeCorrect == Spec => []TypeOK
<1>1. IInv => TypeOK
  BY TypedIsTypeOK DEF IInv
<1> QED BY <1>1, Invariant, PTL

\* A Thread never has two Sessions that may write.
THEOREM NeverTwoWriters == Spec => []OneWriter
<1>1. ASSUME IInv PROVE OneWriter
  <2>1. Writers \subseteq {Len(sessions)}
    BY <1>1 DEF IInv, Inv, LastWrites
  <2>2. IsFiniteSet({Len(sessions)}) /\ Cardinality({Len(sessions)}) = 1
    BY FS_Singleton
  <2>3. Cardinality(Writers) <= Cardinality({Len(sessions)})
    BY <2>1, <2>2, FS_Subset
  <2> QED BY <2>2, <2>3 DEF OneWriter
<1> QED BY <1>1, Invariant, PTL

\* An operation that was given a Session keeps it, open and loaded, until it is done.
THEOREM UsersKeepTheirSession == Spec => []UsersHoldOpenSession
<1>1. Init => LoadedIsOpen /\ UsersHold
  BY DEF Init, LoadedIsOpen, UsersHold
<1>2. IInv /\ LoadedIsOpen /\ UsersHold /\ [Next]_vars => (LoadedIsOpen /\ UsersHold)'
  BY LoadedStep, UsersStep DEF IInv
<1>3. UsersHold => UsersHoldOpenSession
  BY DEF UsersHold, UsersHoldOpenSession
<1> QED BY <1>1, <1>2, <1>3, Invariant, PTL DEF Spec

\* A Host that has shut down has closed every Session of a Thread that was not deleted.
THEOREM ShutdownClosesAll == Spec => []NoSessionOutlivesHost
<1>1. Init => NoSessionOutlivesHost
  BY DEF Init, NoSessionOutlivesHost
<1>2. IInv /\ NoSessionOutlivesHost /\ [Next]_vars => NoSessionOutlivesHost'
  BY ExitStep DEF IInv
<1> QED BY <1>1, <1>2, Invariant, PTL DEF Spec

\* A Session whose release failed is given to nobody.
THEOREM BlockedNeverGivenOut == Spec => BlockedStaysUnused
<1>1. ASSUME IInv, [Next]_vars, NEW c \in Callers, pc[c] # "using", pc'[c] = "using"
      PROVE  holds'[c] \notin blocked'
  <2> USE DEF session, release, callers, Goto
  <2>1. pc \in [Callers -> Labels] /\ holds \in [Callers -> DOMAIN sessions \cup {None}]
    BY <1>1 DEF IInv, Typed, CallersTyped
  <2>2. ASSUME NEW d \in Callers, CallerStep(d) PROVE d = c /\ Resolve(d) /\ Usable
    <3>1. CASE Receive(d) \/ Enter(d) \/ Detach(d) \/ StartTurn(d)
      BY <1>1, <2>1, <2>2, <3>1 DEF Receive, Enter, Detach, StartTurn
    <3>2. CASE Return(d) \/ Locate(d) \/ Remove(d) \/ FailRemove(d) \/ EndDelete(d)
      BY <1>1, <2>1, <2>2, <3>2 DEF Return, Locate, Remove, FailRemove, EndDelete, Finish
    <3>3. CASE Resolve(d)
      BY <1>1, <2>1, <2>2, <3>3 DEF Resolve, Finish
    <3> QED BY <2>2, <3>1, <3>2, <3>3 DEF CallerStep
  <2>3. CASE \E d \in Callers : CallerStep(d)
    <3>1. Resolve(c) /\ Usable
      BY <2>2, <2>3
    <3> QED BY <2>1, <3>1 DEF Resolve, Usable
  <2>4. CASE RestoreStep
    <3>1. Register
      BY <1>1, <2>1, <2>4 DEF RestoreStep, OpenSession, FailOpen, AbortRestore, FailRestore, RejectRestore
    <3> QED BY <1>1, <2>1, <3>1 DEF Register, IInv, Inv, RestoreIsAwaited
  <2>5. CASE pc' = pc
    BY <1>1, <2>5
  <2> QED
    BY <1>1, <2>3, <2>4, <2>5
    DEF Next, vars, ReleaseStep, Configure, Elapse, Check, RunRelease, FinishRelease, TimeoutRelease,
        CloseNative, EndTurn, FailOutput, EndInput, Stop, CloseAll, CloseLoaded, Exit
<1>2. IInv /\ [Next]_vars =>
        [\A c \in Callers : pc[c] # "using" /\ pc'[c] = "using" => holds'[c] \notin blocked']_vars
  BY <1>1
<1> QED BY <1>2, Invariant, PTL DEF Spec, BlockedStaysUnused
=============================================================================
