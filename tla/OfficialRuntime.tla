--------------------------- MODULE OfficialRuntime ---------------------------
(***************************************************************************)
(* The official Codex app-server process, owned by one OfficialRuntimeOwner *)
(* behind an OfficialWorkGate and an OfficialRuntimeScope, and used by the  *)
(* AppServerHosts of one deployment, each a client with a connection of its *)
(* own.                                                                     *)
(*                                                                         *)
(* A step runs from one await to the next.  start and stop are two          *)
(* coroutines that wait for the process and for the connections; between    *)
(* their steps the process may exit, a connection may break, Hosts come and *)
(* go, and Desktops send requests.                                          *)
(*                                                                         *)
(* A scope that has started once never starts its owner again, so no        *)
(* request outlives its generation: the restoration of Threads for a later  *)
(* generation (#remember, #restore) has no effect here and is left out.     *)
(***************************************************************************)
EXTENDS Naturals, Sequences, FiniteSets, SequencesExt

CONSTANTS
  Hosts,           \* AppServerHosts, each with one Desktop and one client
  MaxRequests,     \* bound: requests a Desktop sends
  MaxGenerations   \* bound: processes started

ASSUME OfficialAssumption == MaxRequests \in Nat /\ MaxGenerations \in Nat \ {0}

Requests == Hosts \X (1..MaxRequests)
Generations == 1..MaxGenerations

VARIABLES
  \* OfficialRuntimeOwner
  phase, generation,
  backend,     \* the generation whose process is owned, 0 when there is none
  startPc,     \* the start coroutine: which await it is in
  queue,       \* the clients start has still to connect, the present one first
  stopPc,      \* the stop coroutine
  alive,       \* generations whose process is alive
  clients,     \* the attached clients, in the order they were attached
  conn, initialized, pending,   \* of each client: runtime, initializationResult, pending
  \* OfficialWorkGate and OfficialRuntimeScope
  ready, leases, started, scopeClosed, failed,
  \* the Hosts, the process that runs them, and the requests of their Desktops
  owned,       \* TRUE when the one Host made the scope, FALSE when Hosts share it
  runner, host, configured, watching, req, answers

startVars == <<generation, backend, startPc, queue, alive>>
gateVars == <<ready, failed>>
hostVars == <<owned, runner, host, configured, watching>>
reqVars == <<pending, leases, req, answers>>
vars == <<phase, startVars, stopPc, clients, conn, initialized, gateVars, started, scopeClosed,
          hostVars, reqVars>>

HostOf(r) == r[1]
Attached == {clients[i] : i \in DOMAIN clients}
Starting == startPc # "none"

-----------------------------------------------------------------------------
(* What happens to requests when work is retired.                          *)

\* #retire answers the pending requests in `retired` itself and forgets them;
\* for those in `thrown`, #send throws and the Host answers.  A write still
\* under way on a connection in `shut` will throw in its turn.
Settle(retired, thrown, shut) ==
  /\ pending' = pending \ (retired \cup thrown)
  /\ leases' = leases \ (retired \cup thrown)
  /\ answers' = [r \in Requests |-> answers[r] + Cardinality({r} \cap retired)
                                               + Cardinality({r} \cap thrown)]
  /\ req' = [r \in Requests |->
       IF r \in thrown THEN "failed"
       ELSE IF req[r] = "writing" /\ HostOf(r) \in shut THEN "throwing"
       ELSE IF r \in retired /\ req[r] = "sent" THEN "done"
       ELSE req[r]]

\* gate.unavailable: the scope hears of it only when the gate was ready.
GateUnavailable ==
  /\ ready' = FALSE
  /\ failed' = (failed \/ (ready /\ started))

\* #unavailable: every client is retired and its connection closed.
CloseAll(thrown) ==
  /\ conn' = [h \in Hosts |-> IF h \in Attached /\ conn[h] # "none" THEN "closed" ELSE conn[h]]
  /\ Settle(pending \ thrown, thrown, Attached)
  /\ GateUnavailable

Unavailable(thrown) == phase' = "unavailable" /\ CloseAll(thrown)

-----------------------------------------------------------------------------
(* stop.                                                                   *)

\* The part of stop that runs once no start is under way.
StopBody ==
  /\ phase' = "stopping" /\ stopPc' = "kill"
  /\ GateUnavailable
  /\ conn' = [h \in Hosts |-> IF h \in Attached /\ conn[h] = "open" THEN "retired" ELSE conn[h]]
  /\ Settle(pending, {}, {})

\* A call of stop, which joins one that is already under way.
CallStop ==
  \/ /\ stopPc # "none"
     /\ UNCHANGED <<phase, stopPc, conn, gateVars, reqVars>>
  \/ /\ stopPc = "none" /\ Starting
     /\ stopPc' = "wait"
     /\ UNCHANGED <<phase, conn, gateVars, reqVars>>
  \/ /\ stopPc = "none" /\ ~Starting /\ backend = 0
     /\ phase' = "stopped"
     /\ UNCHANGED <<stopPc, conn, gateVars, reqVars>>
  \/ stopPc = "none" /\ ~Starting /\ backend # 0 /\ StopBody

\* The start that stop waited for has settled.
StopResumes ==
  /\ stopPc = "wait" /\ ~Starting
  /\ StopBody
  /\ UNCHANGED <<startVars, clients, initialized, started, scopeClosed, hostVars>>

\* Mutant: a process that did not exit is no longer owned.
StopDisowns ==
  /\ stopPc = "kill"
  /\ phase' = "stopped" /\ backend' = 0 /\ stopPc' = "none"
  /\ conn' = [h \in Hosts |-> IF h \in Attached THEN "none" ELSE conn[h]]
  /\ initialized' = initialized \ Attached
  /\ Settle({}, {}, Attached)
  /\ UNCHANGED <<generation, startPc, queue, alive, clients, gateVars, started, scopeClosed, hostVars>>

\* backend.stop and backend.closed have proved the exit.
StopDone ==
  /\ stopPc = "kill" /\ backend \notin alive
  /\ phase' = "stopped" /\ backend' = 0 /\ stopPc' = "none"
  /\ conn' = [h \in Hosts |-> IF h \in Attached THEN "none" ELSE conn[h]]
  /\ initialized' = initialized \ Attached
  /\ Settle({}, {}, Attached)
  /\ UNCHANGED <<generation, startPc, queue, alive, clients, gateVars, started, scopeClosed, hostVars>>

\* Mutant: the failed stop is still the one that later calls join.
StopKept ==
  /\ stopPc = "kill" /\ backend \in alive
  /\ Unavailable({})
  /\ UNCHANGED <<startVars, stopPc, clients, initialized, started, scopeClosed, hostVars>>

\* SIGTERM and SIGKILL have each been waited for in vain: the process stays owned.
StopUnconfirmed ==
  /\ stopPc = "kill" /\ backend \in alive
  /\ stopPc' = "none"
  /\ Unavailable({})
  /\ UNCHANGED <<startVars, clients, initialized, started, scopeClosed, hostVars>>

-----------------------------------------------------------------------------
(* start.                                                                  *)

Startable ==
  ~Starting /\ backend = 0 /\ phase = "stopped" /\ ~scopeClosed /\ generation < MaxGenerations

\* The process is spawned before the first await.
BeginStart ==
  /\ Startable
  /\ phase' = "starting" /\ startPc' = "spawn"
  /\ generation' = generation + 1 /\ backend' = generation + 1
  /\ alive' = alive \cup {generation + 1}
  /\ UNCHANGED queue

\* Mutant: a scope closed during the start still opens the gate.
FinishClosed == started' = TRUE /\ ready' = TRUE /\ UNCHANGED failed

\* What follows a successful start at once: the scope opens the gate.
ScopeStarted ==
  IF scopeClosed THEN UNCHANGED <<started, gateVars>>
  ELSE started' = TRUE /\ ready' = (leases = {}) /\ UNCHANGED failed

\* start goes on with the clients in q, or is done.
AttachRest(q) ==
  /\ queue' = q
  /\ IF q # <<>> THEN startPc' = "attach" /\ UNCHANGED <<phase, started, gateVars>>
     ELSE startPc' = "none" /\ phase' = "running" /\ ScopeStarted
  /\ UNCHANGED <<generation, backend, alive>>

BackendReady ==
  /\ startPc = "spawn" /\ phase = "starting" /\ backend \in alive
  /\ AttachRest(clients)
  /\ UNCHANGED <<stopPc, clients, conn, initialized, scopeClosed, hostVars, reqVars>>

\* #connection of the present client; the answer its Desktop once gave to
\* configure decides whether the native protocol is initialized as well.
AttachClient ==
  /\ startPc = "attach" /\ phase = "starting" /\ backend \in alive
  /\ Head(queue) \in Attached
  /\ conn' = [conn EXCEPT ![Head(queue)] = "open"]
  /\ IF Head(queue) \in configured
     THEN startPc' = "initialize" /\ UNCHANGED <<phase, generation, backend, alive, queue, started, gateVars>>
     ELSE AttachRest(Tail(queue))
  /\ UNCHANGED <<stopPc, clients, initialized, scopeClosed, hostVars, reqVars>>

InitializeClient ==
  /\ startPc = "initialize" /\ phase = "starting" /\ conn[Head(queue)] = "open"
  /\ initialized' = initialized \cup {Head(queue)}
  /\ AttachRest(Tail(queue))
  /\ UNCHANGED <<stopPc, clients, conn, scopeClosed, hostVars, reqVars>>

\* The process is not ready in time, a client is gone, a connection or an
\* initialize fails, or the phase has changed meanwhile.
StartFails ==
  /\ Starting
  /\ startPc' = "none" /\ queue' = <<>>
  /\ Unavailable({})
  /\ UNCHANGED <<generation, backend, alive, stopPc, clients, initialized, started, scopeClosed, hostVars>>

-----------------------------------------------------------------------------
(* The process and its connections (the environment).                      *)

\* The exit of the process, and the handler of backend.closed: unless stop is
\* waiting for it, everything is unavailable and stop is called.
ProcessExits ==
  /\ backend \in alive
  /\ alive' = alive \ {backend}
  /\ IF phase = "stopping" THEN UNCHANGED <<phase, stopPc, conn, gateVars, reqVars>>
     ELSE /\ CloseAll({})
          /\ stopPc' = IF stopPc # "none" THEN stopPc ELSE IF Starting THEN "wait" ELSE "kill"
          /\ phase' = IF stopPc' = "kill" THEN "stopping" ELSE "unavailable"
  /\ UNCHANGED <<generation, backend, startPc, queue, clients, initialized, started, scopeClosed, hostVars>>

\* A connection breaks on its own: one is enough to make all unavailable.  A
\* write of this client throws before the loss is handled.
ConnectionLost(h) ==
  /\ h \in Attached /\ conn[h] = "open" /\ phase # "stopping"
  /\ Unavailable({r \in pending : HostOf(r) = h /\ req[r] = "writing"})
  /\ UNCHANGED <<startVars, stopPc, clients, initialized, started, scopeClosed, hostVars>>

-----------------------------------------------------------------------------
(* Hosts.  A shared scope is started and closed by the runner; the scope a  *)
(* Host made for itself, by that Host.                                      *)

Boot ==
  /\ runner = "new"
  /\ BeginStart
  /\ runner' = "starting"
  /\ UNCHANGED <<stopPc, clients, conn, initialized, gateVars, started, scopeClosed, owned, host,
                 configured, watching, reqVars>>

\* The listener is opened whether the start succeeded or not.
Listen ==
  /\ runner = "starting" /\ ~Starting
  /\ runner' = "up"
  /\ UNCHANGED <<phase, startVars, stopPc, clients, conn, initialized, gateVars, started, scopeClosed,
                 owned, host, configured, watching, reqVars>>

\* A Host attaches its client and calls scope.start.
HostJoins(h) ==
  /\ runner = "up" /\ host[h] = "absent"
  /\ owned => \A g \in Hosts : host[g] = "absent"
  /\ clients' = Append(clients, h)
  /\ \/ ~started /\ BeginStart /\ host' = [host EXCEPT ![h] = "starting"]
     \/ /\ started \/ ~Startable
        /\ host' = [host EXCEPT ![h] = IF started \/ ~Starting THEN "serving" ELSE "starting"]
        /\ UNCHANGED <<phase, startVars>>
  /\ watching' = watching \cup {h}
  /\ UNCHANGED <<stopPc, conn, initialized, gateVars, started, scopeClosed, owned, runner, configured, reqVars>>

\* scope.start has settled; a Host that made the scope stops it after a failure.
HostServes(h) ==
  /\ host[h] = "starting" /\ ~Starting
  /\ host' = [host EXCEPT ![h] = "serving"]
  /\ IF owned /\ ~started THEN CallStop
     ELSE UNCHANGED <<phase, stopPc, conn, gateVars, reqVars>>
  /\ UNCHANGED <<startVars, clients, initialized, started, scopeClosed, owned, runner, configured, watching>>

\* failure() resolves once: the Host stops the owner.  (It asks first whether the
\* gate is ready again, which it never is.)
HostSeesFailure(h) ==
  /\ h \in watching /\ failed /\ host[h] \notin {"absent", "starting"}
  /\ watching' = watching \ {h}
  /\ CallStop
  /\ UNCHANGED <<startVars, clients, initialized, started, scopeClosed, owned, runner, host, configured>>

\* Mutant: closing a session closes its connection without retiring its work.
DetachOnly(h) ==
  /\ clients' = RemoveFirst(clients, h)
  /\ conn' = [conn EXCEPT ![h] = IF @ = "none" THEN "none" ELSE "closed"]
  /\ UNCHANGED reqVars

\* OfficialClientSession.close
Detach(h) ==
  /\ clients' = RemoveFirst(clients, h)
  /\ conn' = [conn EXCEPT ![h] = IF @ = "none" THEN "none" ELSE "closed"]
  /\ Settle({r \in pending : HostOf(r) = h}, {}, {h})

HostLeaves(h) ==
  /\ ~owned /\ host[h] \notin {"absent", "gone"}
  /\ host' = [host EXCEPT ![h] = "gone"]
  /\ Detach(h)
  /\ UNCHANGED <<phase, startVars, stopPc, initialized, gateVars, started, scopeClosed, owned, runner,
                 configured, watching>>

CloseScope ==
  /\ \/ owned /\ runner = "up" /\ \E h \in Hosts : host[h] # "absent"
     \/ ~owned /\ runner = "up" /\ \A h \in Hosts : host[h] \in {"absent", "gone"}
  /\ runner' = "closing" /\ scopeClosed' = TRUE
  /\ CallStop
  /\ UNCHANGED <<startVars, clients, initialized, started, owned, host, configured, watching>>

\* close settles with stop; only then does a Host with a scope of its own detach.
ScopeCloses ==
  /\ runner = "closing" /\ stopPc = "none" /\ ~Starting
  /\ runner' = IF backend = 0 THEN "closed" ELSE "closeFailed"
  /\ IF owned /\ backend = 0
     THEN \E h \in Attached : Detach(h) /\ host' = [host EXCEPT ![h] = "gone"]
     ELSE UNCHANGED <<clients, conn, host, reqVars>>
  /\ UNCHANGED <<phase, startVars, stopPc, initialized, gateVars, started, scopeClosed, owned,
                 configured, watching>>

-----------------------------------------------------------------------------
(* The Desktop: initialize, then requests.                                 *)

\* initializeProtocol.  While the gate is shut the Host answers for the native
\* server and keeps the parameters.
DesktopInitializes(h) ==
  /\ host[h] = "serving" /\ h \notin configured
  /\ configured' = configured \cup {h}
  /\ host' = [host EXCEPT ![h] = IF ready THEN "initializing" ELSE "serving"]
  /\ UNCHANGED <<phase, startVars, stopPc, clients, conn, initialized, gateVars, started, scopeClosed,
                 owned, runner, watching, reqVars>>

Initialized(h) ==
  /\ host[h] = "initializing" /\ phase = "running" /\ conn[h] \in {"none", "open"}
  /\ conn' = [conn EXCEPT ![h] = "open"]
  /\ initialized' = initialized \cup {h}
  /\ host' = [host EXCEPT ![h] = "serving"]
  /\ UNCHANGED <<phase, startVars, stopPc, clients, gateVars, started, scopeClosed, owned, runner,
                 configured, watching, reqVars>>

\* The Desktop is told only when the gate is still ready.
InitializeFails(h) ==
  /\ host[h] = "initializing"
  /\ host' = [host EXCEPT ![h] = IF ready THEN "refused" ELSE "serving"]
  /\ conn' \in {conn} \cup IF phase = "running" /\ conn[h] = "none" THEN {[conn EXCEPT ![h] = "open"]} ELSE {}
  /\ UNCHANGED <<phase, startVars, stopPc, clients, initialized, gateVars, started, scopeClosed, owned,
                 runner, configured, watching, reqVars>>

Fail(r) ==
  /\ req' = [req EXCEPT ![r] = "failed"]
  /\ answers' = [answers EXCEPT ![r] = @ + 1]
  /\ leases' = leases \ {r} /\ pending' = pending \ {r}

\* The pending entry is made before the write, which may have to wait for a drain.
Write(r) ==
  /\ pending' = pending \cup {r}
  /\ \E s \in {"sent", "writing"} : req' = [req EXCEPT ![r] = s]

\* Once its initialize was answered a Desktop has a connection, and #connection
\* returns it at once.
Send(r) ==
  /\ req[r] = "new" /\ host[HostOf(r)] = "serving" /\ HostOf(r) \in configured
  /\ \/ /\ ~ready \/ conn[HostOf(r)] \in {"retired", "closed"}
        /\ Fail(r)
     \/ /\ ready /\ conn[HostOf(r)] = "open"
        /\ leases' = leases \cup {r}
        /\ Write(r) /\ UNCHANGED answers
  /\ UNCHANGED <<phase, startVars, stopPc, clients, conn, initialized, gateVars, started, scopeClosed, hostVars>>

\* The write was cut short by the closing of its connection.
SendThrows(r) ==
  /\ req[r] = "throwing"
  /\ Fail(r)
  /\ UNCHANGED <<phase, startVars, stopPc, clients, conn, initialized, gateVars, started, scopeClosed, hostVars>>

Drained(r) ==
  /\ req[r] = "writing"
  /\ req' = [req EXCEPT ![r] = IF r \in pending THEN "sent" ELSE "done"]
  /\ UNCHANGED <<phase, startVars, stopPc, clients, conn, initialized, gateVars, started, scopeClosed, hostVars,
                 pending, leases, answers>>

\* Mutant: an answered request stays pending.
RespondKeeps(r) ==
  /\ r \in pending /\ req[r] = "sent" /\ conn[HostOf(r)] = "open"
  /\ answers' = [answers EXCEPT ![r] = @ + 1]
  /\ req' = [req EXCEPT ![r] = "done"]
  /\ UNCHANGED <<pending, leases>>
  /\ UNCHANGED <<phase, startVars, stopPc, clients, conn, initialized, gateVars, started, scopeClosed, hostVars>>

\* #output: the native server answers, perhaps before the write has drained.
Respond(r) ==
  /\ r \in pending /\ req[r] \in {"sent", "writing"} /\ conn[HostOf(r)] = "open"
  /\ pending' = pending \ {r} /\ leases' = leases \ {r}
  /\ answers' = [answers EXCEPT ![r] = @ + 1]
  /\ req' = [req EXCEPT ![r] = IF @ = "sent" THEN "done" ELSE @]
  /\ UNCHANGED <<phase, startVars, stopPc, clients, conn, initialized, gateVars, started, scopeClosed, hostVars>>

-----------------------------------------------------------------------------
Init ==
  /\ phase = "stopped" /\ generation = 0 /\ backend = 0 /\ startPc = "none" /\ queue = <<>>
  /\ stopPc = "none" /\ alive = {} /\ clients = <<>>
  /\ conn = [h \in Hosts |-> "none"] /\ initialized = {} /\ pending = {}
  /\ ready = FALSE /\ leases = {} /\ started = FALSE /\ scopeClosed = FALSE /\ failed = FALSE
  /\ owned \in BOOLEAN /\ runner = (IF owned THEN "up" ELSE "new")
  /\ host = [h \in Hosts |-> "absent"] /\ configured = {} /\ watching = {}
  /\ req = [r \in Requests |-> "new"] /\ answers = [r \in Requests |-> 0]

StartStep == BackendReady \/ AttachClient \/ InitializeClient \/ StartFails
StopStep == StopResumes \/ StopDone \/ StopUnconfirmed

Next ==
  \/ StartStep \/ StopStep \/ ProcessExits \/ Boot \/ Listen \/ CloseScope \/ ScopeCloses
  \/ \E h \in Hosts : ConnectionLost(h) \/ HostJoins(h) \/ HostServes(h) \/ HostSeesFailure(h)
                      \/ HostLeaves(h) \/ DesktopInitializes(h) \/ Initialized(h) \/ InitializeFails(h)
  \/ \E r \in Requests : Send(r) \/ SendThrows(r) \/ Drained(r) \/ Respond(r)

\* The listener has ten seconds to get ready, and SIGTERM and SIGKILL are each
\* waited for with a timeout.  No timeout bounds the opening of a connection, nor
\* the drain of what initialize writes: start may stay in these for ever.
Spawned == BackendReady \/ (startPc = "spawn" /\ StartFails)
Unbounded == startPc \in {"attach", "initialize"}
Fairness == WF_vars(Spawned) /\ WF_vars(StopStep) /\ WF_vars(ScopeCloses)

Spec == Init /\ [][Next]_vars /\ Fairness

-----------------------------------------------------------------------------
TypeOK ==
  /\ phase \in {"stopped", "starting", "running", "stopping", "unavailable"}
  /\ generation \in 0..MaxGenerations /\ backend \in {0, generation}
  /\ startPc \in {"none", "spawn", "attach", "initialize"}
  /\ queue \in Seq(Hosts) /\ (startPc \in {"attach", "initialize"} => queue # <<>>)
  /\ stopPc \in {"none", "wait", "kill"} /\ alive \subseteq Generations
  /\ clients \in Seq(Hosts) /\ \A i, j \in DOMAIN clients : clients[i] = clients[j] => i = j
  /\ conn \in [Hosts -> {"none", "open", "retired", "closed"}]
  /\ initialized \subseteq Hosts /\ pending \subseteq Requests /\ leases \subseteq Requests
  /\ {ready, started, scopeClosed, failed, owned} \subseteq BOOLEAN
  /\ runner \in {"new", "starting", "up", "closing", "closed", "closeFailed"}
  /\ host \in [Hosts -> {"absent", "starting", "serving", "initializing", "refused", "gone"}]
  /\ configured \subseteq Hosts /\ watching \subseteq Hosts
  /\ req \in [Requests -> {"new", "writing", "throwing", "sent", "done", "failed"}]
  /\ answers \in [Requests -> Nat]

\* A process is never started beside one that may still be alive, however stops
\* fail and exits come late: only a proved exit gives ownership up. A close that
\* succeeded leaves no process behind.
OneProcess == alive \subseteq {backend} /\ (runner = "closed" => alive = {})

\* The gate is open only while the running process is the one owned and all its
\* attached connections are usable; and no request that waits, or keeps a lease on
\* the gate, is on a connection that can no longer bring its answer.
LeasesHaveWork ==
  /\ ready => /\ phase = "running" /\ backend \in alive
              /\ \A h \in Attached : conn[h] \in {"none", "open"}
  /\ \A r \in leases \cup pending : conn[HostOf(r)] = "open"

\* A Desktop gets one answer to a request, but for one case: retirement, or the
\* native server, has answered it while its write waited for a drain, and the
\* write then throws, for which the Host answers again.
SecondAnswerNeedsThrownWrite ==
  \A r \in Requests :
    /\ answers[r] <= 2
    /\ answers[r] = 2 => req[r] = "failed"
    /\ req[r] \in {"done", "failed"} => answers[r] >= 1

\* A closed scope starts no process and opens the gate no more, even when the
\* close overtakes a start.
ClosedScopeStaysShut == [][scopeClosed => alive' \subseteq alive /\ (ready' => ready)]_vars

\* Closing the scope comes to an end, whatever start was doing and however the
\* process resists, unless the start it waits for stays for ever in an await
\* that no timeout bounds.
CloseSettles == []<>~Unbounded => (scopeClosed ~> runner \in {"closed", "closeFailed"})

\* Violated: a Desktop that was told by the Host that it is initialized is
\* initialized at the native server once the gate is ready.
NegotiationRetained ==
  \A h \in Attached \cap configured : ready /\ host[h] = "serving" => h \in initialized
=============================================================================
