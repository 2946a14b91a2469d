------------------------ MODULE OfficialRuntime_proofs ------------------------
(***************************************************************************)
(* What the owner of the official process keeps, for any Hosts, requests    *)
(* and generations: one process, leases exactly for the requests that can   *)
(* still be answered, at most one answer but in one case, and nothing that  *)
(* starts or opens once the scope is closed.                                *)
(***************************************************************************)
EXTENDS OfficialRuntime, FiniteSetTheorems, SequenceTheorems, TLAPS

\* Who owns what in each phase.
Owning ==
  /\ alive \subseteq {backend}
  /\ phase = "stopped" <=> backend = 0
  /\ phase \in {"starting", "running"} => backend \in alive
  /\ Starting => phase \in {"starting", "unavailable"}
  /\ phase = "starting" => Starting

\* A stop under way is about a process, and it is being ended in phase "stopping".
Killing ==
  /\ phase = "stopping" <=> stopPc = "kill"
  /\ stopPc # "none" => backend # 0

\* Unless something was lost, the connections of the attached clients are usable;
\* without a process there are none.
Connected ==
  /\ \A h \in Attached :
       /\ phase \in {"starting", "running"} => conn[h] \in {"none", "open"}
       /\ phase = "stopped" => conn[h] = "none"
  /\ \A h \in Hosts : host[h] = "absent" => h \notin Attached /\ conn[h] = "none"

\* Work is admitted only while the process runs, and waits only on open connections.
Admitted ==
  /\ ready => phase = "running"
  /\ phase = "stopping" => pending = {}
  /\ leases = pending
  /\ \A r \in pending : conn[HostOf(r)] = "open"

\* How often each request was answered.
Answering ==
  \A r \in Requests :
    /\ req[r] = "new" => answers[r] = 0 /\ r \notin pending
    /\ req[r] = "writing" => answers[r] = IF r \in pending THEN 0 ELSE 1
    /\ req[r] = "throwing" => answers[r] = 1 /\ r \notin pending
    /\ req[r] = "sent" => answers[r] = 0 /\ r \in pending
    /\ req[r] = "done" => answers[r] = 1 /\ r \notin pending
    /\ req[r] = "failed" => answers[r] \in {1, 2} /\ r \notin pending

\* The runner closes the scope before it is closed, and is closed without a process.
Closing ==
  /\ runner \in {"closing", "closed", "closeFailed"} => scopeClosed
  /\ runner = "closed" => backend = 0

Inv == Owning /\ Killing /\ Connected /\ Admitted /\ Answering /\ Closing
IInv == TypeOK /\ Inv

-----------------------------------------------------------------------------
(* The list of clients. *)

Distinct(q) == \A i, j \in DOMAIN q : q[i] = q[j] => i = j

\* The list without its element at i.
LEMMA SuffixAfter ==
  ASSUME NEW S, NEW s \in Seq(S), NEW i \in 1..Len(s)
  PROVE  /\ SubSeq(s, i + 1, Len(s)) \in Seq(S)
         /\ Len(SubSeq(s, i + 1, Len(s))) = Len(s) - i
         /\ \A j \in 1..(Len(s) - i) : SubSeq(s, i + 1, Len(s))[j] = s[i + j]
<1>1. Len(s) \in Nat /\ i \in Int /\ i + 1 \in Int /\ \A j \in (i + 1)..Len(s) : s[j] \in S
  OBVIOUS
<1>2. DEFINE q == [j \in 1..(Len(s) - i) |-> s[i + j]]
<1>3. SubSeq(s, i + 1, Len(s)) = [j \in 1..(Len(s) - (i + 1) + 1) |-> s[(i + 1) + j - 1]]
  BY <1>1, SMT
<1>4. q = SubSeq(s, i + 1, Len(s))
  BY <1>1, <1>3
<1>5. q \in Seq(S) /\ Len(q) = Len(s) - i
  BY <1>1
<1> QED BY <1>1, <1>4, <1>5

\* A client that leaves the list leaves the others in it.
LEMMA RemoveClient ==
  ASSUME clients \in Seq(Hosts), Distinct(clients), NEW h \in Hosts, clients' = RemoveFirst(clients, h)
  PROVE  clients' \in Seq(Hosts) /\ Distinct(clients') /\ Attached' = Attached \ {h}
<1>0. DOMAIN clients = 1..Len(clients) /\ Len(clients) \in Nat
  OBVIOUS
<1>1. CASE h \notin Attached
  <2>1. clients' = clients
    BY <1>0, <1>1 DEF RemoveFirst, Attached
  <2> QED BY <1>1, <2>1 DEF Attached
<1>2. CASE h \in Attached
  <2>1. PICK i \in 1..Len(clients) : clients[i] = h
    BY <1>0, <1>2 DEF Attached
  <2>2. {j \in 1..Len(clients) : clients[j] = h} = {i}
    BY <1>0, <2>1 DEF Distinct
  <2>3. Min({i}) = i
    BY <2>1 DEF Min
  <2>4. SelectInSeq(clients, LAMBDA v : v = h) = i
    BY <2>2, <2>3 DEF SelectInSeq
  <2>5. clients' = SubSeq(clients, 1, i - 1) \o SubSeq(clients, i + 1, Len(clients))
    BY <2>1, <2>4 DEF RemoveFirst, RemoveAt
  <2>6. /\ clients' \in Seq(Hosts) /\ Len(clients') = Len(clients) - 1
        /\ \A j \in 1..(Len(clients) - 1) : clients'[j] = clients[IF j < i THEN j ELSE j + 1]
    <3> DEFINE before == SubSeq(clients, 1, i - 1)
               after == SubSeq(clients, i + 1, Len(clients))
    <3>1. /\ before \in Seq(Hosts) /\ Len(before) = i - 1
          /\ \A j \in 1..(i - 1) : before[j] = clients[j]
      <4>1. i - 1 \in Int /\ 1 \in Int /\ \A j \in 1..(i - 1) : clients[j] \in Hosts
        BY <1>0, <2>1
      <4> QED BY <2>1, <4>1, SubSeqProperties
    <3>2. /\ after \in Seq(Hosts) /\ Len(after) = Len(clients) - i
          /\ \A j \in 1..(Len(clients) - i) : after[j] = clients[i + j]
      BY <2>1, SuffixAfter
    <3>3. clients' = before \o after
      BY <2>5
    <3> HIDE DEF before, after
    <3>4. /\ clients' \in Seq(Hosts) /\ Len(clients') = Len(before) + Len(after)
          /\ \A j \in 1..Len(before) + Len(after) :
               clients'[j] = IF j <= Len(before) THEN before[j] ELSE after[j - Len(before)]
      <4>1. /\ before \o after \in Seq(Hosts) /\ Len(before \o after) = Len(before) + Len(after)
            /\ \A j \in 1..Len(before) + Len(after) :
                 (before \o after)[j] = IF j <= Len(before) THEN before[j] ELSE after[j - Len(before)]
        BY <3>1, <3>2, ConcatProperties
      <4> QED BY <3>3, <4>1, Zenon
    <3>5. Len(before) + Len(after) = Len(clients) - 1
      BY <1>0, <2>1, <3>1, <3>2
    <3>6. ASSUME NEW j \in 1..(Len(clients) - 1) PROVE clients'[j] = clients[IF j < i THEN j ELSE j + 1]
      <4>1. clients'[j] = IF j <= i - 1 THEN before[j] ELSE after[j - (i - 1)]
        BY <3>1, <3>4, <3>5
      <4>2. CASE j < i
        BY <2>1, <3>1, <4>1, <4>2
      <4>3. CASE ~(j < i)
        <5>1. clients'[j] = after[j - (i - 1)] /\ j - (i - 1) \in 1..(Len(clients) - i)
              /\ i + (j - (i - 1)) = j + 1
          BY <1>0, <2>1, <4>1, <4>3
        <5> QED BY <3>2, <4>3, <5>1
      <4> QED BY <4>2, <4>3
    <3> QED BY <3>4, <3>5, <3>6
  <2>7. DOMAIN clients' = 1..(Len(clients) - 1)
    BY <2>6
  <2>8. Distinct(clients')
    BY <1>0, <2>1, <2>6, <2>7 DEF Distinct
  <2>9. Attached' = Attached \ {h}
    <3>1. ASSUME NEW g \in Attached' PROVE g \in Attached \ {h}
      BY <1>0, <2>1, <2>6, <2>7 DEF Attached, Distinct
    <3>2. ASSUME NEW g \in Attached \ {h} PROVE g \in Attached'
      <4>1. PICK j \in 1..Len(clients) : clients[j] = g
        BY <1>0 DEF Attached
      <4>2. j # i
        BY <2>1, <3>2, <4>1
      <4>3. clients'[IF j < i THEN j ELSE j - 1] = g /\ (IF j < i THEN j ELSE j - 1) \in DOMAIN clients'
        BY <1>0, <2>1, <2>6, <2>7, <4>1, <4>2
      <4> QED BY <4>3 DEF Attached
    <3> QED BY <3>1, <3>2
  <2> QED BY <2>6, <2>8, <2>9
<1> QED BY <1>1, <1>2

\* A client that joins.
LEMMA AppendClient ==
  ASSUME clients \in Seq(Hosts), Distinct(clients), NEW h \in Hosts, h \notin Attached,
         clients' = Append(clients, h)
  PROVE  clients' \in Seq(Hosts) /\ Distinct(clients') /\ Attached' = Attached \cup {h}
<1>1. /\ DOMAIN clients = 1..Len(clients) /\ Len(clients) \in Nat
      /\ clients' \in Seq(Hosts) /\ Len(clients') = Len(clients) + 1
      /\ \A i \in 1..Len(clients) : clients'[i] = clients[i]
      /\ clients'[Len(clients) + 1] = h
  BY AppendProperties
<1>2. DOMAIN clients' = 1..(Len(clients) + 1)
  BY <1>1
<1>3. Distinct(clients')
  BY <1>1, <1>2 DEF Distinct, Attached
<1>4. Attached' = Attached \cup {h}
  BY <1>1, <1>2 DEF Attached
<1> QED BY <1>1, <1>3, <1>4

-----------------------------------------------------------------------------
(* Requests that are settled together. *)

RequestStates == {"new", "writing", "throwing", "sent", "done", "failed"}

RequestsTyped ==
  /\ pending \subseteq Requests /\ leases \subseteq Requests
  /\ req \in [Requests -> RequestStates] /\ answers \in [Requests -> Nat]

\* What Settle does to one request.
LEMMA SettleOne ==
  ASSUME RequestsTyped, NEW retired \in SUBSET pending, NEW thrown \in SUBSET pending,
         retired \cap thrown = {}, NEW shut, Settle(retired, thrown, shut)
  PROVE  /\ pending' = pending \ (retired \cup thrown) /\ leases' = leases \ (retired \cup thrown)
         /\ req' \in [Requests -> RequestStates]
         /\ answers' = [r \in Requests |-> IF r \in retired \cup thrown THEN answers[r] + 1 ELSE answers[r]]
<1>1. ASSUME NEW r \in Requests, NEW S
      PROVE  Cardinality({r} \cap S) = IF r \in S THEN 1 ELSE 0
  <2>1. r \in S => {r} \cap S = {r}
    OBVIOUS
  <2>2. r \notin S => {r} \cap S = {}
    OBVIOUS
  <2> QED BY <2>1, <2>2, FS_Singleton, FS_EmptySet
<1>2. answers' = [r \in Requests |-> IF r \in retired \cup thrown THEN answers[r] + 1 ELSE answers[r]]
  <2>1. answers' = [r \in Requests |-> answers[r] + (IF r \in retired THEN 1 ELSE 0)
                                                  + (IF r \in thrown THEN 1 ELSE 0)]
    BY <1>1 DEF Settle
  <2> QED BY <2>1 DEF RequestsTyped
<1> QED BY <1>2 DEF Settle, RequestsTyped, RequestStates

\* Settling answers each pending request it takes once, and leaves a write that was
\* cut short with the answer it had.
LEMMA SettleAnswers ==
  ASSUME RequestsTyped, Answering,
         NEW retired \in SUBSET pending, NEW thrown \in SUBSET {r \in pending : req[r] = "writing"},
         retired \cap thrown = {}, NEW shut, Settle(retired, thrown, shut),
         \A r \in pending : HostOf(r) \in shut => r \in retired \cup thrown
  PROVE  RequestsTyped' /\ Answering'
<1>1. /\ pending' = pending \ (retired \cup thrown) /\ leases' = leases \ (retired \cup thrown)
      /\ req' \in [Requests -> RequestStates]
      /\ answers' = [r \in Requests |-> IF r \in retired \cup thrown THEN answers[r] + 1 ELSE answers[r]]
  BY SettleOne
<1>2. RequestsTyped'
  BY <1>1 DEF RequestsTyped
<1>3. req' = [r \in Requests |->
               IF r \in thrown THEN "failed"
               ELSE IF req[r] = "writing" /\ HostOf(r) \in shut THEN "throwing"
               ELSE IF r \in retired /\ req[r] = "sent" THEN "done"
               ELSE req[r]]
  BY DEF Settle
<1>4. ASSUME NEW r \in Requests
      PROVE  /\ req'[r] = "new" => answers'[r] = 0 /\ r \notin pending'
             /\ req'[r] = "writing" => answers'[r] = IF r \in pending' THEN 0 ELSE 1
             /\ req'[r] = "throwing" => answers'[r] = 1 /\ r \notin pending'
             /\ req'[r] = "sent" => answers'[r] = 0 /\ r \in pending'
             /\ req'[r] = "done" => answers'[r] = 1 /\ r \notin pending'
             /\ req'[r] = "failed" => answers'[r] \in {1, 2} /\ r \notin pending'
  BY <1>1, <1>3 DEF Answering, RequestsTyped, RequestStates
<1> QED BY <1>2, <1>4 DEF Answering

-----------------------------------------------------------------------------
(* What the parts of the actions do to the requests and the connections. *)

Connections == {"none", "open", "retired", "closed"}

\* A step that settles nothing.
LEMMA RequestsKept ==
  ASSUME IInv, UNCHANGED reqVars
  PROVE  RequestsTyped' /\ Answering' /\ pending' = pending /\ leases' = leases
BY DEF IInv, Inv, TypeOK, RequestsTyped, RequestStates, Answering, reqVars

\* #unavailable leaves no request pending and no connection of a client in use.
LEMMA CloseAllStep ==
  ASSUME IInv, NEW thrown \in SUBSET {r \in pending : req[r] = "writing"}, CloseAll(thrown)
  PROVE  /\ RequestsTyped' /\ Answering' /\ pending' = {} /\ leases' = {}
         /\ ready' = FALSE /\ failed' \in BOOLEAN
         /\ conn' \in [Hosts -> Connections]
         /\ \A h \in Hosts : conn[h] = "none" => conn'[h] = "none"
<1>1. RequestsTyped /\ Answering
  BY DEF IInv, Inv, TypeOK, RequestsTyped, RequestStates
<1>2. Settle(pending \ thrown, thrown, Attached)
  BY DEF CloseAll
<1>3. pending \ thrown \in SUBSET pending /\ thrown \in SUBSET pending /\ (pending \ thrown) \cap thrown = {}
  OBVIOUS
<1>4. RequestsTyped' /\ Answering'
  BY <1>1, <1>2, <1>3, SettleAnswers
<1>5. pending' = {} /\ leases' = {}
  BY <1>2 DEF Settle, IInv, Inv, Admitted
<1>6. ready' = FALSE /\ failed' \in BOOLEAN
  BY DEF CloseAll, GateUnavailable, IInv, TypeOK
<1> QED BY <1>4, <1>5, <1>6 DEF CloseAll, IInv, TypeOK, Connections

\* Retiring leaves no request pending; no connection is opened.
LEMMA StopBodyStep ==
  ASSUME IInv, StopBody
  PROVE  /\ RequestsTyped' /\ Answering' /\ pending' = {} /\ leases' = {}
         /\ ready' = FALSE /\ failed' \in BOOLEAN
         /\ conn' \in [Hosts -> Connections]
         /\ \A h \in Hosts : conn[h] = "none" => conn'[h] = "none"
         /\ phase' = "stopping" /\ stopPc' = "kill"
<1>1. RequestsTyped /\ Answering
  BY DEF IInv, Inv, TypeOK, RequestsTyped, RequestStates
<1>2. Settle(pending, {}, {})
  BY DEF StopBody
<1>3. RequestsTyped' /\ Answering'
  BY <1>1, <1>2, SettleAnswers
<1>4. pending' = {} /\ leases' = {}
  BY <1>2 DEF Settle, IInv, Inv, Admitted
<1>5. ready' = FALSE /\ failed' \in BOOLEAN
  BY DEF StopBody, GateUnavailable, IInv, TypeOK
<1> QED BY <1>3, <1>4, <1>5 DEF StopBody, IInv, TypeOK, Connections

\* A call of stop either changes nothing of the requests, or retires them all.
LEMMA CallStopStep ==
  ASSUME IInv, CallStop, UNCHANGED <<startVars, clients>>
  PROVE  /\ RequestsTyped' /\ Answering' /\ Admitted' /\ failed' \in BOOLEAN /\ ready' \in BOOLEAN
         /\ conn' \in [Hosts -> Connections]
         /\ \A h \in Hosts : conn[h] = "none" => conn'[h] = "none"
         /\ \/ phase' = phase /\ conn' = conn /\ (stopPc' = stopPc \/ (stopPc = "none" /\ Starting /\ stopPc' = "wait"))
            \/ stopPc = "none" /\ ~Starting /\ backend # 0 /\ phase' = "stopping" /\ stopPc' = "kill"
<1> USE DEF IInv, Inv
<1>1. CASE /\ UNCHANGED <<phase, conn, gateVars, reqVars>>
           /\ stopPc' = stopPc \/ (stopPc = "none" /\ Starting /\ stopPc' = "wait")
  <2>1. RequestsTyped' /\ Answering' /\ pending' = pending /\ leases' = leases
    BY <1>1, RequestsKept
  <2>2. UNCHANGED <<phase, conn, ready, failed>>
    BY <1>1 DEF gateVars
  <2>3. Admitted'
    BY <2>1, <2>2 DEF Admitted
  <2> QED BY <1>1, <2>1, <2>2, <2>3 DEF TypeOK, Connections
<1>2. CASE stopPc = "none" /\ ~Starting /\ backend # 0 /\ StopBody
  <2>1. /\ RequestsTyped' /\ Answering' /\ pending' = {} /\ leases' = {}
        /\ ready' = FALSE /\ failed' \in BOOLEAN
        /\ conn' \in [Hosts -> Connections]
        /\ \A h \in Hosts : conn[h] = "none" => conn'[h] = "none"
        /\ phase' = "stopping" /\ stopPc' = "kill"
    BY <1>2, StopBodyStep
  <2> QED BY <1>2, <2>1 DEF Admitted
<1>3. backend = 0 => phase = "stopped"
  BY DEF Owning
<1> HIDE DEF IInv, Inv
<1>4. \/ /\ phase' = phase /\ conn' = conn /\ gateVars' = gateVars /\ reqVars' = reqVars
         /\ stopPc' = stopPc \/ (stopPc = "none" /\ Starting /\ stopPc' = "wait")
      \/ stopPc = "none" /\ ~Starting /\ backend # 0 /\ StopBody
  BY <1>3 DEF CallStop
<1> QED BY <1>1, <1>2, <1>4

\* A client that leaves takes its requests with it.
LEMMA DetachStep ==
  ASSUME IInv, NEW h \in Hosts, Detach(h)
  PROVE  /\ clients' \in Seq(Hosts) /\ Distinct(clients') /\ Attached' = Attached \ {h}
         /\ RequestsTyped' /\ Answering' /\ leases' = pending'
         /\ pending' = {r \in pending : HostOf(r) # h}
         /\ conn' = [conn EXCEPT ![h] = IF @ = "none" THEN "none" ELSE "closed"]
<1>1. RequestsTyped /\ Answering /\ leases = pending
  BY DEF IInv, Inv, TypeOK, RequestsTyped, RequestStates, Admitted
<1>2. Settle({r \in pending : HostOf(r) = h}, {}, {h})
  BY DEF Detach
<1>3. RequestsTyped' /\ Answering'
  BY <1>1, <1>2, SettleAnswers
<1>4. clients' \in Seq(Hosts) /\ Distinct(clients') /\ Attached' = Attached \ {h}
  BY RemoveClient DEF Detach, IInv, TypeOK, Distinct
<1>5. leases' = pending' /\ pending' = {r \in pending : HostOf(r) # h}
  BY <1>1, <1>2 DEF Settle
<1> QED BY <1>3, <1>4, <1>5 DEF Detach

-----------------------------------------------------------------------------
(* start keeps the invariant. *)

\* The spawn, by the runner's boot or by the first Host.
LEMMA BeginStartStep ==
  ASSUME IInv, BeginStart
  PROVE  /\ phase = "stopped" /\ backend = 0 /\ ~Starting /\ ~scopeClosed /\ phase' = "starting"
         /\ startPc' = "spawn" /\ queue' = queue
         /\ generation' \in 1..MaxGenerations /\ backend' = generation' /\ alive' = {backend'}
<1>1. generation \in Nat /\ generation < MaxGenerations /\ MaxGenerations \in Nat
  BY OfficialAssumption DEF BeginStart, Startable, IInv, TypeOK
<1>2. generation + 1 \in 1..MaxGenerations
  BY <1>1
<1>3. alive = {}
  BY DEF BeginStart, Startable, IInv, Inv, Owning, TypeOK, Generations
<1> QED BY <1>2, <1>3 DEF BeginStart, Startable

\* The clients that are left to connect, or the end of start.
LEMMA AttachRestStep ==
  ASSUME IInv, NEW q \in Seq(Hosts), AttachRest(q), phase = "starting"
  PROVE  /\ queue' = q /\ generation' = generation /\ backend' = backend /\ alive' = alive
         /\ {ready', started', failed'} \subseteq BOOLEAN /\ failed' = failed
         /\ \/ startPc' = "attach" /\ q # <<>> /\ phase' = "starting" /\ ready' = ready
            \/ startPc' = "none" /\ phase' = "running"
BY DEF AttachRest, ScopeStarted, gateVars, IInv, TypeOK

LEMMA BackendReadyKeeps == ASSUME IInv, BackendReady PROVE IInv'
<1> USE DEF IInv, Inv
<1>1. /\ UNCHANGED <<stopPc, clients, conn, initialized, scopeClosed, owned, runner, host, configured, watching>>
      /\ Attached' = Attached
  BY DEF BackendReady, hostVars, Attached
<1>2. RequestsTyped' /\ Answering' /\ pending' = pending /\ leases' = leases
  BY RequestsKept DEF BackendReady
<1>3. /\ queue' = clients /\ generation' = generation /\ backend' = backend /\ alive' = alive
      /\ {ready', started', failed'} \subseteq BOOLEAN /\ failed' = failed
      /\ \/ startPc' = "attach" /\ clients # <<>> /\ phase' = "starting" /\ ready' = ready
         \/ startPc' = "none" /\ phase' = "running"
  BY AttachRestStep DEF BackendReady, TypeOK
<1>4. TypeOK'
  BY <1>1, <1>2, <1>3 DEF TypeOK, RequestsTyped, RequestStates
<1>5. Owning' /\ Killing' /\ Closing'
  BY <1>1, <1>3 DEF BackendReady, Owning, Killing, Closing, Starting
<1>6. Connected' /\ Admitted'
  BY <1>1, <1>2, <1>3 DEF BackendReady, Owning, Killing, Connected, Admitted
<1> QED BY <1>2, <1>4, <1>5, <1>6

LEMMA AttachClientKeeps == ASSUME IInv, AttachClient PROVE IInv'
<1> USE DEF IInv, Inv
<1>1. /\ UNCHANGED <<stopPc, clients, initialized, scopeClosed, owned, runner, host, configured, watching>>
      /\ Attached' = Attached
  BY DEF AttachClient, hostVars, Attached
<1>2. RequestsTyped' /\ Answering' /\ pending' = pending /\ leases' = leases
  BY RequestsKept DEF AttachClient
<1>3. queue # <<>> /\ queue \in Seq(Hosts) /\ Head(queue) \in Hosts /\ Tail(queue) \in Seq(Hosts)
  BY HeadTailProperties DEF AttachClient, TypeOK
<1>4. /\ queue' \in Seq(Hosts) /\ generation' = generation /\ backend' = backend /\ alive' = alive
      /\ {ready', started', failed'} \subseteq BOOLEAN /\ failed' = failed
      /\ \/ startPc' \in {"attach", "initialize"} /\ queue' # <<>> /\ phase' = "starting" /\ ready' = ready
         \/ startPc' = "none" /\ phase' = "running"
  <2>1. CASE Head(queue) \in configured
    BY <1>3, <2>1 DEF AttachClient, gateVars, TypeOK
  <2>2. CASE Head(queue) \notin configured
    BY <1>3, <2>2, AttachRestStep DEF AttachClient
  <2> QED BY <2>1, <2>2
<1>5. TypeOK'
  BY <1>1, <1>2, <1>3, <1>4 DEF AttachClient, TypeOK, RequestsTyped, RequestStates
<1>6. Owning' /\ Killing' /\ Closing'
  BY <1>1, <1>4 DEF AttachClient, Owning, Killing, Closing, Starting
<1>7. Connected' /\ Admitted'
  <2>1. /\ \A h \in Hosts : conn'[h] = IF h = Head(queue) THEN "open" ELSE conn[h]
        /\ Head(queue) \in Attached /\ phase' \in {"starting", "running"}
    BY <1>3, <1>4 DEF AttachClient, TypeOK
  <2>2. \A r \in pending : HostOf(r) \in Hosts
    BY DEF TypeOK, Requests, HostOf
  <2>3. Attached \subseteq Hosts
    BY DEF Attached, TypeOK
  <2>4. Connected'
    BY <1>1, <2>1, <2>3 DEF Connected, AttachClient
  <2> QED BY <1>1, <1>2, <1>4, <2>1, <2>2, <2>4 DEF Admitted, AttachClient
<1> QED BY <1>2, <1>5, <1>6, <1>7

LEMMA InitializeClientKeeps == ASSUME IInv, InitializeClient PROVE IInv'
<1> USE DEF IInv, Inv
<1>1. /\ UNCHANGED <<stopPc, clients, conn, scopeClosed, owned, runner, host, configured, watching>>
      /\ Attached' = Attached
  BY DEF InitializeClient, hostVars, Attached
<1>2. RequestsTyped' /\ Answering' /\ pending' = pending /\ leases' = leases
  BY RequestsKept DEF InitializeClient
<1>3. queue # <<>> /\ queue \in Seq(Hosts) /\ Head(queue) \in Hosts /\ Tail(queue) \in Seq(Hosts)
  BY HeadTailProperties DEF InitializeClient, TypeOK
<1>4. /\ queue' = Tail(queue) /\ generation' = generation /\ backend' = backend /\ alive' = alive
      /\ {ready', started', failed'} \subseteq BOOLEAN /\ failed' = failed
      /\ \/ startPc' = "attach" /\ Tail(queue) # <<>> /\ phase' = "starting" /\ ready' = ready
         \/ startPc' = "none" /\ phase' = "running"
  BY <1>3, AttachRestStep DEF InitializeClient
<1>5. TypeOK'
  BY <1>1, <1>2, <1>3, <1>4 DEF InitializeClient, TypeOK, RequestsTyped, RequestStates
<1>6. Owning' /\ Killing' /\ Closing'
  BY <1>1, <1>4 DEF InitializeClient, Owning, Killing, Closing, Starting
<1>7. Connected' /\ Admitted'
  BY <1>1, <1>2, <1>4 DEF InitializeClient, Connected, Admitted
<1> QED BY <1>2, <1>5, <1>6, <1>7

LEMMA StartFailsKeeps == ASSUME IInv, StartFails PROVE IInv'
<1> USE DEF IInv, Inv
<1>1. /\ UNCHANGED <<generation, backend, alive, stopPc, clients, initialized, started, scopeClosed,
                     owned, runner, host, configured, watching>>
      /\ phase' = "unavailable" /\ startPc' = "none" /\ queue' = <<>> /\ Attached' = Attached
  BY DEF StartFails, Unavailable, hostVars, Attached
<1>2. /\ RequestsTyped' /\ Answering' /\ pending' = {} /\ leases' = {}
      /\ ready' = FALSE /\ failed' \in BOOLEAN
      /\ conn' \in [Hosts -> Connections]
      /\ \A h \in Hosts : conn[h] = "none" => conn'[h] = "none"
  BY CloseAllStep DEF StartFails, Unavailable
<1>3. TypeOK'
  <2>1. queue' \in Seq(Hosts)
    BY <1>1
  <2> QED BY <1>1, <1>2, <2>1 DEF TypeOK, RequestsTyped, RequestStates, Connections
<1>4. Owning' /\ Killing' /\ Closing'
  BY <1>1 DEF StartFails, Owning, Killing, Closing, Starting
<1>5. Connected' /\ Admitted'
  BY <1>1, <1>2 DEF Connected, Admitted
<1> QED BY <1>2, <1>3, <1>4, <1>5

-----------------------------------------------------------------------------
(* stop, the exit of the process and the loss of a connection keep it. *)

LEMMA StopResumesKeeps == ASSUME IInv, StopResumes PROVE IInv'
<1> USE DEF IInv, Inv
<1>1. /\ UNCHANGED <<generation, backend, startPc, queue, alive, clients, initialized, started, scopeClosed,
                     owned, runner, host, configured, watching>>
      /\ Attached' = Attached
  BY DEF StopResumes, startVars, hostVars, Attached
<1>2. /\ RequestsTyped' /\ Answering' /\ pending' = {} /\ leases' = {}
      /\ ready' = FALSE /\ failed' \in BOOLEAN
      /\ conn' \in [Hosts -> Connections]
      /\ \A h \in Hosts : conn[h] = "none" => conn'[h] = "none"
      /\ phase' = "stopping" /\ stopPc' = "kill"
  BY StopBodyStep DEF StopResumes
<1>3. TypeOK'
  BY <1>1, <1>2 DEF TypeOK, RequestsTyped, RequestStates, Connections
<1>4. Owning' /\ Killing' /\ Closing'
  BY <1>1, <1>2 DEF StopResumes, Owning, Killing, Closing, Starting
<1>5. Connected' /\ Admitted'
  BY <1>1, <1>2 DEF Connected, Admitted
<1> QED BY <1>2, <1>3, <1>4, <1>5

LEMMA StopDoneKeeps == ASSUME IInv, StopDone PROVE IInv'
<1> USE DEF IInv, Inv
<1>1. /\ UNCHANGED <<generation, startPc, queue, alive, clients, ready, failed, started, scopeClosed,
                     owned, runner, host, configured, watching>>
      /\ Attached' = Attached /\ pending = {}
      /\ conn' = [h \in Hosts |-> IF h \in Attached THEN "none" ELSE conn[h]]
      /\ initialized' \subseteq Hosts
      /\ phase' = "stopped" /\ backend' = 0 /\ stopPc' = "none"
  BY DEF StopDone, gateVars, hostVars, Attached, Killing, Admitted, TypeOK
<1>2. RequestsTyped' /\ Answering' /\ pending' = {} /\ leases' = {}
  <2>1. RequestsTyped /\ Settle({}, {}, Attached)
    BY DEF StopDone, TypeOK, RequestsTyped, RequestStates
  <2>2. RequestsTyped' /\ Answering'
    BY <1>1, <2>1, SettleAnswers
  <2> QED BY <1>1, <2>1, <2>2 DEF Settle, Admitted
<1>3. alive = {}
  BY DEF StopDone, Owning
<1>4. TypeOK'
  BY <1>1, <1>2 DEF TypeOK, RequestsTyped, RequestStates
<1>5. Owning' /\ Killing' /\ Closing'
  BY <1>1, <1>3 DEF StopDone, Owning, Killing, Closing, Starting
<1>6. Connected'
  <2>1. Attached \subseteq Hosts
    BY DEF Attached, TypeOK
  <2> QED BY <1>1, <2>1 DEF Connected
<1>7. Admitted'
  BY <1>1, <1>2 DEF StopDone, Admitted, Killing
<1> QED BY <1>2, <1>4, <1>5, <1>6, <1>7

LEMMA StopUnconfirmedKeeps == ASSUME IInv, StopUnconfirmed PROVE IInv'
<1> USE DEF IInv, Inv
<1>1. /\ UNCHANGED <<generation, backend, startPc, queue, alive, clients, initialized, started, scopeClosed,
                     owned, runner, host, configured, watching>>
      /\ phase' = "unavailable" /\ stopPc' = "none" /\ Attached' = Attached
  BY DEF StopUnconfirmed, Unavailable, startVars, hostVars, Attached
<1>2. /\ RequestsTyped' /\ Answering' /\ pending' = {} /\ leases' = {}
      /\ ready' = FALSE /\ failed' \in BOOLEAN
      /\ conn' \in [Hosts -> Connections]
      /\ \A h \in Hosts : conn[h] = "none" => conn'[h] = "none"
  BY CloseAllStep DEF StopUnconfirmed, Unavailable
<1>3. TypeOK'
  BY <1>1, <1>2 DEF TypeOK, RequestsTyped, RequestStates, Connections
<1>4. Owning' /\ Killing' /\ Closing'
  BY <1>1 DEF StopUnconfirmed, Owning, Killing, Closing, Starting
<1>5. Connected' /\ Admitted'
  BY <1>1, <1>2 DEF Connected, Admitted
<1> QED BY <1>2, <1>3, <1>4, <1>5

LEMMA ProcessExitsKeeps == ASSUME IInv, ProcessExits PROVE IInv'
<1> USE DEF IInv, Inv
<1>1. /\ UNCHANGED <<generation, backend, startPc, queue, clients, initialized, started, scopeClosed,
                     owned, runner, host, configured, watching>>
      /\ Attached' = Attached /\ alive' = {} /\ backend \in alive /\ backend # 0
  BY DEF ProcessExits, hostVars, Attached, Owning, TypeOK, Generations
<1>2. CASE phase = "stopping"
  <2>1. UNCHANGED <<phase, stopPc, conn, ready, failed>> /\ UNCHANGED reqVars
    BY <1>2 DEF ProcessExits, gateVars
  <2>2. RequestsTyped' /\ Answering' /\ pending' = pending /\ leases' = leases
    BY <2>1, RequestsKept
  <2>3. TypeOK'
    BY <1>1, <2>1, <2>2 DEF TypeOK, RequestsTyped, RequestStates
  <2>4. Owning' /\ Killing' /\ Closing'
    BY <1>1, <1>2, <2>1 DEF Owning, Killing, Closing, Starting
  <2>5. Connected' /\ Admitted'
    BY <1>1, <2>1, <2>2 DEF Connected, Admitted
  <2> QED BY <2>2, <2>3, <2>4, <2>5
<1>3. CASE phase # "stopping"
  <2>1. /\ RequestsTyped' /\ Answering' /\ pending' = {} /\ leases' = {}
        /\ ready' = FALSE /\ failed' \in BOOLEAN
        /\ conn' \in [Hosts -> Connections]
        /\ \A h \in Hosts : conn[h] = "none" => conn'[h] = "none"
    BY <1>3, CloseAllStep DEF ProcessExits
  <2>2. /\ stopPc' = IF stopPc # "none" THEN stopPc ELSE IF Starting THEN "wait" ELSE "kill"
        /\ phase' = IF stopPc' = "kill" THEN "stopping" ELSE "unavailable"
    BY <1>3 DEF ProcessExits
  <2>3. TypeOK'
    BY <1>1, <2>1, <2>2 DEF TypeOK, RequestsTyped, RequestStates, Connections
  <2>4. Owning' /\ Killing' /\ Closing'
    BY <1>1, <1>3, <2>2 DEF Owning, Killing, Closing, Starting, TypeOK
  <2>5. Connected' /\ Admitted'
    BY <1>1, <2>1, <2>2 DEF Connected, Admitted
  <2> QED BY <2>1, <2>3, <2>4, <2>5
<1> QED BY <1>2, <1>3

LEMMA ConnectionLostKeeps == ASSUME IInv, NEW h \in Hosts, ConnectionLost(h) PROVE IInv'
<1> USE DEF IInv, Inv
<1>1. /\ UNCHANGED <<generation, backend, startPc, queue, alive, stopPc, clients, initialized, started,
                     scopeClosed, owned, runner, host, configured, watching>>
      /\ phase' = "unavailable" /\ phase # "stopping" /\ phase # "stopped" /\ Attached' = Attached
  BY DEF ConnectionLost, Unavailable, startVars, hostVars, Attached, Connected
<1>2. /\ RequestsTyped' /\ Answering' /\ pending' = {} /\ leases' = {}
      /\ ready' = FALSE /\ failed' \in BOOLEAN
      /\ conn' \in [Hosts -> Connections]
      /\ \A g \in Hosts : conn[g] = "none" => conn'[g] = "none"
  <2>1. {r \in pending : HostOf(r) = h /\ req[r] = "writing"} \subseteq {r \in pending : req[r] = "writing"}
    OBVIOUS
  <2> QED BY <2>1, CloseAllStep DEF ConnectionLost, Unavailable
<1>3. TypeOK'
  BY <1>1, <1>2 DEF TypeOK, RequestsTyped, RequestStates, Connections
<1>4. Owning' /\ Killing' /\ Closing'
  BY <1>1 DEF Owning, Killing, Closing, Starting
<1>5. Connected' /\ Admitted'
  BY <1>1, <1>2 DEF Connected, Admitted
<1> QED BY <1>2, <1>3, <1>4, <1>5

-----------------------------------------------------------------------------
(* The Hosts and the process that runs them keep the invariant. *)

LEMMA BootKeeps == ASSUME IInv, Boot PROVE IInv'
<1> USE DEF IInv, Inv
<1>1. /\ UNCHANGED <<stopPc, clients, conn, initialized, ready, failed, started, scopeClosed, owned, host,
                     configured, watching>>
      /\ Attached' = Attached /\ runner = "new" /\ runner' = "starting"
  BY DEF Boot, gateVars, Attached
<1>2. RequestsTyped' /\ Answering' /\ pending' = pending /\ leases' = leases
  BY RequestsKept DEF Boot
<1>3. /\ phase = "stopped" /\ backend = 0 /\ ~Starting /\ ~scopeClosed /\ phase' = "starting"
      /\ startPc' = "spawn" /\ queue' = queue
      /\ generation' \in 1..MaxGenerations /\ backend' = generation' /\ alive' = {backend'}
  BY BeginStartStep DEF Boot
<1>4. TypeOK'
  BY <1>1, <1>2, <1>3, OfficialAssumption DEF TypeOK, RequestsTyped, RequestStates, Generations
<1>5. Owning' /\ Killing' /\ Closing'
  BY <1>1, <1>3 DEF Owning, Killing, Closing, Starting
<1>6. Connected' /\ Admitted'
  BY <1>1, <1>2, <1>3 DEF Connected, Admitted
<1> QED BY <1>2, <1>4, <1>5, <1>6

LEMMA ListenKeeps == ASSUME IInv, Listen PROVE IInv'
<1> USE DEF IInv, Inv
<1>1. /\ UNCHANGED <<phase, generation, backend, startPc, queue, alive, stopPc, clients, conn, initialized,
                     ready, failed, started, scopeClosed, owned, host, configured, watching>>
      /\ Attached' = Attached /\ runner' = "up"
  BY DEF Listen, startVars, gateVars, Attached
<1>2. RequestsTyped' /\ Answering' /\ pending' = pending /\ leases' = leases
  BY RequestsKept DEF Listen
<1>3. TypeOK'
  BY <1>1, <1>2 DEF TypeOK, RequestsTyped, RequestStates
<1>4. Owning' /\ Killing' /\ Closing' /\ Connected' /\ Admitted'
  BY <1>1, <1>2 DEF Owning, Killing, Closing, Starting, Connected, Admitted
<1> QED BY <1>2, <1>3, <1>4

LEMMA HostJoinsKeeps == ASSUME IInv, NEW h \in Hosts, HostJoins(h) PROVE IInv'
<1> USE DEF IInv, Inv
<1>1. /\ UNCHANGED <<stopPc, conn, initialized, ready, failed, started, scopeClosed, owned, runner, configured>>
      /\ watching' \subseteq Hosts /\ conn[h] = "none" /\ h \notin Attached
  BY DEF HostJoins, gateVars, Connected, TypeOK
<1>2. RequestsTyped' /\ Answering' /\ pending' = pending /\ leases' = leases
  BY RequestsKept DEF HostJoins
<1>3. clients' \in Seq(Hosts) /\ Distinct(clients') /\ Attached' = Attached \cup {h}
  BY <1>1, AppendClient DEF HostJoins, TypeOK, Distinct
<1>4. /\ host' \in [Hosts -> {"absent", "starting", "serving", "initializing", "refused", "gone"}]
      /\ host'[h] # "absent" /\ \A g \in Hosts \ {h} : host'[g] = host[g]
  BY DEF HostJoins, TypeOK
<1>5. \/ /\ phase = "stopped" /\ backend = 0 /\ ~Starting /\ ~scopeClosed /\ phase' = "starting"
         /\ startPc' = "spawn" /\ queue' = queue
         /\ generation' \in 1..MaxGenerations /\ backend' = generation' /\ alive' = {backend'}
         /\ runner = "up"
      \/ UNCHANGED <<phase, generation, backend, startPc, queue, alive>>
  BY BeginStartStep DEF HostJoins, startVars
<1>6. TypeOK'
  <2>1. /\ phase' \in {"stopped", "starting", "running", "stopping", "unavailable"}
        /\ generation' \in 0..MaxGenerations /\ backend' \in {0, generation'}
        /\ startPc' \in {"none", "spawn", "attach", "initialize"}
        /\ queue' \in Seq(Hosts) /\ (startPc' \in {"attach", "initialize"} => queue' # <<>>)
        /\ alive' \subseteq Generations
    <3>1. CASE phase' = "starting" /\ startPc' = "spawn" /\ queue' = queue /\ generation' \in 1..MaxGenerations
               /\ backend' = generation' /\ alive' = {backend'}
      BY <3>1, OfficialAssumption DEF TypeOK, Generations
    <3>2. CASE UNCHANGED <<phase, generation, backend, startPc, queue, alive>>
      BY <3>2 DEF TypeOK
    <3> QED BY <1>5, <3>1, <3>2
  <2> QED BY <1>1, <1>2, <1>3, <1>4, <2>1 DEF TypeOK, RequestsTyped, RequestStates, Distinct
<1>7. Owning' /\ Killing' /\ Closing'
  BY <1>1, <1>5 DEF Owning, Killing, Closing, Starting
<1>8. Connected'
  BY <1>1, <1>3, <1>4, <1>5 DEF Connected
<1>9. Admitted'
  BY <1>1, <1>2, <1>5 DEF Admitted
<1> QED BY <1>2, <1>6, <1>7, <1>8, <1>9

LEMMA HostServesKeeps == ASSUME IInv, NEW h \in Hosts, HostServes(h) PROVE IInv'
<1> USE DEF IInv, Inv
<1>1. /\ UNCHANGED <<generation, backend, startPc, queue, alive, clients, initialized, started, scopeClosed,
                     owned, runner, configured, watching>>
      /\ Attached' = Attached
      /\ host' \in [Hosts -> {"absent", "starting", "serving", "initializing", "refused", "gone"}]
      /\ \A g \in Hosts : host'[g] = "absent" => host[g] = "absent"
  BY DEF HostServes, startVars, Attached, TypeOK
<1>2. /\ RequestsTyped' /\ Answering' /\ Admitted' /\ failed' \in BOOLEAN /\ ready' \in BOOLEAN
      /\ conn' \in [Hosts -> Connections]
      /\ \A g \in Hosts : conn[g] = "none" => conn'[g] = "none"
      /\ \/ phase' = phase /\ conn' = conn /\ (stopPc' = stopPc \/ (stopPc = "none" /\ Starting /\ stopPc' = "wait"))
         \/ stopPc = "none" /\ ~Starting /\ backend # 0 /\ phase' = "stopping" /\ stopPc' = "kill"
  <2>1. CASE CallStop
    BY <2>1, CallStopStep DEF HostServes
  <2>2. CASE UNCHANGED <<phase, stopPc, conn, gateVars, reqVars>>
    <3>1. RequestsTyped' /\ Answering' /\ pending' = pending /\ leases' = leases
      BY <2>2, RequestsKept
    <3>2. UNCHANGED <<phase, stopPc, conn, ready, failed>>
      BY <2>2 DEF gateVars
    <3> QED BY <3>1, <3>2 DEF Admitted, TypeOK, Connections
  <2> QED BY <2>1, <2>2 DEF HostServes
<1>3. TypeOK'
  BY <1>1, <1>2 DEF TypeOK, RequestsTyped, RequestStates, Connections
<1>4. Owning' /\ Killing' /\ Closing' /\ Connected'
  BY <1>1, <1>2 DEF Owning, Killing, Closing, Starting, Connected
<1> QED BY <1>2, <1>3, <1>4

LEMMA HostSeesFailureKeeps == ASSUME IInv, NEW h \in Hosts, HostSeesFailure(h) PROVE IInv'
<1> USE DEF IInv, Inv
<1>1. /\ UNCHANGED <<generation, backend, startPc, queue, alive, clients, initialized, started, scopeClosed,
                     owned, runner, host, configured>>
      /\ Attached' = Attached /\ watching' \subseteq Hosts
  BY DEF HostSeesFailure, startVars, Attached, TypeOK
<1>2. /\ RequestsTyped' /\ Answering' /\ Admitted' /\ failed' \in BOOLEAN /\ ready' \in BOOLEAN
      /\ conn' \in [Hosts -> Connections]
      /\ \A g \in Hosts : conn[g] = "none" => conn'[g] = "none"
      /\ \/ phase' = phase /\ conn' = conn /\ (stopPc' = stopPc \/ (stopPc = "none" /\ Starting /\ stopPc' = "wait"))
         \/ stopPc = "none" /\ ~Starting /\ backend # 0 /\ phase' = "stopping" /\ stopPc' = "kill"
  BY CallStopStep DEF HostSeesFailure
<1>3. TypeOK'
  BY <1>1, <1>2 DEF TypeOK, RequestsTyped, RequestStates, Connections
<1>4. Owning' /\ Killing' /\ Closing' /\ Connected'
  BY <1>1, <1>2 DEF Owning, Killing, Closing, Starting, Connected
<1> QED BY <1>2, <1>3, <1>4

LEMMA HostLeavesKeeps == ASSUME IInv, NEW h \in Hosts, HostLeaves(h) PROVE IInv'
<1> USE DEF IInv, Inv
<1>1. /\ UNCHANGED <<phase, generation, backend, startPc, queue, alive, stopPc, initialized, ready, failed,
                     started, scopeClosed, owned, runner, configured, watching>>
      /\ host' \in [Hosts -> {"absent", "starting", "serving", "initializing", "refused", "gone"}]
      /\ \A g \in Hosts : host'[g] = "absent" => g # h /\ host[g] = "absent"
  BY DEF HostLeaves, startVars, gateVars, TypeOK
<1>2. /\ clients' \in Seq(Hosts) /\ Distinct(clients') /\ Attached' = Attached \ {h}
      /\ RequestsTyped' /\ Answering' /\ leases' = pending'
      /\ pending' = {r \in pending : HostOf(r) # h}
      /\ conn' = [conn EXCEPT ![h] = IF @ = "none" THEN "none" ELSE "closed"]
  BY DetachStep DEF HostLeaves
<1>3. TypeOK'
  BY <1>1, <1>2 DEF TypeOK, RequestsTyped, RequestStates, Distinct
<1>4. Owning' /\ Killing' /\ Closing'
  BY <1>1 DEF Owning, Killing, Closing, Starting
<1>5. \A g \in Hosts : conn'[g] = IF g = h THEN (IF conn[g] = "none" THEN "none" ELSE "closed") ELSE conn[g]
  BY <1>2 DEF TypeOK
<1>6. Connected'
  <2>1. Attached \subseteq Hosts
    BY DEF Attached, TypeOK
  <2> QED BY <1>1, <1>2, <1>5, <2>1 DEF Connected
<1>7. Admitted'
  <2>1. \A r \in pending : HostOf(r) \in Hosts
    BY DEF TypeOK, Requests, HostOf
  <2> QED BY <1>1, <1>2, <1>5, <2>1 DEF Admitted
<1> QED BY <1>2, <1>3, <1>4, <1>6, <1>7

LEMMA CloseScopeKeeps == ASSUME IInv, CloseScope PROVE IInv'
<1> USE DEF IInv, Inv
<1>1. /\ UNCHANGED <<generation, backend, startPc, queue, alive, clients, initialized, started,
                     owned, host, configured, watching>>
      /\ Attached' = Attached /\ runner' = "closing" /\ scopeClosed' = TRUE
  BY DEF CloseScope, startVars, Attached
<1>2. /\ RequestsTyped' /\ Answering' /\ Admitted' /\ failed' \in BOOLEAN /\ ready' \in BOOLEAN
      /\ conn' \in [Hosts -> Connections]
      /\ \A g \in Hosts : conn[g] = "none" => conn'[g] = "none"
      /\ \/ phase' = phase /\ conn' = conn /\ (stopPc' = stopPc \/ (stopPc = "none" /\ Starting /\ stopPc' = "wait"))
         \/ stopPc = "none" /\ ~Starting /\ backend # 0 /\ phase' = "stopping" /\ stopPc' = "kill"
  BY CallStopStep DEF CloseScope
<1>3. TypeOK'
  BY <1>1, <1>2 DEF TypeOK, RequestsTyped, RequestStates, Connections
<1>4. Owning' /\ Killing' /\ Closing' /\ Connected'
  BY <1>1, <1>2 DEF Owning, Killing, Closing, Starting, Connected
<1> QED BY <1>2, <1>3, <1>4

LEMMA ScopeClosesKeeps == ASSUME IInv, ScopeCloses PROVE IInv'
<1> USE DEF IInv, Inv
<1>1. /\ UNCHANGED <<phase, generation, backend, startPc, queue, alive, stopPc, initialized, ready, failed,
                     started, scopeClosed, owned, configured, watching>>
      /\ runner = "closing" /\ runner' = (IF backend = 0 THEN "closed" ELSE "closeFailed")
  BY DEF ScopeCloses, startVars, gateVars
<1>2. Owning' /\ Killing' /\ Closing'
  BY <1>1 DEF Owning, Killing, Closing, Starting
<1>3. CASE UNCHANGED <<clients, conn, host, reqVars>>
  <2>1. RequestsTyped' /\ Answering' /\ pending' = pending /\ leases' = leases
    BY <1>3, RequestsKept
  <2>2. UNCHANGED <<clients, conn, host>> /\ Attached' = Attached
    BY <1>3 DEF Attached
  <2>3. TypeOK'
    BY <1>1, <2>1, <2>2 DEF TypeOK, RequestsTyped, RequestStates
  <2>4. Connected' /\ Admitted'
    BY <1>1, <2>1, <2>2 DEF Connected, Admitted
  <2> QED BY <1>2, <2>1, <2>3, <2>4
<1>4. ASSUME NEW h \in Attached, Detach(h), host' = [host EXCEPT ![h] = "gone"] PROVE IInv'
  <2>1. h \in Hosts /\ Attached \subseteq Hosts
    BY DEF Attached, TypeOK
  <2>2. /\ clients' \in Seq(Hosts) /\ Distinct(clients') /\ Attached' = Attached \ {h}
        /\ RequestsTyped' /\ Answering' /\ leases' = pending'
        /\ pending' = {r \in pending : HostOf(r) # h}
        /\ conn' = [conn EXCEPT ![h] = IF @ = "none" THEN "none" ELSE "closed"]
    BY <1>4, <2>1, DetachStep
  <2>3. /\ host' \in [Hosts -> {"absent", "starting", "serving", "initializing", "refused", "gone"}]
        /\ \A g \in Hosts : host'[g] = "absent" => g # h /\ host[g] = "absent"
    BY <1>4, <2>1 DEF TypeOK
  <2>4. TypeOK'
    BY <1>1, <2>2, <2>3 DEF TypeOK, RequestsTyped, RequestStates, Distinct
  <2>5. \A g \in Hosts : conn'[g] = IF g = h THEN (IF conn[g] = "none" THEN "none" ELSE "closed") ELSE conn[g]
    BY <2>2 DEF TypeOK
  <2>6. Connected'
    BY <1>1, <2>1, <2>2, <2>3, <2>5 DEF Connected
  <2>7. Admitted'
    <3>1. \A r \in pending : HostOf(r) \in Hosts
      BY DEF TypeOK, Requests, HostOf
    <3> QED BY <1>1, <2>2, <2>5, <3>1 DEF Admitted
  <2> QED BY <1>2, <2>2, <2>4, <2>6, <2>7
<1> QED BY <1>3, <1>4 DEF ScopeCloses

-----------------------------------------------------------------------------
(* The Desktops keep the invariant. *)

\* A step of a Desktop that negotiates changes its Host and connection alone.
LEMMA NegotiationKeeps ==
  ASSUME IInv, NEW h \in Hosts, DesktopInitializes(h) \/ Initialized(h) \/ InitializeFails(h)
  PROVE  IInv'
<1> USE DEF IInv, Inv
<1>1. /\ UNCHANGED <<phase, generation, backend, startPc, queue, alive, stopPc, clients, ready, failed,
                     started, scopeClosed, owned, runner, watching>>
      /\ UNCHANGED reqVars /\ Attached' = Attached
      /\ initialized' \subseteq Hosts /\ configured' \subseteq Hosts
      /\ host' \in [Hosts -> {"absent", "starting", "serving", "initializing", "refused", "gone"}]
      /\ \A g \in Hosts : host'[g] = "absent" => host[g] = "absent"
      /\ host[h] # "absent"
  <2>1. CASE DesktopInitializes(h)
    BY <2>1 DEF DesktopInitializes, startVars, gateVars, Attached, TypeOK
  <2>2. CASE Initialized(h)
    BY <2>2 DEF Initialized, startVars, gateVars, Attached, TypeOK
  <2>3. CASE InitializeFails(h)
    BY <2>3 DEF InitializeFails, startVars, gateVars, Attached, TypeOK
  <2> QED BY <2>1, <2>2, <2>3
<1>2. RequestsTyped' /\ Answering' /\ pending' = pending /\ leases' = leases
  BY <1>1, RequestsKept
<1>3. conn' = conn \/ (phase = "running" /\ conn' = [conn EXCEPT ![h] = "open"])
  BY DEF DesktopInitializes, Initialized, InitializeFails
<1>4. /\ conn' \in [Hosts -> Connections]
      /\ \A g \in Hosts : conn'[g] = conn[g] \/ (phase = "running" /\ g = h /\ conn'[g] = "open")
  BY <1>3 DEF TypeOK, Connections
<1>5. TypeOK'
  BY <1>1, <1>2, <1>4 DEF TypeOK, RequestsTyped, RequestStates, Connections
<1>6. Owning' /\ Killing' /\ Closing'
  BY <1>1 DEF Owning, Killing, Closing, Starting
<1>7. Connected'
  <2>1. Attached \subseteq Hosts
    BY DEF Attached, TypeOK
  <2> QED BY <1>1, <1>4, <2>1 DEF Connected
<1>8. Admitted'
  <2>1. \A r \in pending : HostOf(r) \in Hosts
    BY DEF TypeOK, Requests, HostOf
  <2> QED BY <1>1, <1>2, <1>4, <2>1 DEF Admitted
<1> QED BY <1>2, <1>5, <1>6, <1>7, <1>8

\* A step of one request.
LEMMA RequestKeeps ==
  ASSUME IInv, NEW r \in Requests, Send(r) \/ SendThrows(r) \/ Drained(r) \/ Respond(r)
  PROVE  IInv'
<1> USE DEF IInv, Inv
<1>1. /\ UNCHANGED <<phase, generation, backend, startPc, queue, alive, stopPc, clients, conn, initialized,
                     ready, failed, started, scopeClosed, owned, runner, host, configured, watching>>
      /\ Attached' = Attached
  BY DEF Send, SendThrows, Drained, Respond, startVars, gateVars, hostVars, Attached
<1>2. leases = pending /\ HostOf(r) \in Hosts /\ RequestsTyped /\ Answering
  BY DEF Admitted, Requests, HostOf, TypeOK, RequestsTyped, RequestStates
<1>3. \/ /\ req[r] = "new" /\ ready /\ conn[HostOf(r)] = "open"
         /\ pending' = pending \cup {r} /\ leases' = leases \cup {r} /\ answers' = answers
         /\ req' = [req EXCEPT ![r] = "sent"] \/ req' = [req EXCEPT ![r] = "writing"]
      \/ /\ req[r] \in {"new", "throwing"} /\ Fail(r)
      \/ Drained(r)
      \/ Respond(r)
  BY DEF Send, SendThrows, Write
<1>4. /\ RequestsTyped' /\ Answering' /\ leases' = pending'
      /\ \/ pending' \subseteq pending
         \/ ready /\ conn[HostOf(r)] = "open" /\ pending' = pending \cup {r}
  <2>1. CASE /\ req[r] = "new" /\ ready /\ conn[HostOf(r)] = "open"
             /\ pending' = pending \cup {r} /\ leases' = leases \cup {r} /\ answers' = answers
             /\ req' = [req EXCEPT ![r] = "sent"] \/ req' = [req EXCEPT ![r] = "writing"]
    BY <1>2, <2>1 DEF RequestsTyped, RequestStates, Answering
  <2>2. CASE req[r] \in {"new", "throwing"} /\ Fail(r)
    BY <1>2, <2>2 DEF Fail, RequestsTyped, RequestStates, Answering
  <2>3. CASE Drained(r)
    BY <1>2, <2>3 DEF Drained, RequestsTyped, RequestStates, Answering
  <2>4. CASE Respond(r)
    BY <1>2, <2>4 DEF Respond, RequestsTyped, RequestStates, Answering
  <2> QED BY <1>3, <2>1, <2>2, <2>3, <2>4
<1>5. TypeOK'
  BY <1>1, <1>4 DEF TypeOK, RequestsTyped, RequestStates
<1>6. Owning' /\ Killing' /\ Closing' /\ Connected'
  BY <1>1 DEF Owning, Killing, Closing, Starting, Connected
<1>7. Admitted'
  BY <1>1, <1>2, <1>4 DEF Admitted
<1> QED BY <1>4, <1>5, <1>6, <1>7

-----------------------------------------------------------------------------
LEMMA Initially == ASSUME Init PROVE IInv
<1> USE DEF Init
<1>1. TypeOK
  <2>1. queue \in Seq(Hosts) /\ clients \in Seq(Hosts)
    OBVIOUS
  <2>2. runner \in {"new", "up"} /\ generation \in 0..MaxGenerations
    BY OfficialAssumption
  <2>3. \A i, j \in DOMAIN clients : clients[i] = clients[j] => i = j
    OBVIOUS
  <2>4. /\ conn \in [Hosts -> {"none", "open", "retired", "closed"}]
        /\ host \in [Hosts -> {"absent", "starting", "serving", "initializing", "refused", "gone"}]
        /\ req \in [Requests -> {"new", "writing", "throwing", "sent", "done", "failed"}]
        /\ answers \in [Requests -> Nat]
    OBVIOUS
  <2>5. {ready, started, scopeClosed, failed, owned} \subseteq BOOLEAN
    OBVIOUS
  <2> HIDE DEF Init
  <2>6. /\ phase = "stopped" /\ backend = 0 /\ startPc = "none" /\ stopPc = "none" /\ alive = {}
        /\ initialized = {} /\ pending = {} /\ leases = {} /\ configured = {} /\ watching = {}
    BY DEF Init
  <2> QED BY <2>1, <2>2, <2>3, <2>4, <2>5, <2>6 DEF TypeOK
<1>2. Attached = {}
  BY DEF Attached
<1>3. Owning /\ Killing /\ Connected /\ Admitted /\ Closing
  BY <1>2 DEF Owning, Killing, Connected, Admitted, Closing, Starting
<1>4. Answering
  BY DEF Answering
<1> QED BY <1>1, <1>3, <1>4 DEF IInv, Inv

\* Every step keeps the invariant.
LEMMA Inductive == ASSUME IInv, [Next]_vars PROVE IInv'
<1>1. CASE UNCHANGED vars
  <2>1. UNCHANGED reqVars
    BY <1>1 DEF vars
  <2>2. /\ UNCHANGED <<phase, generation, backend, startPc, queue, alive, stopPc, clients, conn, initialized,
                       ready, failed, started, scopeClosed, owned, runner, host, configured, watching>>
        /\ Attached' = Attached
    BY <1>1 DEF vars, startVars, gateVars, hostVars, Attached
  <2>3. RequestsTyped' /\ Answering' /\ pending' = pending /\ leases' = leases
    BY <2>1, RequestsKept
  <2>4. TypeOK'
    BY <2>2, <2>3 DEF IInv, TypeOK, RequestsTyped, RequestStates
  <2> QED BY <2>2, <2>3, <2>4 DEF IInv, Inv, Owning, Killing, Closing, Starting, Connected, Admitted
<1>2. CASE StartStep \/ StopStep \/ ProcessExits
  BY <1>2, BackendReadyKeeps, AttachClientKeeps, InitializeClientKeeps, StartFailsKeeps, StopResumesKeeps,
     StopDoneKeeps, StopUnconfirmedKeeps, ProcessExitsKeeps DEF StartStep, StopStep
<1>3. CASE Boot \/ Listen \/ CloseScope \/ ScopeCloses
  BY <1>3, BootKeeps, ListenKeeps, CloseScopeKeeps, ScopeClosesKeeps
<1>4. ASSUME NEW h \in Hosts,
             ConnectionLost(h) \/ HostJoins(h) \/ HostServes(h) \/ HostSeesFailure(h) \/ HostLeaves(h)
             \/ DesktopInitializes(h) \/ Initialized(h) \/ InitializeFails(h)
      PROVE  IInv'
  BY <1>4, ConnectionLostKeeps, HostJoinsKeeps, HostServesKeeps, HostSeesFailureKeeps, HostLeavesKeeps,
     NegotiationKeeps
<1>5. ASSUME NEW r \in Requests, Send(r) \/ SendThrows(r) \/ Drained(r) \/ Respond(r) PROVE IInv'
  BY <1>5, RequestKeeps
<1> QED BY <1>1, <1>2, <1>3, <1>4, <1>5 DEF Next

\* The invariant of the owner, the gate, the scope and the clients.
THEOREM Invariance == Spec => []IInv
BY Initially, Inductive, PTL DEF Spec

-----------------------------------------------------------------------------
\* The variables of the owner, the gate, the scope, the Hosts and the requests keep
\* their types.
THEOREM TypeCorrect == Spec => []TypeOK
<1>1. IInv => TypeOK
  BY DEF IInv
<1> QED BY <1>1, Invariance, PTL

\* OfficialRuntimeOwner never starts a process beside one that may be alive, and a
\* scope that was closed leaves none behind.
THEOREM AtMostOneProcess == Spec => []OneProcess
<1>1. IInv => OneProcess
  BY DEF IInv, Inv, TypeOK, Owning, Closing, OneProcess, Generations
<1> QED BY <1>1, Invariance, PTL

\* OfficialWorkGate is open only while the owned process runs and the connections of
\* the attached Hosts are usable, and no request that holds a lease waits on a
\* connection that was given up.
THEOREM GateIsHonest == Spec => []LeasesHaveWork
<1>1. IInv => LeasesHaveWork
  BY DEF IInv, Inv, Owning, Connected, Admitted, LeasesHaveWork
<1> QED BY <1>1, Invariance, PTL

\* #retire, #output and #send answer a request once between them, but for the write
\* that throws after its request was retired or answered by the native server.
THEOREM AnswersAreCounted == Spec => []SecondAnswerNeedsThrownWrite
<1>1. IInv => SecondAnswerNeedsThrownWrite
  BY DEF IInv, Inv, TypeOK, Answering, SecondAnswerNeedsThrownWrite
<1> QED BY <1>1, Invariance, PTL

\* The parts of the actions that could start a process or open the gate do neither
\* once the scope is closed.
LEMMA CallStopOpensNothing == ASSUME CallStop PROVE ready' => ready
BY DEF CallStop, StopBody, GateUnavailable, gateVars

LEMMA AttachRestOpensNothing ==
  ASSUME scopeClosed, NEW q, AttachRest(q)
  PROVE  alive' = alive /\ (ready' => ready)
BY DEF AttachRest, ScopeStarted, gateVars

\* OfficialRuntimeScope.close is final: whatever start, stop and the Hosts still do,
\* no process is started and the gate is not opened again.
THEOREM ClosedIsFinal == Spec => ClosedScopeStaysShut
<1>1. ASSUME [Next]_vars, scopeClosed PROVE alive' \subseteq alive /\ (ready' => ready)
  <2>1. CASE UNCHANGED vars
    BY <2>1 DEF vars, startVars, gateVars
  <2>2. CASE StartStep
    <3>1. CASE BackendReady
      BY <1>1, <3>1, AttachRestOpensNothing DEF BackendReady
    <3>2. CASE AttachClient
      <4>1. CASE Head(queue) \in configured
        BY <3>2, <4>1 DEF AttachClient, gateVars
      <4>2. CASE Head(queue) \notin configured
        BY <1>1, <3>2, <4>2, AttachRestOpensNothing DEF AttachClient
      <4> QED BY <4>1, <4>2
    <3>3. CASE InitializeClient
      BY <1>1, <3>3, AttachRestOpensNothing DEF InitializeClient
    <3>4. CASE StartFails
      BY <3>4 DEF StartFails, Unavailable, CloseAll, GateUnavailable
    <3> QED BY <2>2, <3>1, <3>2, <3>3, <3>4 DEF StartStep
  <2>3. CASE StopStep
    BY <2>3 DEF StopStep, StopResumes, StopBody, StopDone, StopUnconfirmed, Unavailable, CloseAll,
                GateUnavailable, startVars, gateVars
  <2>4. CASE ProcessExits
    BY <2>4 DEF ProcessExits, CloseAll, GateUnavailable, gateVars
  <2>5. CASE Boot
    BY <1>1, <2>5 DEF Boot, BeginStart, Startable
  <2>6. CASE Listen
    BY <2>6 DEF Listen, startVars, gateVars
  <2>7. CASE CloseScope
    BY <2>7, CallStopOpensNothing DEF CloseScope, startVars
  <2>8. CASE ScopeCloses
    BY <2>8 DEF ScopeCloses, startVars, gateVars
  <2>9. ASSUME NEW h \in Hosts,
               ConnectionLost(h) \/ HostJoins(h) \/ HostServes(h) \/ HostSeesFailure(h) \/ HostLeaves(h)
               \/ DesktopInitializes(h) \/ Initialized(h) \/ InitializeFails(h)
        PROVE  alive' \subseteq alive /\ (ready' => ready)
    <3>1. CASE ConnectionLost(h)
      BY <3>1 DEF ConnectionLost, Unavailable, CloseAll, GateUnavailable, startVars
    <3>2. CASE HostJoins(h)
      BY <1>1, <3>2 DEF HostJoins, BeginStart, Startable, startVars, gateVars
    <3>3. CASE HostServes(h)
      BY <3>3, CallStopOpensNothing DEF HostServes, startVars, gateVars
    <3>4. CASE HostSeesFailure(h)
      BY <3>4, CallStopOpensNothing DEF HostSeesFailure, startVars
    <3>5. CASE HostLeaves(h)
      BY <3>5 DEF HostLeaves, startVars, gateVars
    <3>6. CASE DesktopInitializes(h) \/ Initialized(h) \/ InitializeFails(h)
      BY <3>6 DEF DesktopInitializes, Initialized, InitializeFails, startVars, gateVars
    <3> QED BY <2>9, <3>1, <3>2, <3>3, <3>4, <3>5, <3>6
  <2>10. ASSUME NEW r \in Requests, Send(r) \/ SendThrows(r) \/ Drained(r) \/ Respond(r)
         PROVE  alive' \subseteq alive /\ (ready' => ready)
    BY <2>10 DEF Send, SendThrows, Drained, Respond, startVars, gateVars
  <2> QED BY <1>1, <2>1, <2>2, <2>3, <2>4, <2>5, <2>6, <2>7, <2>8, <2>9, <2>10 DEF Next
<1>2. [Next]_vars => [scopeClosed => alive' \subseteq alive /\ (ready' => ready)]_vars
  BY <1>1
<1> QED BY <1>2, PTL DEF Spec, ClosedScopeStaysShut
=============================================================================
