---------------------------- MODULE HarnessBroker ----------------------------
(***************************************************************************)
(* The Harness broker: a server that owns the native Sessions of one        *)
(* Harness, and clients that reach them over sockets, each through one      *)
(* BrokeredHarnessSession (the wrapper).                                    *)
(*                                                                         *)
(* The server answers the requests of a connection one at a time and in     *)
(* order, but a request goes on after its socket has closed.  nativeWriters *)
(* and provisionalNativeWriter are the leases that keep a native identity   *)
(* with one writer.  Frames of a connection arrive in order; a client       *)
(* handles those of one chunk before the code that awaits a response runs.  *)
(*                                                                         *)
(* The Harness may give any identity: another than was asked for, one that  *)
(* another Session has, or another than it gave before.                     *)
(*                                                                         *)
(* The wrapper makes one call at a time, except that close may overtake a   *)
(* recovery.  Hello, inspection, commands, snapshots, the selection of      *)
(* models and a shutdown of the server are left out, and a native close     *)
(* succeeds.                                                                *)
(***************************************************************************)
EXTENDS Naturals, Sequences, FiniteSets

CONSTANTS
  Clients,
  Identities,      \* native identities
  NoIdentity,      \* not confirmed yet, or not an identity of this Harness
  MaxConnections,  \* bound: connections made
  MaxOpens,        \* bound: adapter.open requests that got past the leases
  MaxNatives,      \* bound: native Sessions opened
  MaxFaults,       \* bound: failures of the Harness and of connections
  MaxRivalFaults   \* bound: the same, once two clients have connected

ASSUME BrokerAssumption ==
  /\ {MaxConnections, MaxOpens, MaxNatives, MaxFaults, MaxRivalFaults} \subseteq Nat
  /\ NoIdentity \notin Identities
  /\ 0 \notin Clients

Connections == 1..MaxConnections
Records == 1..MaxOpens        \* ServerSessions; an open reserves with the ID of its record
Natives == 1..MaxNatives
AnyIdentity == Identities \cup {NoIdentity}

VARIABLES
  \* server
  rec,          \* ServerSession records
  native,       \* native Sessions
  writers,      \* nativeWriters: the record that holds each identity, 0 for none
  provisional,  \* provisionalNativeWriter
  serving,      \* of each connection: the request that is being handled
  open,         \* connections the server has not seen closed
  \* connections
  owner,        \* the client that made each connection, when it was made
  up,           \* connections whose client end is open
  toServer, toClient,
  \* clients
  wrapper,      \* the BrokeredHarnessSession of each client
  call,         \* what each client awaits
  link,         \* the connection of each adapter, 0 for none
  stale,        \* connections on which a request has timed out unanswered
  \* bound and history
  faults,
  strays,       \* native Sessions that no record vouches for: the server closes
                \* them, or the record was gone when the adapter gave it one
  dropped       \* records whose wrapper missed an output or a fault

serverVars == <<rec, native, writers, provisional, serving, open>>
clientVars == <<wrapper, call, link, stale>>
history == <<faults, strays, dropped>>
vars == <<serverVars, clientVars, owner, up, toServer, toClient, history>>

NoFrame == [kind |-> "none", rec |-> 0, gen |-> 0, id |-> NoIdentity]
NoCall == [op |-> "none", conn |-> 0, frame |-> NoFrame]
Work(op, i) == [op |-> op, on |-> i]   \* of a record, or to drop a native Session
NoWork == Work("none", 0)
NoWrapper == [conn |-> 0, rec |-> 0, gen |-> 0, id |-> NoIdentity, faulted |-> FALSE, closed |-> FALSE]

NoRecord == [st |-> "free", conn |-> 0, nat |-> 0, gen |-> 1, key |-> NoIdentity,
             awaiting |-> "no", faulted |-> FALSE, silent |-> FALSE, last |-> 0,
             fork |-> FALSE]
Gone == [NoRecord EXCEPT !.st = "removed"]

NewOf(S) == CHOOSE i \in S : TRUE    \* randomUUID, or the next native Session
FreeRecords == {r \in Records : rec[r].st = "free"}
FreeNatives == {n \in Natives : native[n].st = "unused"}
Listed(r) == rec[r].st = "listed"

Frame(kind, r, gen, id) == [kind |-> kind, rec |-> r, gen |-> gen, id |-> id]
Metadata(r, gen, id) == Frame("ok", r, gen, id)
Refusal == Frame("error", 0, 0, NoIdentity)
Thrown == Frame("thrown", 0, 0, NoIdentity)    \* the handler threw, and the call is rejected

-----------------------------------------------------------------------------
(* The server.                                                             *)

SendTo(k, f) == toClient' = [toClient EXCEPT ![k] = IF k \in up THEN Append(@, f) ELSE @]

\* The answer to the request being handled.
Respond(k, f) == SendTo(k, f) /\ serving' = [serving EXCEPT ![k] = NoWork]

Request(k) == Head(toServer[k])
Takes(k, op) ==
  /\ k \in open /\ serving[k] = NoWork /\ toServer[k] # <<>> /\ Request(k).op = op
  /\ toServer' = [toServer EXCEPT ![k] = Tail(@)]

\* requireSession
Owns(k, q) == q.rec \in Records /\ Listed(q.rec) /\ rec[q.rec].conn = k /\ rec[q.rec].gen = q.gen

\* Close a native Session, which takes a step of its own.
Closing(n) == [native EXCEPT ![n].st = IF @ = "open" THEN "closing" ELSE @]

\* releaseProvisionalWriter and releaseOpenReservations
ProvisionalWithout(r) == IF provisional = r THEN 0 ELSE provisional
WritersWithout(r) == [i \in Identities |-> IF writers[i] = r THEN 0 ELSE writers[i]]

\* Two clients have connected.
Rivals == \E j, k \in Connections : {owner[j], owner[k]} \subseteq Clients /\ owner[j] # owner[k]

\* A failure of the Harness or of a connection.
Faulty ==
  /\ faults < MaxFaults /\ (Rivals => faults < MaxRivalFaults)
  /\ faults' = faults + 1

Busy(id) == provisional # 0 \/ (id # NoIdentity /\ writers[id] # 0)

\* A create reserves the pending claim, the other opens the identity they name.
TakeOpen(k) ==
  /\ Takes(k, "open") \/ Takes(k, "fork")
  /\ LET id == Request(k).id
         r == NewOf(FreeRecords)
     IN \/ Busy(id) /\ Respond(k, Refusal) /\ UNCHANGED <<rec, writers, provisional>>
        \/ /\ ~Busy(id) /\ FreeRecords # {}
           /\ rec' = [rec EXCEPT ![r].st = "opening", ![r].conn = k, ![r].key = id,
                                 ![r].fork = (Request(k).op = "fork")]
           /\ writers' = [i \in Identities |-> IF i = id THEN r ELSE writers[i]]
           /\ provisional' = IF id = NoIdentity THEN r ELSE provisional
           /\ serving' = [serving EXCEPT ![k] = Work("open", r)]
           /\ UNCHANGED toClient
  /\ UNCHANGED <<native, open, clientVars, owner, up, history>>

OpenFails(k) ==
  /\ Faulty
  /\ serving[k].op = "open"
  /\ LET r == serving[k].on
     IN /\ rec' = [rec EXCEPT ![r] = Gone]
        /\ writers' = WritersWithout(r) /\ provisional' = ProvisionalWithout(r)
  /\ Respond(k, Refusal) \/ Respond(k, Thrown)
  /\ UNCHANGED <<native, open, toServer, clientVars, owner, up, strays, dropped>>

\* The identity is one the open may have: that of a resume is the one asked for,
\* a create may leave it to be confirmed, and no other record has it.
Suits(r, id) ==
  /\ id # NoIdentity => writers[id] \in {0, r}
  /\ rec[r].key # NoIdentity => id # NoIdentity /\ (rec[r].fork \/ id = rec[r].key)

\* The socket closed while the adapter was opening, or the identity is not one
\* the open may have, or is of another Harness or format: the reservations are
\* released, and then the native Session is closed.
OpenDrops(k) ==
  /\ serving[k].op = "open" /\ FreeNatives # {}
  /\ IF k \in open THEN Faulty ELSE UNCHANGED faults
  /\ LET r == serving[k].on
         n == NewOf(FreeNatives)
     IN /\ \E id \in {i \in AnyIdentity : k \notin open \/ ~Suits(r, i) \/ i \in {NoIdentity, rec[r].key}} :
             native' = [native EXCEPT ![n] = [st |-> "closing", id |-> id]]
        /\ rec' = [rec EXCEPT ![r] = Gone]
        /\ writers' = WritersWithout(r) /\ provisional' = ProvisionalWithout(r)
        /\ strays' = strays \cup {n}
        /\ serving' = [serving EXCEPT ![k] = Work("drop", n)]
  /\ UNCHANGED <<open, toServer, toClient, clientVars, owner, up, dropped>>

\* The native Session that is not wanted is closed.
DropDone(k) ==
  /\ serving[k].op = "drop" /\ native[serving[k].on].st = "closed"
  /\ Respond(k, Refusal)
  /\ UNCHANGED <<rec, native, writers, provisional, open, toServer, clientVars, owner, up, history>>

\* Mutant: the lease of the identity that was forked is kept.
WritersKept(r, id) == [i \in Identities |-> IF i = id THEN r ELSE writers[i]]

\* The lease moves to the identity that was opened.
WritersMoved(r, id) == [i \in Identities |-> IF i = id THEN r ELSE IF writers[i] = r THEN 0 ELSE writers[i]]

\* A create whose identity its first Turn is to confirm keeps the provisional lease.
OpenDone(k) ==
  /\ serving[k].op = "open" /\ k \in open /\ FreeNatives # {}
  /\ LET r == serving[k].on
         n == NewOf(FreeNatives)
     IN \E id \in AnyIdentity :
          /\ Suits(r, id)
          /\ native' = [native EXCEPT ![n] = [st |-> "open", id |-> id]]
          /\ rec' = [rec EXCEPT ![r].st = "listed", ![r].nat = n, ![r].key = id, ![r].fork = FALSE,
                                ![r].awaiting = IF id = NoIdentity THEN "claim" ELSE "no"]
          /\ writers' = WritersMoved(r, id)
          /\ provisional' = IF id = NoIdentity THEN provisional ELSE ProvisionalWithout(r)
          /\ Respond(k, Metadata(r, 1, id))
  /\ UNCHANGED <<open, toServer, clientVars, owner, up, history>>

\* While the identity is awaited only the first Turn is let through; it may fail.
TakeExecute(k) ==
  /\ Takes(k, "execute")
  /\ LET q == Request(k)
     IN \/ /\ ~Owns(k, q) \/ rec[q.rec].awaiting = "turn"
           /\ Respond(k, Refusal) /\ UNCHANGED rec
        \/ /\ Owns(k, q) /\ rec[q.rec].awaiting # "turn"
           /\ Respond(k, Metadata(q.rec, q.gen, NoIdentity))
           /\ rec' \in {rec, [rec EXCEPT ![q.rec].awaiting = IF @ = "claim" THEN "turn" ELSE @]}
  /\ UNCHANGED <<native, writers, provisional, open, clientVars, owner, up, history>>

TakeReopen(k) ==
  /\ Takes(k, "reopen")
  /\ LET q == Request(k)
         r == q.rec
     IN \/ /\ ~Owns(k, q) \/ (rec[r].faulted /\ rec[r].key = NoIdentity)
           /\ Respond(k, Refusal) /\ UNCHANGED native
        \/ /\ Owns(k, q) /\ ~rec[r].faulted
           /\ Respond(k, Metadata(r, rec[r].gen, rec[r].key)) /\ UNCHANGED native
        \/ /\ Owns(k, q) /\ rec[r].faulted /\ rec[r].key # NoIdentity
           /\ native' = Closing(rec[r].nat)
           /\ serving' = [serving EXCEPT ![k] = Work("reopen", r)]
           /\ UNCHANGED toClient
  /\ UNCHANGED <<rec, writers, provisional, open, clientVars, owner, up, history>>

\* Mutant: the new native Session is opened without waiting for the old one.
ReopenEarly(k) ==
  /\ serving[k].op = "reopen" /\ FreeNatives # {}
  /\ LET r == serving[k].on
         n == NewOf(FreeNatives)
     IN /\ native' = [native EXCEPT ![n] = [st |-> "open", id |-> rec[r].key]]
        /\ rec' = [rec EXCEPT ![r].nat = n, ![r].gen = @ + 1, ![r].faulted = FALSE, ![r].silent = FALSE]
        /\ strays' = IF Listed(r) THEN strays ELSE strays \cup {n}
        /\ Respond(k, Metadata(r, rec[r].gen + 1, rec[r].key))
  /\ UNCHANGED <<writers, provisional, open, toServer, clientVars, owner, up, faults, dropped>>

\* The old native Session is closed, and the adapter resumes the identity.  The
\* record is not asked again whether it is still in the table.
ReopenDone(k) ==
  /\ serving[k].op = "reopen" /\ native[rec[serving[k].on].nat].st = "closed"
  /\ LET r == serving[k].on
         n == NewOf(FreeNatives)
     IN \/ Faulty /\ Respond(k, Refusal) /\ UNCHANGED <<native, rec, strays>>
        \/ /\ FreeNatives # {} /\ UNCHANGED faults
           /\ native' = [native EXCEPT ![n] = [st |-> "open", id |-> rec[r].key]]
           /\ rec' = [rec EXCEPT ![r].nat = n, ![r].gen = @ + 1, ![r].faulted = FALSE, ![r].silent = FALSE]
           /\ strays' = IF Listed(r) THEN strays ELSE strays \cup {n}
           /\ Respond(k, Metadata(r, rec[r].gen + 1, rec[r].key))
  /\ UNCHANGED <<writers, provisional, open, toServer, clientVars, owner, up, dropped>>

\* The adapter resumed another identity, or a choice of the Session cannot be
\* made again: the new native Session is closed, and the record stays as it was.
ReopenDrops(k) ==
  /\ Faulty
  /\ serving[k].op = "reopen" /\ native[rec[serving[k].on].nat].st = "closed" /\ FreeNatives # {}
  /\ LET n == NewOf(FreeNatives)
     IN /\ \E id \in AnyIdentity : native' = [native EXCEPT ![n] = [st |-> "closing", id |-> id]]
        /\ strays' = strays \cup {n}
        /\ serving' = [serving EXCEPT ![k] = Work("drop", n)]
  /\ UNCHANGED <<rec, writers, provisional, open, toServer, toClient, clientVars, owner, up, dropped>>

\* closeRecord: the record leaves the table, and its native Session is closed.
CloseRecord(S) ==
  /\ rec' = [r \in Records |-> IF r \in S THEN [rec[r] EXCEPT !.st = "closing", !.last = rec[r].nat] ELSE rec[r]]
  /\ native' = [n \in Natives |-> IF n \in {rec[r].nat : r \in S} THEN Closing(n)[n] ELSE native[n]]

TakeClose(k) ==
  /\ Takes(k, "close")
  /\ LET q == Request(k)
     IN \/ ~Owns(k, q) /\ Respond(k, Thrown) /\ UNCHANGED <<rec, native>>
        \/ /\ Owns(k, q)
           /\ CloseRecord({q.rec})
           /\ serving' = [serving EXCEPT ![k] = Work("close", q.rec)]
           /\ UNCHANGED toClient
  /\ UNCHANGED <<writers, provisional, open, clientVars, owner, up, history>>

\* A record that a reopen still holds on to keeps what the reopen needs.
Removed(r) ==
  IF \E k \in Connections : serving[k] = Work("reopen", r) THEN [rec[r] EXCEPT !.st = "removed"] ELSE Gone

\* The native Session is closed, and with it the leases go.
CloseDone(r) ==
  /\ rec[r].st = "closing" /\ native[rec[r].last].st = "closed"
  /\ rec' = [rec EXCEPT ![r] = Removed(r)]
  /\ writers' = WritersWithout(r) /\ provisional' = ProvisionalWithout(r)
  /\ \/ \E k \in Connections : serving[k] = Work("close", r) /\ Respond(k, Metadata(r, 0, NoIdentity))
     \/ (\A k \in Connections : serving[k] # Work("close", r)) /\ UNCHANGED <<serving, toClient>>
  /\ UNCHANGED <<native, open, toServer, clientVars, owner, up, history>>

\* The server sees the end of a connection: requests that wait are dropped, and
\* its records are closed.  The request being handled goes on.
SocketClosed(k) ==
  /\ k \in open /\ k \notin up
  /\ open' = open \ {k}
  /\ toServer' = [toServer EXCEPT ![k] = <<>>]
  /\ CloseRecord({r \in Records : Listed(r) /\ rec[r].conn = k})
  /\ UNCHANGED <<writers, provisional, serving, toClient, clientVars, owner, up, history>>

NativeCloses(n) ==
  /\ native[n].st = "closing"
  /\ native' = [native EXCEPT ![n] = [st |-> "closed", id |-> NoIdentity]]
  /\ UNCHANGED <<rec, writers, provisional, serving, open, clientVars, owner, up, toServer, toClient, history>>

\* The records whose outputs are forwarded.
Current(r) == Listed(r) /\ ~rec[r].silent /\ native[rec[r].nat].st = "open"

\* session.faulted; after an authentication failure the native Session is closed.
Faults(r) ==
  /\ Current(r) /\ ~rec[r].faulted /\ Faulty
  /\ rec' = [rec EXCEPT ![r].faulted = TRUE, ![r].awaiting = "no"]
  /\ provisional' = ProvisionalWithout(r)
  /\ SendTo(rec[r].conn, Frame("fault", r, rec[r].gen, NoIdentity))
  /\ native' \in {native, Closing(rec[r].nat)}
  /\ UNCHANGED <<writers, serving, open, toServer, clientVars, owner, up, strays, dropped>>

\* The outputs throw: the record is faulted, and nobody is told.
OutputsThrow(r) ==
  /\ Current(r) /\ ~rec[r].faulted /\ Faulty
  /\ rec' = [rec EXCEPT ![r].faulted = TRUE, ![r].awaiting = "no", ![r].silent = TRUE]
  /\ provisional' = ProvisionalWithout(r)
  /\ dropped' = dropped \cup {r}
  /\ UNCHANGED <<native, writers, serving, open, clientVars, owner, up, toServer, toClient, strays>>

\* session.state.changed confirms the identity of a create.
Identifies(r) ==
  /\ Current(r) /\ rec[r].key = NoIdentity
  /\ \E id \in {i \in Identities : writers[i] = 0} :
       /\ rec' = [rec EXCEPT ![r].key = id, ![r].awaiting = "no"]
       /\ native' = [native EXCEPT ![rec[r].nat].id = id]
       /\ writers' = [writers EXCEPT ![id] = r] /\ provisional' = ProvisionalWithout(r)
       /\ SendTo(rec[r].conn, Frame("identity", r, rec[r].gen, id))
  /\ UNCHANGED <<serving, open, toServer, clientVars, owner, up, history>>

\* The identity that is confirmed has a writer, or is not the one it was, or is of
\* another Harness or format: the Session is faulted, and its native Session closed.
Misidentifies(r) ==
  /\ Current(r) /\ Faulty
  /\ \E id \in {i \in AnyIdentity : rec[r].key # NoIdentity \/ i = NoIdentity \/ writers[i] # 0} :
       native' = [native EXCEPT ![rec[r].nat] = [st |-> "closing", id |-> id]]
  /\ strays' = strays \cup {rec[r].nat}
  /\ rec' = [rec EXCEPT ![r].faulted = TRUE, ![r].awaiting = "no"]
  /\ provisional' = ProvisionalWithout(r)
  /\ SendTo(rec[r].conn, Frame("fault", r, rec[r].gen, NoIdentity))
  /\ UNCHANGED <<writers, serving, open, toServer, clientVars, owner, up, dropped>>

-----------------------------------------------------------------------------
(* The client.                                                             *)

Idle(c) == call[c] = NoCall

\* The request that is sent for a call.  An open of a known identity resumes it,
\* or makes a fork of it or a Session without its last Turn.
Sends(op, id) ==
  IF op = "open" /\ id # NoIdentity THEN {"open", "fork"}
  ELSE {IF op = "resume" THEN "open" ELSE IF op = "discard" THEN "close" ELSE op}

Ask(c, k, op, r, gen, id) ==
  /\ call' = [call EXCEPT ![c] = [op |-> op, conn |-> k, frame |-> NoFrame]]
  /\ \E sent \in Sends(op, id) :
       toServer' = [toServer EXCEPT ![k] = Append(@, [op |-> sent, rec |-> r, gen |-> gen, id |-> id])]

\* #connect: the connection of the adapter, or a new one when it has none.
Connect(c, k) ==
  IF link[c] # 0 THEN k = link[c] /\ UNCHANGED <<owner, link, up, open>>
  ELSE /\ owner[k] = 0 /\ (\A j \in Connections : owner[j] = 0 => k <= j)
       /\ owner' = [owner EXCEPT ![k] = c]
       /\ link' = [link EXCEPT ![c] = k]
       /\ up' = up \cup {k} /\ open' = open \cup {k}

Unanswered(c) == call[c].op # "none" /\ call[c].frame = NoFrame
Answered(c) == call[c].op # "none" /\ call[c].frame # NoFrame

\* #fail: the requests of the connection are rejected, and its wrapper is told.
FailClient(k) ==
  LET c == owner[k]
      lost == call[c].conn = k
  IN /\ up' = up \ {k} /\ stale' = stale \ {k}
     /\ toClient' = [toClient EXCEPT ![k] = <<>>]
     /\ link' = [link EXCEPT ![c] = IF @ = k THEN 0 ELSE @]
     /\ call' = [call EXCEPT ![c] = IF lost THEN NoCall ELSE @]
     /\ wrapper' = [wrapper EXCEPT ![c] =
          IF lost /\ call[c].op = "close" THEN NoWrapper
          ELSE IF @.conn = k /\ ~@.closed THEN [@ EXCEPT !.faulted = TRUE] ELSE @]

Lost(k) ==
  /\ k \in up /\ ~Answered(owner[k]) /\ Faulty
  /\ FailClient(k)
  /\ UNCHANGED <<serverVars, owner, toServer, strays, dropped>>

\* The caller gives up on a request; only a failed open closes its connection.
Timeout(c) ==
  /\ Unanswered(c) /\ Faulty
  /\ \/ call[c].op = "open" /\ FailClient(call[c].conn)
     \/ /\ call[c].op # "open"
        /\ stale' = stale \cup {call[c].conn}
        /\ call' = [call EXCEPT ![c] = NoCall]
        /\ wrapper' = [wrapper EXCEPT ![c] = IF call[c].op = "close" THEN NoWrapper ELSE @]
        /\ UNCHANGED <<link, up, toClient>>
  /\ UNCHANGED <<serverVars, owner, toServer, strays, dropped>>

\* An output for the Session the wrapper is bound to, of its generation.
Accepts(c, k, f) ==
  /\ wrapper[c].conn = k /\ wrapper[c].rec = f.rec /\ wrapper[c].gen = f.gen
  /\ ~wrapper[c].closed

\* #frame.  The code that awaits the answer to an open or a recovery runs later, and
\* goes on in Opened and Recovered.  A response to nothing that is awaited fails the connection.
Receive(k) ==
  /\ k \in up /\ toClient[k] # <<>>
  /\ LET f == Head(toClient[k])
         c == owner[k]
         output == f.kind \in {"fault", "identity"}
         pop == toClient' = [toClient EXCEPT ![k] = Tail(@)]
     IN \/ /\ output /\ Accepts(c, k, f) /\ pop
           /\ wrapper' = [wrapper EXCEPT ![c] = IF f.kind = "fault" THEN [@ EXCEPT !.faulted = TRUE]
                                                ELSE [@ EXCEPT !.id = f.id]]
           /\ UNCHANGED <<call, link, stale, up, dropped>>
        \/ /\ output /\ ~Accepts(c, k, f) /\ pop
           /\ dropped' = dropped \cup {f.rec}
           /\ UNCHANGED <<clientVars, up>>
        \/ /\ ~output /\ k \notin stale /\ call[c].conn = k /\ pop
           /\ call' = [call EXCEPT ![c] = IF @.op \in {"open", "reopen", "resume"} THEN [@ EXCEPT !.frame = f] ELSE NoCall]
           /\ wrapper' = [wrapper EXCEPT ![c] = IF call[c].op = "close" THEN NoWrapper ELSE @]
           /\ UNCHANGED <<link, stale, up, dropped>>
        \/ /\ ~output /\ (k \in stale \/ call[c].conn # k)
           /\ FailClient(k) /\ UNCHANGED dropped
  /\ UNCHANGED <<serverVars, owner, toServer, faults, strays>>

\* adapter.open: create a native Session, or resume or fork an identity.
OpenCall(c) ==
  /\ Idle(c) /\ wrapper[c] = NoWrapper
  /\ \E k \in Connections, id \in AnyIdentity :
       Connect(c, k) /\ Ask(c, k, "open", 0, 0, id)
  /\ UNCHANGED <<rec, native, writers, provisional, serving, wrapper, stale, toClient, history>>

Opened(c) ==
  /\ Answered(c) /\ call[c].op = "open"
  /\ LET f == call[c].frame
     IN \/ /\ f.kind # "thrown"
           /\ wrapper' = IF f.kind = "error" THEN wrapper
                         ELSE [wrapper EXCEPT ![c] = [conn |-> call[c].conn, rec |-> f.rec, gen |-> f.gen,
                                                      id |-> f.id, faulted |-> FALSE, closed |-> FALSE]]
           /\ call' = [call EXCEPT ![c] = NoCall] /\ UNCHANGED <<link, stale, up, toClient>>
        \/ f.kind = "thrown" /\ FailClient(call[c].conn)
  /\ UNCHANGED <<serverVars, owner, toServer, history>>

\* A Turn of a Session whose identity is not confirmed.  Any other changes nothing
\* here, and is left out.
ExecuteCall(c) ==
  /\ Idle(c) /\ wrapper[c].conn \in up /\ ~wrapper[c].closed /\ wrapper[c].id = NoIdentity
  /\ Ask(c, wrapper[c].conn, "execute", wrapper[c].rec, wrapper[c].gen, NoIdentity)
  /\ UNCHANGED <<serverVars, wrapper, link, stale, owner, up, toClient, history>>

\* A Turn on a faulted wrapper first recovers the Session, on its own connection
\* or by a resume on the adapter's present one.
RecoverCall(c) ==
  /\ Idle(c) /\ wrapper[c].faulted /\ ~wrapper[c].closed /\ wrapper[c].id # NoIdentity
  /\ \/ /\ wrapper[c].conn \in up
        /\ Ask(c, wrapper[c].conn, "reopen", wrapper[c].rec, wrapper[c].gen, NoIdentity)
        /\ UNCHANGED <<owner, link, up, open>>
     \/ /\ wrapper[c].conn \notin up
        /\ \E k \in Connections : Connect(c, k) /\ Ask(c, k, "resume", 0, 0, wrapper[c].id)
  /\ UNCHANGED <<rec, native, writers, provisional, serving, wrapper, stale, toClient, history>>

\* Mutant: a recovery that ends after close still binds the wrapper.
RecoveredAnyway(c) ==
  /\ Answered(c) /\ call[c].op \in {"reopen", "resume"}
  /\ LET f == call[c].frame
         k == call[c].conn
     IN /\ call' = [call EXCEPT ![c] = NoCall] /\ UNCHANGED toServer
        /\ wrapper' = IF f.kind # "ok" \/ wrapper[c].closed THEN wrapper
                      ELSE [wrapper EXCEPT ![c] = [@ EXCEPT !.conn = k, !.rec = f.rec, !.gen = f.gen,
                                                            !.id = f.id, !.faulted = FALSE]]
  /\ UNCHANGED <<serverVars, link, stale, owner, up, toClient, history>>

\* Mutant: a resumed wrapper keeps the Session of its old connection.
RecoveredOnOldSession(c) ==
  /\ Answered(c) /\ call[c].op \in {"reopen", "resume"}
  /\ call' = [call EXCEPT ![c] = NoCall]
  /\ wrapper' = IF call[c].frame.kind # "ok" \/ wrapper[c].closed THEN wrapper
                ELSE [wrapper EXCEPT ![c] = [@ EXCEPT !.conn = call[c].conn, !.faulted = FALSE]]
  /\ UNCHANGED <<serverVars, link, stale, owner, up, toServer, toClient, history>>

\* #recover goes on: the wrapper is bound to the Session it was given, unless it
\* has been closed meanwhile or the identity is another.
Recovered(c) ==
  /\ Answered(c) /\ call[c].op \in {"reopen", "resume"}
  /\ LET f == call[c].frame
         k == call[c].conn
     IN \/ /\ f.kind # "ok"
           /\ call' = [call EXCEPT ![c] = NoCall] /\ UNCHANGED <<wrapper, toServer>>
        \/ /\ f.kind = "ok" /\ ~wrapper[c].closed /\ f.id = wrapper[c].id
           /\ wrapper' = [wrapper EXCEPT ![c] = [@ EXCEPT !.conn = k, !.rec = f.rec, !.gen = f.gen,
                                                          !.id = f.id, !.faulted = FALSE]]
           /\ call' = [call EXCEPT ![c] = NoCall] /\ UNCHANGED toServer
        \/ /\ f.kind = "ok" /\ (wrapper[c].closed \/ f.id # wrapper[c].id)
           /\ Ask(c, k, "discard", f.rec, f.gen, NoIdentity) /\ UNCHANGED wrapper
  /\ UNCHANGED <<serverVars, link, stale, owner, up, toClient, history>>

\* close waits for a recovery, then asks the server; a failure is ignored.
CloseCall(c) ==
  /\ wrapper[c].rec # 0 /\ ~wrapper[c].closed
  /\ Idle(c) \/ (Unanswered(c) /\ call[c].op \in {"reopen", "resume"})
  /\ wrapper' = [wrapper EXCEPT ![c].closed = TRUE]
  /\ UNCHANGED <<serverVars, call, link, stale, owner, up, toServer, toClient, history>>

SendClose(c) ==
  /\ Idle(c) /\ wrapper[c].closed
  /\ \/ /\ wrapper[c].conn \in up
        /\ Ask(c, wrapper[c].conn, "close", wrapper[c].rec, wrapper[c].gen, NoIdentity)
        /\ UNCHANGED wrapper
     \/ /\ wrapper[c].conn \notin up
        /\ wrapper' = [wrapper EXCEPT ![c] = NoWrapper] /\ UNCHANGED <<call, toServer>>
  /\ UNCHANGED <<serverVars, link, stale, owner, up, toClient, history>>

-----------------------------------------------------------------------------
Init ==
  /\ rec = [r \in Records |-> NoRecord]
  /\ native = [n \in Natives |-> [st |-> "unused", id |-> NoIdentity]]
  /\ writers = [i \in Identities |-> 0] /\ provisional = 0
  /\ serving = [k \in Connections |-> NoWork] /\ open = {}
  /\ owner = [k \in Connections |-> 0] /\ up = {}
  /\ toServer = [k \in Connections |-> <<>>] /\ toClient = [k \in Connections |-> <<>>]
  /\ wrapper = [c \in Clients |-> NoWrapper] /\ call = [c \in Clients |-> NoCall]
  /\ link = [c \in Clients |-> 0] /\ stale = {}
  /\ faults = 0 /\ strays = {} /\ dropped = {}

Next ==
  \/ \E k \in Connections : TakeOpen(k) \/ OpenFails(k) \/ OpenDrops(k) \/ DropDone(k) \/ OpenDone(k)
                             \/ TakeExecute(k) \/ TakeReopen(k) \/ ReopenDone(k) \/ ReopenDrops(k) \/ TakeClose(k) \/ SocketClosed(k)
                             \/ Receive(k) \/ Lost(k)
  \/ \E r \in Records : CloseDone(r) \/ Faults(r) \/ OutputsThrow(r) \/ Identifies(r) \/ Misidentifies(r)
  \/ \E n \in Natives : NativeCloses(n)
  \/ \E c \in Clients : Opened(c) \/ Recovered(c) \/ SendClose(c) \/ OpenCall(c) \/ ExecuteCall(c)
                         \/ RecoverCall(c) \/ CloseCall(c) \/ Timeout(c)

Spec == Init /\ [][Next]_vars

-----------------------------------------------------------------------------
TypeOK ==
  /\ rec \in [Records -> [st : {"free", "opening", "listed", "closing", "removed"}, conn : {0} \cup Connections,
                         nat : {0} \cup Natives, gen : Nat, key : AnyIdentity,
                         awaiting : {"no", "claim", "turn"}, faulted : BOOLEAN, silent : BOOLEAN, last : {0} \cup Natives,
                         fork : BOOLEAN]]
  /\ native \in [Natives -> [st : {"unused", "open", "closing", "closed"}, id : AnyIdentity]]
  /\ writers \in [Identities -> {0} \cup Records] /\ provisional \in {0} \cup Records
  /\ serving \in [Connections -> [op : {"none", "open", "reopen", "close", "drop"}, on : {0} \cup Records \cup Natives]]
  /\ owner \in [Connections -> {0} \cup Clients]
  /\ up \subseteq open /\ open \subseteq {k \in Connections : owner[k] # 0} /\ stale \subseteq up
  /\ wrapper \in [Clients -> [conn : {0} \cup Connections, rec : {0} \cup Records, gen : Nat,
                              id : AnyIdentity, faulted : BOOLEAN, closed : BOOLEAN]]
  /\ link \in [Clients -> {0} \cup up]
  /\ faults \in 0..MaxFaults /\ strays \subseteq Natives /\ dropped \subseteq Records

\* Native Sessions that may write.
Writing == {n \in Natives : native[n].st \in {"open", "closing"} /\ native[n].id # NoIdentity}

\* Each native identity has at most one native Session that may write.  Violated:
\* see OneWriterBesideStrays.
OneNativeWriter == \A m, n \in Writing : m # n => native[m].id # native[n].id

\* Through timeouts, recoveries, forks, lost connections and wrong identities the
\* leases keep each identity with one native Session, beside those that the
\* server is about to close or that a reopening got for a closed connection.
OneWriterBesideStrays == \A m, n \in Writing \ strays : m # n => native[m].id # native[n].id

\* A lease is held by exactly the records that need it: none is left behind by a
\* record that is gone, and none is missing while a native Session may write.
LeasesMatchRecords ==
  LET held == {r \in Records : rec[r].st \in {"opening", "listed", "closing"}}
      claims == {r \in held : IF rec[r].st = "opening" THEN rec[r].key = NoIdentity ELSE rec[r].awaiting # "no"}
  IN /\ \A i \in Identities, r \in Records : writers[i] = r <=> r \in held /\ rec[r].key = i
     /\ \A r \in Records : provisional = r <=> r \in claims

\* A wrapper that thinks it is usable, with nothing under way, is bound to a
\* Session the server lists, of the present generation and not faulted, and
\* knows its identity; but for a Session of which the wrapper missed an output.
WrapperFollowsRecord ==
  \A c \in Clients :
    LET w == wrapper[c]
    IN Idle(c) /\ w.conn \in up /\ ~w.faulted /\ ~w.closed /\ toClient[w.conn] = <<>> /\ w.rec \notin dropped
       => /\ Listed(w.rec) /\ rec[w.rec].conn = w.conn /\ rec[w.rec].gen = w.gen
          /\ ~rec[w.rec].faulted /\ rec[w.rec].key = w.id

\* When nothing is under way on a connection, each Session the server lists for
\* it is the one its wrapper is bound to: what a timed-out or an overtaken
\* recovery opened has been closed. What a connection had is given up once the
\* server has seen it closed, an open that was under way included.
NoSessionIsForgotten ==
  \A r \in Records :
    LET k == rec[r].conn
        c == owner[k]
    IN /\ Listed(r) => k \in open
       /\ (/\ Listed(r) /\ k \in up \ stale /\ Idle(c)
           /\ serving[k] = NoWork /\ toServer[k] = <<>> /\ toClient[k] = <<>>)
          => wrapper[c].rec = r /\ wrapper[c].conn = k

\* Violated: a native Session that is open is that of a listed record, so that
\* closing the client closes it.
NoNativeIsForgotten ==
  \A n \in Natives : native[n].st = "open" => \E r \in Records : Listed(r) /\ rec[r].nat = n
=============================================================================
