------------------------- MODULE HarnessBroker_proofs -------------------------
(***************************************************************************)
(* What the broker keeps, for any clients, connections, opens and faults:   *)
(* the leases are those of the records that need them, and an identity has  *)
(* one native writer beside those that no record vouches for.  What is on   *)
(* the way between the two ends accounts for the difference between what    *)
(* they know of a Session.                                                  *)
(***************************************************************************)
EXTENDS HarnessBroker, SequenceTheorems, TLAPS

Requests == [op : {"open", "fork", "execute", "reopen", "close"}, rec : {0} \cup Records, gen : Nat, id : AnyIdentity]
AnyFrame == [kind : {"none", "ok", "error", "thrown", "fault", "identity"},
             rec : {0} \cup Records, gen : Nat, id : AnyIdentity]
Frames == {f \in AnyFrame : f.kind \in {"ok", "fault", "identity"} => f.rec \in Records}
Wrappers == [conn : {0} \cup Connections, rec : {0} \cup Records, gen : Nat,
             id : AnyIdentity, faulted : BOOLEAN, closed : BOOLEAN]
CallOps == {"none", "open", "execute", "reopen", "resume", "close", "discard"}

\* What is on the way has the form of a request or of a frame.
Queues ==
  /\ toServer \in [Connections -> Seq(Requests)]
  /\ toClient \in [Connections -> Seq(Frames)]
  /\ call \in [Clients -> [op : CallOps, conn : {0} \cup Connections, frame : Frames]]

\* A client uses connections of its own, and awaits answers on those that are up.
Linked ==
  \A c \in Clients :
    /\ link[c] # 0 => owner[link[c]] = c
    /\ wrapper[c].conn # 0 => owner[wrapper[c].conn] = c
    /\ call[c].op # "none" => call[c].conn \in up /\ owner[call[c].conn] = c

\* A request being handled is about a record of its connection, or about a native
\* Session to be closed; no other request opens that record, and only a record with
\* an identity is reopened.
ServesOne(k) ==
  LET r == serving[k].on
  IN /\ serving[k].op \notin {"none", "drop"} => r \in Records /\ rec[r].conn = k
     /\ serving[k].op = "open" => rec[r].st = "opening"
     /\ serving[k].op = "reopen" => rec[r].st \in {"listed", "closing", "removed"} /\ rec[r].key # NoIdentity
     /\ serving[k].op = "close" => rec[r].st = "closing"
Serves == \A k \in Connections : ServesOne(k)

\* A native Session belongs to one record.
Holds ==
  /\ \A r \in Records :
       /\ rec[r].nat # 0 => native[rec[r].nat].st # "unused"
       /\ rec[r].last # 0 => native[rec[r].last].st # "unused"
       /\ Listed(r) => rec[r].nat # 0 /\ rec[r].conn \in open
       /\ rec[r].st = "closing" => rec[r].nat # 0 /\ rec[r].last # 0
       /\ rec[r].st = "free" => rec[r] = NoRecord
  /\ \A r, q \in Records : r # q /\ rec[r].nat = rec[q].nat => rec[r].nat = 0

\* A native Session that may write is that of a record that holds its identity, or a
\* stray. The Session that a closing record waits for is its own, or it has a stray.
Backed ==
  /\ \A n \in Natives \ strays : native[n].st \in {"open", "closing"} =>
       \E r \in Records : rec[r].st \in {"listed", "closing"} /\ rec[r].nat = n /\ rec[r].key = native[n].id
  /\ \A r \in Records : rec[r].st = "closing" => rec[r].last = rec[r].nat \/ rec[r].nat \in strays

Inv == Queues /\ Linked /\ Serves /\ Holds /\ Backed /\ LeasesMatchRecords
IInv == TypeOK /\ Inv

-----------------------------------------------------------------------------
(* Constants, queues and choices. *)

LEMMA ConstantFacts ==
  /\ Natives \subseteq Nat \ {0} /\ Records \subseteq Nat \ {0} /\ Connections \subseteq Nat \ {0}
  /\ NoIdentity \notin Identities
BY BrokerAssumption DEF Natives, Records, Connections

LEMMA FrameFacts ==
  /\ NoFrame \in Frames /\ Refusal \in Frames /\ Thrown \in Frames
  /\ \A r \in Records, g \in Nat, x \in AnyIdentity, kind \in {"ok", "fault", "identity"} :
       /\ Frame(kind, r, g, x) \in Frames /\ Frame(kind, r, g, x).id = x
       /\ Metadata(r, g, x) \in Frames /\ Metadata(r, g, x).id = x
  /\ NoFrame.id = NoIdentity /\ Refusal.id = NoIdentity /\ Thrown.id = NoIdentity
BY DEF NoFrame, Refusal, Thrown, Frame, Metadata, Frames, AnyFrame, AnyIdentity

LEMMA NewOfFacts == ASSUME NEW S, S # {} PROVE NewOf(S) \in S
BY DEF NewOf

LEMMA TailIn ==
  ASSUME NEW S, NEW q \in Seq(S), q # <<>>
  PROVE  Head(q) \in S /\ Tail(q) \in Seq(S)
OBVIOUS

\* A frame that is sent.
LEMMA Sending ==
  ASSUME Queues, NEW k \in Connections, NEW f \in Frames, SendTo(k, f)
  PROVE  toClient' \in [Connections -> Seq(Frames)]
<1>1. toClient \in [Connections -> Seq(Frames)] /\ Append(toClient[k], f) \in Seq(Frames)
  BY DEF Queues
<1> QED BY <1>1 DEF SendTo

\* A request that the server takes.
LEMMA Taking ==
  ASSUME Queues, NEW k \in Connections, NEW op, Takes(k, op)
  PROVE  Request(k) \in Requests /\ toServer' \in [Connections -> Seq(Requests)]
<1>1. toServer \in [Connections -> Seq(Requests)] /\ toServer[k] # <<>>
  BY DEF Queues, Takes
<1>2. Head(toServer[k]) \in Requests /\ Tail(toServer[k]) \in Seq(Requests)
  BY <1>1, TailIn
<1> QED BY <1>1, <1>2 DEF Takes, Request

\* A request that a client makes.
LEMMA Asking ==
  ASSUME Queues, NEW c \in Clients, NEW k \in Connections, NEW op \in CallOps \ {"none"},
         NEW r \in {0} \cup Records, NEW gen \in Nat, NEW id \in AnyIdentity, Ask(c, k, op, r, gen, id)
  PROVE  /\ call' \in [Clients -> [op : CallOps, conn : {0} \cup Connections, frame : Frames]]
         /\ toServer' \in [Connections -> Seq(Requests)]
<1>1. PICK sent \in Sends(op, id) :
        toServer' = [toServer EXCEPT ![k] = Append(@, [op |-> sent, rec |-> r, gen |-> gen, id |-> id])]
  BY DEF Ask
<1> DEFINE e == [op |-> sent, rec |-> r, gen |-> gen, id |-> id]
<1>2. toServer \in [Connections -> Seq(Requests)] /\ e \in Requests
  BY DEF Queues, Requests, CallOps, Sends
<1> HIDE DEF e
<1>3. Append(toServer[k], e) \in Seq(Requests)
  BY <1>2
<1>4. toServer' = [toServer EXCEPT ![k] = Append(@, e)]
  BY <1>1 DEF e
<1>5. call' \in [Clients -> [op : CallOps, conn : {0} \cup Connections, frame : Frames]]
  BY FrameFacts DEF Queues, Ask
<1> QED BY <1>2, <1>3, <1>4, <1>5

-----------------------------------------------------------------------------
(* The clients: the server's state is as it was, but for new connections.  *)

LEMMA ServerKept ==
  ASSUME TypeOK, Serves, Holds, Backed, LeasesMatchRecords,
         UNCHANGED <<rec, native, writers, provisional, serving, strays>>, open \subseteq open'
  PROVE  Serves' /\ Holds' /\ Backed' /\ LeasesMatchRecords'
<1>1. Serves'
  BY DEF Serves, ServesOne
<1>2. Holds'
  BY DEF Holds, Listed
<1>3. Backed'
  BY DEF Backed
<1>4. LeasesMatchRecords'
  BY DEF LeasesMatchRecords
<1> QED BY <1>1, <1>2, <1>3, <1>4

LEMMA FailingKeeps ==
  ASSUME IInv, NEW k \in up, FailClient(k), faults' \in 0..MaxFaults,
         UNCHANGED <<serverVars, owner, toServer, strays>>, dropped' \subseteq Records
  PROVE  IInv'
<1> USE DEF IInv, Inv
<1> DEFINE c == owner[k]
<1>1. /\ k \in Connections /\ c \in Clients
      /\ \A d \in Clients : link[d] \in {0} \cup up /\ (link[d] # 0 => owner[link[d]] = d)
      /\ wrapper[c].conn # 0 => owner[wrapper[c].conn] = c
  BY DEF TypeOK, Linked
<1>2. UNCHANGED <<rec, native, writers, provisional, serving, open>>
  BY DEF serverVars
<1>3. Serves' /\ Holds' /\ Backed' /\ LeasesMatchRecords'
  BY <1>2, ServerKept
<1>4. /\ NoWrapper.id = NoIdentity /\ NoCall.frame.id = NoIdentity /\ NoWrapper.conn = 0 /\ NoCall.op = "none"
      /\ NoCall \in [op : CallOps, conn : {0} \cup Connections, frame : Frames]
      /\ NoWrapper \in Wrappers
  BY FrameFacts DEF NoWrapper, NoCall, NoFrame, CallOps, AnyIdentity, Wrappers
<1>5. /\ call' \in [Clients -> [op : CallOps, conn : {0} \cup Connections, frame : Frames]]
      /\ call'[c] \in {NoCall, call[c]} /\ (call[c].conn = k => call'[c] = NoCall)
      /\ \A d \in Clients : d # c => call'[d] = call[d]
  BY <1>1, <1>4 DEF Queues, FailClient
<1>6. /\ wrapper' \in [Clients -> Wrappers]
      /\ wrapper'[c].conn \in {0, wrapper[c].conn} /\ wrapper'[c].id \in {NoIdentity, wrapper[c].id}
      /\ \A d \in Clients : d # c => wrapper'[d] = wrapper[d]
  <2>1. wrapper \in [Clients -> Wrappers]
    BY DEF TypeOK, Wrappers, AnyIdentity
  <2>2. PICK w \in Wrappers : /\ w.conn \in {0, wrapper[c].conn} /\ w.id \in {NoIdentity, wrapper[c].id}
                              /\ wrapper' = [wrapper EXCEPT ![c] = w]
    <3>1. wrapper[c] \in Wrappers
      BY <1>1, <2>1
    <3>2. [wrapper[c] EXCEPT !.faulted = TRUE] \in Wrappers
      BY <3>1 DEF Wrappers
    <3>3. /\ [wrapper[c] EXCEPT !.faulted = TRUE].conn = wrapper[c].conn
          /\ [wrapper[c] EXCEPT !.faulted = TRUE].id = wrapper[c].id
      BY <3>1 DEF Wrappers
    <3> QED BY <1>4, <2>1, <3>1, <3>2, <3>3 DEF FailClient
  <2> QED BY <1>1, <2>1, <2>2
<1>7. toClient' \in [Connections -> Seq(Frames)]
  <2>1. toClient' = [toClient EXCEPT ![k] = <<>>] /\ <<>> \in Seq(Frames)
    BY DEF FailClient
  <2> QED BY <1>1, <2>1 DEF Queues
<1>8. link' \in [Clients -> {0} \cup up'] /\ up' = up \ {k} /\ stale' = stale \ {k}
      /\ \A d \in Clients : link'[d] \in {0, link[d]}
  BY <1>1 DEF TypeOK, FailClient
<1>9. TypeOK'
  BY <1>2, <1>6, <1>8 DEF TypeOK, AnyIdentity, Wrappers
<1>10. Queues'
  BY <1>5, <1>7 DEF Queues
<1>11. Linked'
  <2> SUFFICES ASSUME NEW d \in Clients
               PROVE  /\ link'[d] # 0 => owner[link'[d]] = d
                      /\ wrapper'[d].conn # 0 => owner[wrapper'[d].conn] = d
                      /\ call'[d].op # "none" => call'[d].conn \in up' /\ owner[call'[d].conn] = d
    BY DEF Linked
  <2>1. link'[d] # 0 => owner[link'[d]] = d
    BY <1>1, <1>8
  <2>2. wrapper'[d].conn # 0 => owner[wrapper'[d].conn] = d
    BY <1>4, <1>6 DEF Linked, TypeOK
  <2>3. call'[d].op # "none" => call'[d].conn \in up' /\ owner[call'[d].conn] = d
    BY <1>4, <1>5, <1>8 DEF Linked
  <2> QED BY <2>1, <2>2, <2>3
<1> QED BY <1>3, <1>9, <1>10, <1>11

LEMMA LostKeeps == ASSUME IInv, NEW k \in Connections, Lost(k) PROVE IInv'
<1>1. faults' \in 0..MaxFaults
  BY BrokerAssumption DEF Lost, Faulty, IInv, TypeOK
<1>2. UNCHANGED <<serverVars, owner, toServer, strays>> /\ dropped' \subseteq Records /\ k \in up /\ FailClient(k)
  BY DEF Lost, IInv, TypeOK
<1> QED BY <1>1, <1>2, FailingKeeps

LEMMA TimeoutKeeps == ASSUME IInv, NEW c \in Clients, Timeout(c) PROVE IInv'
<1> USE DEF IInv, Inv
<1>1. faults' \in 0..MaxFaults
  BY BrokerAssumption DEF Timeout, Faulty, TypeOK
<1>2. /\ UNCHANGED <<serverVars, owner, toServer, strays, dropped>>
      /\ UNCHANGED <<rec, native, writers, provisional, serving, open>> /\ dropped' \subseteq Records
  BY DEF Timeout, TypeOK, serverVars
<1>3. call[c].conn \in up
  BY DEF Timeout, Unanswered, Linked
<1>4. CASE call[c].op = "open" /\ FailClient(call[c].conn)
  BY <1>1, <1>2, <1>3, <1>4, FailingKeeps
<1>5. CASE /\ call[c].op # "open"
           /\ stale' = stale \cup {call[c].conn}
           /\ call' = [call EXCEPT ![c] = NoCall]
           /\ wrapper' = [wrapper EXCEPT ![c] = IF call[c].op = "close" THEN NoWrapper ELSE @]
           /\ UNCHANGED <<link, up, toClient>>
  <2>1. /\ NoWrapper.id = NoIdentity /\ NoCall.frame.id = NoIdentity /\ NoWrapper.conn = 0 /\ NoCall.op = "none"
        /\ NoCall \in [op : CallOps, conn : {0} \cup Connections, frame : Frames]
        /\ NoWrapper \in Wrappers
    BY FrameFacts DEF NoWrapper, NoCall, NoFrame, CallOps, AnyIdentity, Wrappers
  <2>2. Serves' /\ Holds' /\ Backed' /\ LeasesMatchRecords'
    BY <1>2, ServerKept
  <2>3. TypeOK'
    BY <1>1, <1>2, <1>3, <1>5, <2>1 DEF TypeOK, AnyIdentity, Wrappers
  <2>4. Queues'
    BY <1>2, <1>5, <2>1 DEF Queues
  <2>5. Linked'
    BY <1>2, <1>5, <2>1 DEF Linked, TypeOK, Queues
  <2> QED BY <2>2, <2>3, <2>4, <2>5
<1> QED BY <1>4, <1>5 DEF Timeout

\* The connection that a client gets is its own.
LEMMA Connecting ==
  ASSUME TypeOK, Linked, NEW c \in Clients, NEW k \in Connections, Connect(c, k)
  PROVE  /\ owner' \in [Connections -> {0} \cup Clients] /\ owner'[k] = c /\ k \in up'
         /\ \A j \in Connections : owner[j] # 0 => owner'[j] = owner[j]
         /\ up \subseteq up' /\ open \subseteq open' /\ up' \subseteq open' /\ open' \subseteq {j \in Connections : owner'[j] # 0}
         /\ link' \in [Clients -> {0} \cup up'] /\ \A d \in Clients : d # c => link'[d] = link[d]
         /\ link'[c] = k
<1>1. 0 \notin Clients
  BY BrokerAssumption
<1>2. CASE link[c] # 0
  BY <1>1, <1>2 DEF Connect, TypeOK, Linked
<1>3. CASE link[c] = 0
  <2>1. /\ owner[k] = 0
        /\ owner' = [owner EXCEPT ![k] = c] /\ link' = [link EXCEPT ![c] = k]
        /\ up' = up \cup {k} /\ open' = open \cup {k}
    BY <1>3 DEF Connect
  <2> QED BY <1>1, <1>3, <2>1 DEF TypeOK
<1> QED BY <1>2, <1>3

LEMMA AskKeeps ==
  ASSUME IInv, NEW c \in Clients, NEW k \in Connections, NEW op \in CallOps \ {"none"},
         NEW r \in {0} \cup Records, NEW g \in Nat, NEW id \in AnyIdentity, Ask(c, k, op, r, g, id),
         (k \in up /\ owner[k] = c /\ UNCHANGED <<owner, link, up, open>>) \/ Connect(c, k),
         UNCHANGED <<rec, native, writers, provisional, serving, wrapper, stale, toClient, history>>
  PROVE  IInv'
<1> USE DEF IInv, Inv
<1>1. /\ call' \in [Clients -> [op : CallOps, conn : {0} \cup Connections, frame : Frames]]
      /\ toServer' \in [Connections -> Seq(Requests)]
  BY Asking
<1>2. /\ owner' \in [Connections -> {0} \cup Clients] /\ owner'[k] = c /\ k \in up'
      /\ \A j \in Connections : owner[j] # 0 => owner'[j] = owner[j]
      /\ up \subseteq up' /\ open \subseteq open' /\ up' \subseteq open' /\ open' \subseteq {j \in Connections : owner'[j] # 0}
      /\ link' \in [Clients -> {0} \cup up'] /\ \A d \in Clients : d # c => link'[d] = link[d]
      /\ link'[c] # 0 => owner'[link'[c]] = c
  <2>1. CASE k \in up /\ owner[k] = c /\ UNCHANGED <<owner, link, up, open>>
    BY <2>1 DEF TypeOK, Linked
  <2>2. CASE Connect(c, k)
    BY <2>2, Connecting
  <2> QED BY <2>1, <2>2
<1>3. /\ call'[c].op = op /\ call'[c].conn = k
      /\ \A d \in Clients : d # c => call'[d] = call[d]
  BY FrameFacts DEF Ask, Queues
<1>4. UNCHANGED <<faults, strays, dropped>>
  BY DEF history
<1>5. TypeOK'
  BY <1>2, <1>4 DEF TypeOK
<1>6. Queues'
  BY <1>1 DEF Queues
<1>7. Linked'
  <2>1. \A d \in Clients : (owner[call[d].conn] = d /\ call[d].op # "none") => owner'[call[d].conn] = d
    BY <1>2, BrokerAssumption DEF Linked, TypeOK
  <2>2. \A d \in Clients : link[d] # 0 => owner'[link[d]] = d
    BY <1>2, BrokerAssumption DEF Linked, TypeOK
  <2>3. \A d \in Clients : wrapper[d].conn # 0 => owner'[wrapper[d].conn] = d
    <3> TAKE d \in Clients
    <3>1. wrapper[d].conn \in {0} \cup Connections
      BY DEF TypeOK
    <3> QED BY <3>1, <1>2, BrokerAssumption DEF Linked
  <2> QED BY <1>2, <1>3, <2>1, <2>2, <2>3 DEF Linked
<1>8. Serves' /\ Holds' /\ Backed' /\ LeasesMatchRecords'
  BY <1>2, <1>4, ServerKept
<1> QED BY <1>5, <1>6, <1>7, <1>8

\* Only the wrapper and the call of one client change.
LEMMA BindingKeeps ==
  ASSUME IInv, NEW c \in Clients, NEW w \in Wrappers, NEW a \in {call[c], NoCall},
         wrapper' = [wrapper EXCEPT ![c] = w], call' = [call EXCEPT ![c] = a],
         w.conn # 0 => owner[w.conn] = c,
         UNCHANGED <<serverVars, link, stale, owner, up, toServer, toClient, history>>
  PROVE  IInv'
<1> USE DEF IInv, Inv
<1>1. /\ NoCall.op = "none"
      /\ NoCall \in [op : CallOps, conn : {0} \cup Connections, frame : Frames]
  BY FrameFacts DEF NoCall, CallOps
<1>2. UNCHANGED <<rec, native, writers, provisional, serving, open, faults, strays, dropped>>
  BY DEF serverVars, history
<1>3. Serves' /\ Holds' /\ Backed' /\ LeasesMatchRecords'
  BY <1>2, ServerKept
<1>4. TypeOK'
  BY <1>2 DEF TypeOK, AnyIdentity, Wrappers
<1>5. Queues'
  BY <1>1 DEF Queues
<1>6. /\ wrapper'[c] = w /\ call'[c] = a
      /\ \A d \in Clients : d # c => wrapper'[d] = wrapper[d] /\ call'[d] = call[d]
  BY DEF TypeOK, Queues
<1>7. Linked'
  BY <1>1, <1>6 DEF Linked
<1> QED BY <1>3, <1>4, <1>5, <1>7

LEMMA OpenCallKeeps == ASSUME IInv, NEW c \in Clients, OpenCall(c) PROVE IInv'
<1>1. PICK k \in Connections, id \in AnyIdentity : Connect(c, k) /\ Ask(c, k, "open", 0, 0, id)
  BY DEF OpenCall
<1>2. "open" \in CallOps \ {"none"} /\ 0 \in {0} \cup Records /\ 0 \in Nat
  BY DEF CallOps
<1>3. UNCHANGED <<rec, native, writers, provisional, serving, wrapper, stale, toClient, history>>
  BY DEF OpenCall
<1> QED BY <1>1, <1>2, <1>3, AskKeeps

LEMMA WrapperFacts ==
  ASSUME IInv, NEW c \in Clients
  PROVE  /\ wrapper \in [Clients -> Wrappers]
         /\ wrapper[c].rec \in {0} \cup Records /\ wrapper[c].gen \in Nat /\ wrapper[c].id \in AnyIdentity
         /\ wrapper[c].conn # 0 => owner[wrapper[c].conn] = c
         /\ wrapper[c].conn \in up => wrapper[c].conn \in Connections /\ owner[wrapper[c].conn] = c
         /\ call[c].op # "none" => call[c].conn \in up /\ owner[call[c].conn] = c /\ call[c].conn \in Connections
         /\ call[c].frame \in Frames
<1>1. wrapper \in [Clients -> Wrappers]
  BY DEF IInv, TypeOK, Wrappers, AnyIdentity
<1>2. up \subseteq Connections /\ 0 \notin up
  BY ConstantFacts DEF IInv, TypeOK
<1> QED BY <1>1, <1>2 DEF IInv, Inv, Linked, Queues, Wrappers

LEMMA ExecuteCallKeeps == ASSUME IInv, NEW c \in Clients, ExecuteCall(c) PROVE IInv'
<1>1. NoIdentity \in AnyIdentity /\ "execute" \in CallOps \ {"none"}
  BY DEF AnyIdentity, CallOps
<1> DEFINE k == wrapper[c].conn
           r == wrapper[c].rec
           g == wrapper[c].gen
<1>2. UNCHANGED <<owner, link, up, open>>
  BY DEF ExecuteCall, serverVars
<1>3. UNCHANGED <<rec, native, writers, provisional, serving, wrapper, stale, toClient, history>>
  BY DEF ExecuteCall, serverVars
<1>4. k \in up /\ Ask(c, k, "execute", r, g, NoIdentity)
  BY DEF ExecuteCall
<1>5. k \in Connections /\ owner[k] = c /\ r \in {0} \cup Records /\ g \in Nat
  BY <1>4, WrapperFacts
<1> HIDE DEF k, r, g
<1> QED BY <1>1, <1>2, <1>3, <1>4, <1>5, AskKeeps

LEMMA RecoverCallKeeps == ASSUME IInv, NEW c \in Clients, RecoverCall(c) PROVE IInv'
<1>1. /\ NoIdentity \in AnyIdentity /\ {"reopen", "resume"} \subseteq CallOps \ {"none"}
      /\ 0 \in {0} \cup Records /\ 0 \in Nat
  BY DEF AnyIdentity, CallOps
<1>2. UNCHANGED <<rec, native, writers, provisional, serving, wrapper, stale, toClient, history>>
  BY DEF RecoverCall
<1>3. CASE /\ wrapper[c].conn \in up
           /\ Ask(c, wrapper[c].conn, "reopen", wrapper[c].rec, wrapper[c].gen, NoIdentity)
           /\ UNCHANGED <<owner, link, up, open>>
  <2> DEFINE k == wrapper[c].conn
             r == wrapper[c].rec
             g == wrapper[c].gen
  <2>1. k \in Connections /\ owner[k] = c /\ r \in {0} \cup Records /\ g \in Nat
    BY <1>3, WrapperFacts
  <2>2. k \in up /\ Ask(c, k, "reopen", r, g, NoIdentity) /\ UNCHANGED <<owner, link, up, open>>
    BY <1>3
  <2> HIDE DEF k, r, g
  <2> QED BY <1>1, <1>2, <2>1, <2>2, AskKeeps
<1>4. CASE \E k \in Connections : Connect(c, k) /\ Ask(c, k, "resume", 0, 0, wrapper[c].id)
  BY <1>1, <1>2, <1>4, WrapperFacts, AskKeeps
<1> QED BY <1>3, <1>4 DEF RecoverCall

LEMMA CloseCallKeeps == ASSUME IInv, NEW c \in Clients, CloseCall(c) PROVE IInv'
<1> DEFINE w == [wrapper[c] EXCEPT !.closed = TRUE]
<1>0. wrapper[c] \in Wrappers
  BY WrapperFacts
<1>1. w \in Wrappers /\ w.conn = wrapper[c].conn /\ w.id = wrapper[c].id
  BY <1>0 DEF Wrappers
<1>4. wrapper[c].conn # 0 => owner[wrapper[c].conn] = c
  BY WrapperFacts
<1>2. wrapper' = [wrapper EXCEPT ![c] = w] /\ call' = [call EXCEPT ![c] = call[c]]
  BY WrapperFacts DEF CloseCall, IInv, Inv, Queues
<1>3. UNCHANGED <<serverVars, link, stale, owner, up, toServer, toClient, history>>
  BY DEF CloseCall
<1>5. w.conn # 0 => owner[w.conn] = c
  BY <1>1, <1>4
<1> HIDE DEF w
<1> QED BY <1>1, <1>2, <1>3, <1>5, BindingKeeps

LEMMA SendCloseKeeps == ASSUME IInv, NEW c \in Clients, SendClose(c) PROVE IInv'
<1>1. UNCHANGED <<serverVars, link, stale, owner, up, toClient, history>>
  BY DEF SendClose
<1>2. CASE /\ wrapper[c].conn \in up
           /\ Ask(c, wrapper[c].conn, "close", wrapper[c].rec, wrapper[c].gen, NoIdentity)
           /\ UNCHANGED wrapper
  <2>1. NoIdentity \in AnyIdentity /\ "close" \in CallOps \ {"none"}
    BY DEF AnyIdentity, CallOps
  <2> DEFINE k == wrapper[c].conn
             r == wrapper[c].rec
             g == wrapper[c].gen
  <2>2. k \in Connections /\ owner[k] = c /\ r \in {0} \cup Records /\ g \in Nat
    BY <1>2, WrapperFacts
  <2>3. k \in up /\ Ask(c, k, "close", r, g, NoIdentity) /\ UNCHANGED <<owner, link, up, open>>
    BY <1>1, <1>2 DEF serverVars
  <2>4. UNCHANGED <<rec, native, writers, provisional, serving, wrapper, stale, toClient, history>>
    BY <1>1, <1>2 DEF serverVars
  <2> HIDE DEF k, r, g
  <2> QED BY <2>1, <2>2, <2>3, <2>4, AskKeeps
<1>3. CASE wrapper' = [wrapper EXCEPT ![c] = NoWrapper] /\ UNCHANGED <<call, toServer>>
  <2>1. /\ NoWrapper \in Wrappers /\ NoWrapper.conn = 0 /\ NoWrapper.id = NoIdentity
       
    BY ConstantFacts DEF NoWrapper, Wrappers, AnyIdentity
  <2>2. call' = [call EXCEPT ![c] = call[c]]
    BY <1>3 DEF IInv, Inv, Queues
  <2> QED BY <1>1, <1>3, <2>1, <2>2, BindingKeeps
<1> QED BY <1>2, <1>3 DEF SendClose

LEMMA OpenedKeeps == ASSUME IInv, NEW c \in Clients, Opened(c) PROVE IInv'
<1> DEFINE f == call[c].frame
           w == [conn |-> call[c].conn, rec |-> f.rec, gen |-> f.gen, id |-> f.id, faulted |-> FALSE, closed |-> FALSE]
<1>1. UNCHANGED <<serverVars, owner, toServer, history>> /\ call[c].op = "open"
  BY DEF Opened
<1>2. /\ f \in Frames /\ call[c].conn \in Connections /\ call[c].conn \in up /\ owner[call[c].conn] = c
  BY <1>1, WrapperFacts
<1>3. w \in Wrappers /\ w.conn = call[c].conn /\ w.id = f.id
  BY <1>2 DEF Wrappers, Frames, AnyFrame
<1>4. CASE f.kind = "thrown" /\ FailClient(call[c].conn)
  <2>1. faults' \in 0..MaxFaults /\ UNCHANGED strays /\ dropped' \subseteq Records
    BY <1>1 DEF IInv, TypeOK, history
  <2> QED BY <1>1, <1>2, <1>4, <2>1, FailingKeeps
<1>5. CASE /\ f.kind # "thrown"
           /\ wrapper' = IF f.kind = "error" THEN wrapper ELSE [wrapper EXCEPT ![c] = w]
           /\ call' = [call EXCEPT ![c] = NoCall] /\ UNCHANGED <<link, stale, up, toClient>>
  <2>1. \/ wrapper' = [wrapper EXCEPT ![c] = wrapper[c]]
        \/ wrapper' = [wrapper EXCEPT ![c] = w]
    BY <1>5, WrapperFacts
  <2>2. wrapper[c] \in Wrappers
    BY WrapperFacts
  <2>3. wrapper[c].conn # 0 => owner[wrapper[c].conn] = c
    BY WrapperFacts
  <2>4. UNCHANGED <<serverVars, link, stale, owner, up, toServer, toClient, history>>
    BY <1>1, <1>5
  <2>5. w.conn # 0 => owner[w.conn] = c
    BY <1>2, <1>3
  <2>6. call' = [call EXCEPT ![c] = NoCall] /\ w \in Wrappers
    BY <1>3, <1>5
  <2> HIDE DEF w, f
  <2>7. CASE wrapper' = [wrapper EXCEPT ![c] = wrapper[c]]
    BY <2>2, <2>3, <2>4, <2>6, <2>7, BindingKeeps
  <2>8. CASE wrapper' = [wrapper EXCEPT ![c] = w]
    BY <2>4, <2>5, <2>6, <2>8, BindingKeeps
  <2> QED BY <2>1, <2>7, <2>8
<1> QED BY <1>4, <1>5 DEF Opened

LEMMA RecoveredKeeps == ASSUME IInv, NEW c \in Clients, Recovered(c) PROVE IInv'
<1> DEFINE f == call[c].frame
           k == call[c].conn
           w == [wrapper[c] EXCEPT !.conn = k, !.rec = f.rec, !.gen = f.gen, !.id = f.id, !.faulted = FALSE]
<1>1. UNCHANGED <<serverVars, link, stale, owner, up, toClient, history>> /\ call[c].op # "none"
  BY DEF Recovered
<1>2. /\ f \in Frames /\ k \in Connections /\ k \in up /\ owner[k] = c
  BY <1>1, WrapperFacts
<1>3. wrapper[c] \in Wrappers
  BY WrapperFacts
<1>4. w \in Wrappers /\ w.conn = k /\ w.id = f.id
  BY <1>2, <1>3 DEF Wrappers, Frames, AnyFrame
<1>5. CASE call' = [call EXCEPT ![c] = NoCall] /\ UNCHANGED <<wrapper, toServer>>
  <2>1. wrapper' = [wrapper EXCEPT ![c] = wrapper[c]]
    BY <1>5, WrapperFacts
  <2>2. wrapper[c].conn # 0 => owner[wrapper[c].conn] = c
    BY WrapperFacts
  <2>3. UNCHANGED <<serverVars, link, stale, owner, up, toServer, toClient, history>>
    BY <1>1, <1>5
  <2> QED BY <1>3, <1>5, <2>1, <2>2, <2>3, BindingKeeps
<1>6. CASE wrapper' = [wrapper EXCEPT ![c] = w] /\ call' = [call EXCEPT ![c] = NoCall] /\ UNCHANGED toServer
  <2> HIDE DEF w
  <2> QED BY <1>1, <1>2, <1>4, <1>6, BindingKeeps
<1>7. CASE Ask(c, k, "discard", f.rec, f.gen, NoIdentity) /\ UNCHANGED wrapper
  <2>1. NoIdentity \in AnyIdentity /\ "discard" \in CallOps \ {"none"}
    BY DEF AnyIdentity, CallOps
  <2>2. UNCHANGED <<rec, native, writers, provisional, serving, open>>
    BY <1>1 DEF serverVars
  <2>3. f.rec \in {0} \cup Records /\ f.gen \in Nat
    BY <1>2 DEF Frames, AnyFrame
  <2> HIDE DEF f, k
  <2> QED BY <1>1, <1>2, <1>7, <2>1, <2>2, <2>3, AskKeeps
<1> QED BY <1>5, <1>6, <1>7 DEF Recovered

LEMMA ReceiveKeeps == ASSUME IInv, NEW k \in Connections, Receive(k) PROVE IInv'
<1> USE DEF IInv, Inv
<1> DEFINE f == Head(toClient[k])
           c == owner[k]
           failed == FailClient(k) /\ UNCHANGED dropped
<1>1. k \in up /\ c \in Clients /\ toClient[k] # <<>>
  BY DEF Receive, TypeOK
<1>2. f \in Frames /\ Tail(toClient[k]) \in Seq(Frames)
  BY <1>1, TailIn DEF Queues
<1>3. UNCHANGED <<serverVars, owner, toServer, faults, strays>>
  BY DEF Receive
<1>4. CASE failed
  <2>1. faults' \in 0..MaxFaults /\ dropped' \subseteq Records
    BY <1>3, <1>4 DEF TypeOK
  <2> QED BY <1>1, <1>3, <1>4, <2>1, FailingKeeps
<1>5. CASE /\ toClient' = [toClient EXCEPT ![k] = Tail(@)]
           /\ UNCHANGED <<link, stale, up>>
           /\ \E w \in Wrappers, a \in [op : CallOps, conn : {0} \cup Connections, frame : Frames] :
                /\ wrapper' = [wrapper EXCEPT ![c] = w] /\ call' = [call EXCEPT ![c] = a]
                /\ w.conn \in {0, wrapper[c].conn}
                /\ a.op # "none" => a.op = call[c].op /\ a.conn = call[c].conn
           /\ dropped' \subseteq Records
  <2>1. PICK w \in Wrappers, a \in [op : CallOps, conn : {0} \cup Connections, frame : Frames] :
          /\ wrapper' = [wrapper EXCEPT ![c] = w] /\ call' = [call EXCEPT ![c] = a]
          /\ w.conn \in {0, wrapper[c].conn}
          /\ a.op # "none" => a.op = call[c].op /\ a.conn = call[c].conn
    BY <1>5
  <2>2. UNCHANGED <<rec, native, writers, provisional, serving, open>>
    BY <1>3 DEF serverVars
  <2>3. Serves' /\ Holds' /\ Backed' /\ LeasesMatchRecords'
    BY <1>3, <2>2, ServerKept
  <2>4. toClient' \in [Connections -> Seq(Frames)]
    BY <1>2, <1>5 DEF Queues
  <2>5. /\ wrapper'[c] = w /\ call'[c] = a
        /\ \A d \in Clients : d # c => wrapper'[d] = wrapper[d] /\ call'[d] = call[d]
    BY <1>1, <2>1 DEF TypeOK, Queues
  <2>6. TypeOK'
    BY <1>3, <1>5, <2>1, <2>2 DEF TypeOK, AnyIdentity, Wrappers
  <2>7. Queues'
    BY <1>3, <2>1, <2>4 DEF Queues
  <2>8. Linked'
    BY <1>1, <1>3, <1>5, <2>1, <2>5 DEF Linked
  <2> QED BY <2>3, <2>6, <2>7, <2>8
<1>6. wrapper[c] \in Wrappers /\ call[c] \in [op : CallOps, conn : {0} \cup Connections, frame : Frames]
  BY <1>1, WrapperFacts DEF Queues
<1>7. /\ wrapper = [wrapper EXCEPT ![c] = wrapper[c]]
      /\ call = [call EXCEPT ![c] = call[c]]
  BY <1>1 DEF TypeOK, Queues
<1>8. CASE f.kind \in {"fault", "identity"} /\ Accepts(c, k, f) /\ ~failed
  <2> DEFINE w == IF f.kind = "fault" THEN [wrapper[c] EXCEPT !.faulted = TRUE] ELSE [wrapper[c] EXCEPT !.id = f.id]
  <2>1. w \in Wrappers /\ w.conn = wrapper[c].conn
    BY <1>2, <1>6 DEF Wrappers, Frames, AnyFrame
  <2>2. /\ wrapper' = [wrapper EXCEPT ![c] = w]
        /\ UNCHANGED <<call, link, stale, up, dropped>> /\ toClient' = [toClient EXCEPT ![k] = Tail(@)]
    BY <1>8 DEF Receive
  <2>3. dropped' \subseteq Records
    BY <2>2 DEF TypeOK
  <2> HIDE DEF w, f, c
  <2> QED BY <1>5, <1>6, <1>7, <2>1, <2>2, <2>3
<1>9. CASE f.kind \in {"fault", "identity"} /\ ~Accepts(c, k, f) /\ ~failed
  <2>1. /\ UNCHANGED <<wrapper, call, link, stale, up>> /\ toClient' = [toClient EXCEPT ![k] = Tail(@)]
        /\ dropped' = dropped \cup {f.rec}
    BY <1>9 DEF Receive, clientVars
  <2>2. f.rec \in Records
    BY <1>2, <1>9 DEF Frames, AnyFrame
  <2>3. dropped' \subseteq Records
    BY <2>1, <2>2 DEF TypeOK
  <2> HIDE DEF f, c
  <2> QED BY <1>5, <1>6, <1>7, <2>1, <2>3
<1>10. CASE f.kind \notin {"fault", "identity"} /\ ~failed
  <2> DEFINE a == IF call[c].op \in {"open", "reopen", "resume"} THEN [call[c] EXCEPT !.frame = f] ELSE NoCall
             w == IF call[c].op = "close" THEN NoWrapper ELSE wrapper[c]
  <2>1. /\ NoWrapper \in Wrappers /\ NoWrapper.conn = 0
        /\ NoCall.op = "none"
        /\ NoCall \in [op : CallOps, conn : {0} \cup Connections, frame : Frames]
    BY FrameFacts DEF NoWrapper, Wrappers, AnyIdentity, NoCall, CallOps
  <2>2. w \in Wrappers /\ w.conn \in {0, wrapper[c].conn}
    BY <1>6, <2>1
  <2>3. /\ a \in [op : CallOps, conn : {0} \cup Connections, frame : Frames]
        /\ a.op # "none" => a.op = call[c].op /\ a.conn = call[c].conn
    BY <1>2, <1>6, <2>1
  <2>4. /\ wrapper' = [wrapper EXCEPT ![c] = w] /\ call' = [call EXCEPT ![c] = a]
        /\ UNCHANGED <<link, stale, up, dropped>> /\ toClient' = [toClient EXCEPT ![k] = Tail(@)]
    BY <1>10 DEF Receive
  <2>5. dropped' \subseteq Records
    BY <2>4 DEF TypeOK
  <2> HIDE DEF w, a, f, c
  <2> QED BY <1>5, <2>2, <2>3, <2>4, <2>5
<1> QED BY <1>4, <1>8, <1>9, <1>10, Zenon

-----------------------------------------------------------------------------
(* The server.                                                             *)

RecTypes == [st : {"free", "opening", "listed", "closing", "removed"}, conn : {0} \cup Connections,
             nat : {0} \cup Natives, gen : Nat, key : AnyIdentity,
             awaiting : {"no", "claim", "turn"}, faulted : BOOLEAN, silent : BOOLEAN, last : {0} \cup Natives,
             fork : BOOLEAN]
NativeTypes == [st : {"unused", "open", "closing", "closed"}, id : AnyIdentity]
WorkTypes == [op : {"none", "open", "reopen", "close", "drop"}, on : {0} \cup Records \cup Natives]

LEMMA ServerTypes ==
  ASSUME TypeOK
  PROVE  /\ rec \in [Records -> RecTypes] /\ native \in [Natives -> NativeTypes]
         /\ writers \in [Identities -> {0} \cup Records] /\ provisional \in {0} \cup Records
         /\ serving \in [Connections -> WorkTypes] /\ NoWork \in WorkTypes
BY DEF TypeOK, RecTypes, NativeTypes, WorkTypes, AnyIdentity, NoWork, Work

\* The clients are as they were.
LEMMA ClientKept ==
  ASSUME TypeOK, UNCHANGED <<clientVars, owner, up>>, open' = open,
         rec' \in [Records -> RecTypes], native' \in [Natives -> NativeTypes],
         writers' \in [Identities -> {0} \cup Records], provisional' \in {0} \cup Records,
         serving' \in [Connections -> WorkTypes],
         faults' \in 0..MaxFaults, strays' \subseteq Natives, dropped' \subseteq Records
  PROVE  TypeOK'
BY DEF TypeOK, clientVars, RecTypes, NativeTypes, WorkTypes, AnyIdentity

LEMMA LinkedKept == ASSUME Linked, UNCHANGED <<clientVars, owner, up>> PROVE Linked'
BY DEF Linked, clientVars

LEMMA Responding ==
  ASSUME TypeOK, Queues, NEW k \in Connections, NEW f \in Frames, Respond(k, f)
  PROVE  /\ toClient' \in [Connections -> Seq(Frames)]
         /\ serving' \in [Connections -> WorkTypes] /\ serving'[k] = NoWork
         /\ \A j \in Connections : j # k => serving'[j] = serving[j]
BY Sending, ServerTypes DEF Respond

\* The work of the other connections goes on.
LEMMA ServesKept ==
  ASSUME TypeOK, Serves, NEW k \in Connections, serving'[k] = NoWork \/ ServesOne(k)',
         \A j \in Connections : j # k => serving'[j] = serving[j],
         \A r \in Records : rec[r].conn # k /\ rec[r].st # "free" => rec'[r] = rec[r]
  PROVE  Serves'
<1> SUFFICES ASSUME NEW j \in Connections PROVE ServesOne(j)'
  BY DEF Serves
<1>1. CASE j = k
  BY <1>1 DEF ServesOne, NoWork, Work
<1>2. CASE j # k
  <2>1. ServesOne(j) /\ serving'[j] = serving[j]
    BY <1>2 DEF Serves
  <2>2. CASE serving[j].op \in {"none", "drop"}
    BY <2>1, <2>2 DEF ServesOne
  <2>3. CASE serving[j].op \notin {"none", "drop"}
    <3> DEFINE r == serving[j].on
    <3>1. r \in Records /\ rec[r].conn = j /\ serving[j].op \in {"open", "reopen", "close"}
      BY <2>1, <2>3, ServerTypes DEF ServesOne, WorkTypes
    <3>2. rec'[r] = rec[r]
      BY <1>2, <2>1, <3>1 DEF ServesOne
    <3> QED BY <2>1, <3>1, <3>2 DEF ServesOne
  <2> QED BY <2>2, <2>3
<1> QED BY <1>1, <1>2

\* A request is answered, and nothing else of the server changes.
LEMMA AnswerKeeps ==
  ASSUME IInv, NEW k \in Connections, NEW f \in Frames, Respond(k, f),
         toServer' \in [Connections -> Seq(Requests)], faults' \in 0..MaxFaults,
         UNCHANGED <<rec, native, writers, provisional, open, clientVars, owner, up, strays, dropped>>
  PROVE  IInv'
<1> USE DEF IInv, Inv
<1>1. UNCHANGED <<wrapper, call>>
  BY DEF clientVars
<1>2. /\ toClient' \in [Connections -> Seq(Frames)]
      /\ serving' \in [Connections -> WorkTypes] /\ serving'[k] = NoWork
      /\ \A j \in Connections : j # k => serving'[j] = serving[j]
  BY Responding
<1>3. TypeOK'
  BY <1>1, <1>2, ServerTypes, ClientKept DEF TypeOK
<1>4. Queues' /\ Linked'
  BY <1>1, <1>2, LinkedKept DEF Queues
<1>5. Serves'
  BY <1>2, ServesKept
<1>6. Holds' /\ Backed' /\ LeasesMatchRecords'
  BY <1>1 DEF Holds, Listed, Backed, LeasesMatchRecords
<1> QED BY <1>3, <1>4, <1>5, <1>6

LEMMA RefusalKeeps ==
  ASSUME IInv, NEW k \in Connections, NEW f \in {Refusal, Thrown}, Respond(k, f),
         toServer' \in [Connections -> Seq(Requests)],
         UNCHANGED <<rec, native, writers, provisional, open, clientVars, owner, up, history>>
  PROVE  IInv'
<1>1. f \in Frames
  BY FrameFacts
<1>2. faults' \in 0..MaxFaults /\ UNCHANGED <<strays, dropped>>
  BY DEF history, IInv, TypeOK
<1> QED BY <1>1, <1>2, AnswerKeeps

LEMMA TakeOpenKeeps == ASSUME IInv, NEW k \in Connections, TakeOpen(k) PROVE IInv'
<1> USE DEF IInv, Inv
<1> DEFINE id == Request(k).id
           r == NewOf(FreeRecords)
<1>1. /\ Request(k) \in Requests /\ k \in Connections
      /\ toServer' \in [Connections -> Seq(Requests)]
  BY Taking DEF TakeOpen
<1>2. UNCHANGED <<native, open, clientVars, owner, up, history>> /\ k \in open
  BY DEF TakeOpen, Takes
<1>3. CASE Respond(k, Refusal) /\ UNCHANGED <<rec, writers, provisional>>
  BY <1>1, <1>2, <1>3, RefusalKeeps
<1>4. CASE /\ ~Busy(id) /\ FreeRecords # {}
           /\ rec' = [rec EXCEPT ![r].st = "opening", ![r].conn = k, ![r].key = id,
                                 ![r].fork = (Request(k).op = "fork")]
           /\ writers' = [i \in Identities |-> IF i = id THEN r ELSE writers[i]]
           /\ provisional' = IF id = NoIdentity THEN r ELSE provisional
           /\ serving' = [serving EXCEPT ![k] = Work("open", r)]
           /\ UNCHANGED toClient
  <2>1. r \in Records /\ rec[r] = NoRecord
    BY <1>4, NewOfFacts DEF FreeRecords, Holds
  <2>2. id \in AnyIdentity
    BY <1>1 DEF Requests
  <2> HIDE DEF r, id
  <2>3. /\ rec' \in [Records -> RecTypes]
        /\ rec'[r].st = "opening" /\ rec'[r].conn = k /\ rec'[r].key = id
        /\ rec'[r].nat = 0 /\ rec'[r].last = 0 /\ rec'[r].awaiting = "no"
        /\ \A q \in Records : q # r => rec'[q] = rec[q]
    <3>1. rec \in [Records -> RecTypes]
      BY ServerTypes
    <3>2. rec[r].nat = 0 /\ rec[r].last = 0 /\ rec[r].awaiting = "no"
      BY <2>1 DEF NoRecord
    <3> DEFINE fork == (Request(k).op = "fork")
               e == [rec[r] EXCEPT !.st = "opening", !.conn = k, !.key = id, !.fork = fork]
    <3>3. rec' = [rec EXCEPT ![r] = e]
      BY <1>4, <2>1, <3>1, Zenon
    <3>0. fork \in BOOLEAN
      OBVIOUS
    <3> HIDE DEF fork
    <3>4. e \in RecTypes /\ rec' \in [Records -> RecTypes]
      <4>1. rec[r] \in RecTypes
        BY <2>1, <3>1
      <4>2. e \in RecTypes
        BY <2>2, <3>0, <4>1 DEF RecTypes
      <4> QED BY <2>1, <3>1, <3>3, <4>2
    <3>5. /\ e.st = "opening" /\ e.conn = k /\ e.key = id
          /\ e.nat = 0 /\ e.last = 0 /\ e.awaiting = "no"
      BY <2>1, <3>1, <3>2 DEF RecTypes
    <3> HIDE DEF e
    <3> QED BY <2>1, <3>1, <3>3, <3>4, <3>5
  <2>4. UNCHANGED <<wrapper, call, faults, strays, dropped>>
    BY <1>2 DEF clientVars, history
  <2>5. /\ writers' \in [Identities -> {0} \cup Records] /\ provisional' \in {0} \cup Records
        /\ serving' \in [Connections -> WorkTypes]
        /\ serving'[k] = Work("open", r) /\ \A j \in Connections : j # k => serving'[j] = serving[j]
    BY <1>4, <2>1, ServerTypes DEF WorkTypes, Work
  <2>6. TypeOK'
    BY <1>2, <2>3, <2>4, <2>5, ServerTypes, ClientKept DEF TypeOK
  <2>7. Queues' /\ Linked'
    BY <1>1, <1>2, <1>4, <2>4, LinkedKept DEF Queues
  <2>8. rec[r].st = "free" /\ rec[r].nat = 0 /\ rec[r].key = NoIdentity
    BY <2>1 DEF NoRecord
  <2>9. Serves'
    <3>1. ServesOne(k)'
      BY <2>1, <2>3, <2>5 DEF ServesOne, Work
    <3> QED BY <2>3, <2>5, <2>8, <3>1, ServesKept
  <2>10. Holds'
    BY <1>2, <2>1, <2>3, <2>8 DEF Holds, Listed
  <2>14. Backed'
    BY <1>2, <2>1, <2>3, <2>4, <2>8 DEF Backed
  <2>15. provisional = 0 /\ (id # NoIdentity => writers[id] = 0)
    BY <1>4 DEF Busy
  <2>16. LeasesMatchRecords'
    BY <1>4, <2>1, <2>2, <2>3, <2>8, <2>15, ConstantFacts DEF LeasesMatchRecords, AnyIdentity
  <2> QED BY <2>6, <2>7, <2>9, <2>10, <2>14, <2>16
<1> QED BY <1>3, <1>4 DEF TakeOpen

\* A native Session that is opened and not kept is closed, beside the others.
Fresh ==
  /\ native' \in [Natives -> NativeTypes] /\ strays \subseteq strays' /\ strays' \subseteq Natives
  /\ \A n \in Natives : \/ native'[n] = native[n]
                        \/ native[n].st = "unused" /\ native'[n].st # "unused" /\ n \in strays'

LEMMA FreshDrop ==
  ASSUME TypeOK, FreeNatives # {}, NEW id \in AnyIdentity, strays' = strays \cup {NewOf(FreeNatives)},
         native' = [native EXCEPT ![NewOf(FreeNatives)] = [st |-> "closing", id |-> id]]
  PROVE  Fresh /\ NewOf(FreeNatives) \in Natives
<1> DEFINE n == NewOf(FreeNatives)
<1>1. n \in Natives /\ native[n].st = "unused"
  BY NewOfFacts DEF FreeNatives
<1>2. [st |-> "closing", id |-> id] \in NativeTypes
  BY DEF NativeTypes
<1>3. native \in [Natives -> NativeTypes] /\ strays \subseteq Natives
  BY ServerTypes DEF TypeOK
<1> HIDE DEF n
<1>4. native' = [native EXCEPT ![n] = [st |-> "closing", id |-> id]] /\ strays' = strays \cup {n}
  BY DEF n
<1>5. Fresh
  BY <1>1, <1>2, <1>3, <1>4 DEF Fresh
<1> QED BY <1>1, <1>5 DEF n

LEMMA FreshBacked ==
  ASSUME Backed, Fresh,
         \A q \in Records : rec[q].st \in {"listed", "closing"} => rec'[q] = rec[q],
         \A q \in Records : rec'[q].st = "closing" => rec[q].st = "closing"
  PROVE  Backed'
<1>1. ASSUME NEW n \in Natives \ strays', native'[n].st \in {"open", "closing"}
      PROVE  \E q \in Records : rec'[q].st \in {"listed", "closing"} /\ rec'[q].nat = n /\ rec'[q].key = native'[n].id
  <2>1. native'[n] = native[n] /\ n \in Natives \ strays
    BY <1>1 DEF Fresh
  <2>2. PICK q \in Records : rec[q].st \in {"listed", "closing"} /\ rec[q].nat = n /\ rec[q].key = native[n].id
    BY <1>1, <2>1 DEF Backed
  <2> QED BY <2>1, <2>2
<1>2. \A q \in Records : rec'[q].st = "closing" => rec'[q].last = rec'[q].nat \/ rec'[q].nat \in strays'
  BY DEF Backed, Fresh
<1> QED BY <1>1, <1>2 DEF Backed

\* An open ends without a Session, and its reservations are released.
LEMMA OpenEndsKeeps ==
  ASSUME IInv, NEW k \in Connections, serving[k].op = "open", Fresh,
         rec' = [rec EXCEPT ![serving[k].on] = Gone],
         writers' = WritersWithout(serving[k].on), provisional' = ProvisionalWithout(serving[k].on),
         toClient' \in [Connections -> Seq(Frames)],
         serving' \in [Connections -> WorkTypes], serving'[k].op \in {"none", "drop"},
         \A j \in Connections : j # k => serving'[j] = serving[j],
         faults' \in 0..MaxFaults, UNCHANGED <<open, toServer, clientVars, owner, up, dropped>>
  PROVE  IInv'
<1> USE DEF IInv, Inv
<1> DEFINE r == serving[k].on
<1>1. r \in Records /\ rec[r].conn = k /\ rec[r].st = "opening"
  BY DEF Serves, ServesOne
<1>2. /\ rec' \in [Records -> RecTypes] /\ \A q \in Records : q # r => rec'[q] = rec[q]
      /\ rec'[r].st = "removed" /\ rec'[r].key = NoIdentity /\ rec'[r].nat = 0 /\ rec'[r].last = 0
  <2>1. Gone \in RecTypes /\ Gone.st = "removed" /\ Gone.key = NoIdentity /\ Gone.nat = 0 /\ Gone.last = 0
    BY DEF Gone, NoRecord, RecTypes, AnyIdentity
  <2> QED BY <1>1, <2>1, ServerTypes
<1>3. /\ \A n \in Natives : native'[n].st = "unused" => native[n].st = "unused"
      /\ native' \in [Natives -> NativeTypes] /\ strays' \subseteq Natives
  BY DEF Fresh
<1> HIDE DEF r
<1>4. writers' = [i \in Identities |-> IF writers[i] = r THEN 0 ELSE writers[i]]
      /\ provisional' = IF provisional = r THEN 0 ELSE provisional
  BY DEF WritersWithout, ProvisionalWithout, r
<1>5. writers' \in [Identities -> {0} \cup Records] /\ provisional' \in {0} \cup Records
  BY <1>4, ServerTypes
<1>6. ServesOne(k)'
  BY DEF ServesOne
<1>7. UNCHANGED <<wrapper, call>>
  BY DEF clientVars
<1>8. TypeOK'
  BY <1>2, <1>3, <1>5, ClientKept DEF TypeOK
<1>9. Queues' /\ Linked'
  BY <1>7, LinkedKept DEF Queues
<1>10. Serves'
  BY <1>1, <1>2, <1>6, ServesKept
<1>11. Holds'
  <2>1. \A q \in Records : rec[q].nat \in {0} \cup Natives /\ rec[q].last \in {0} \cup Natives
    BY ServerTypes DEF RecTypes
  <2> QED BY <1>1, <1>2, <1>3, <2>1 DEF Holds, Listed
<1>12. Backed'
  BY <1>1, <1>2, FreshBacked
<1>13. LeasesMatchRecords'
  BY <1>1, <1>2, <1>4, ConstantFacts DEF LeasesMatchRecords
<1> QED BY <1>8, <1>9, <1>10, <1>11, <1>12, <1>13

LEMMA OpenFailsKeeps == ASSUME IInv, NEW k \in Connections, OpenFails(k) PROVE IInv'
<1>1. PICK f \in Frames : Respond(k, f)
  BY FrameFacts DEF OpenFails
<1>2. /\ toClient' \in [Connections -> Seq(Frames)]
      /\ serving' \in [Connections -> WorkTypes] /\ serving'[k] = NoWork
      /\ \A j \in Connections : j # k => serving'[j] = serving[j]
  BY <1>1, Responding DEF IInv, Inv
<1>3. Fresh
  BY ServerTypes DEF OpenFails, Fresh, IInv, TypeOK
<1>4. faults' \in 0..MaxFaults
  BY BrokerAssumption DEF OpenFails, Faulty, IInv, TypeOK
<1>5. /\ serving[k].op = "open" /\ rec' = [rec EXCEPT ![serving[k].on] = Gone]
      /\ writers' = WritersWithout(serving[k].on) /\ provisional' = ProvisionalWithout(serving[k].on)
      /\ UNCHANGED <<open, toServer, clientVars, owner, up, dropped>>
  BY DEF OpenFails
<1>6. serving'[k].op \in {"none", "drop"}
  BY <1>2 DEF NoWork, Work
<1> QED BY <1>2, <1>3, <1>4, <1>5, <1>6, OpenEndsKeeps

LEMMA OpenDropsKeeps == ASSUME IInv, NEW k \in Connections, OpenDrops(k) PROVE IInv'
<1> DEFINE n == NewOf(FreeNatives)
<1>1. PICK id \in AnyIdentity : native' = [native EXCEPT ![n] = [st |-> "closing", id |-> id]]
  BY DEF OpenDrops
<1>2. Fresh /\ n \in Natives
  BY <1>1, FreshDrop DEF OpenDrops, IInv
<1>3. faults' \in 0..MaxFaults
  BY BrokerAssumption DEF OpenDrops, Faulty, IInv, TypeOK
<1>4. /\ serving[k].op = "open" /\ rec' = [rec EXCEPT ![serving[k].on] = Gone]
      /\ writers' = WritersWithout(serving[k].on) /\ provisional' = ProvisionalWithout(serving[k].on)
      /\ serving' = [serving EXCEPT ![k] = Work("drop", n)]
      /\ UNCHANGED <<open, toServer, toClient, clientVars, owner, up, dropped>>
  BY DEF OpenDrops
<1>5. toClient' \in [Connections -> Seq(Frames)]
  BY <1>4 DEF IInv, Inv, Queues
<1> HIDE DEF n
<1>6. /\ serving' \in [Connections -> WorkTypes] /\ serving'[k].op \in {"none", "drop"}
      /\ \A j \in Connections : j # k => serving'[j] = serving[j]
  BY <1>2, <1>4, ServerTypes DEF IInv, WorkTypes, Work
<1> QED BY <1>2, <1>3, <1>4, <1>5, <1>6, OpenEndsKeeps

LEMMA DropDoneKeeps == ASSUME IInv, NEW k \in Connections, DropDone(k) PROVE IInv'
<1>1. Respond(k, Refusal) /\ UNCHANGED <<rec, native, writers, provisional, open, clientVars, owner, up, history>>
  BY DEF DropDone
<1>2. toServer' \in [Connections -> Seq(Requests)]
  BY DEF DropDone, IInv, Inv, Queues
<1> QED BY <1>1, <1>2, RefusalKeeps

LEMMA OpenDoneKeeps == ASSUME IInv, NEW k \in Connections, OpenDone(k) PROVE IInv'
<1> USE DEF IInv, Inv
<1> DEFINE r == serving[k].on
           n == NewOf(FreeNatives)
<1>1. /\ serving[k].op = "open" /\ k \in open /\ n \in FreeNatives
      /\ UNCHANGED <<open, toServer, clientVars, owner, up, history>>
  BY NewOfFacts DEF OpenDone
<1>2. r \in Records /\ rec[r].conn = k /\ rec[r].st = "opening" /\ rec[r].key \in AnyIdentity
  BY <1>1, ServerTypes DEF Serves, ServesOne, RecTypes
<1>3. n \in Natives /\ native[n].st = "unused" /\ n # 0
  BY <1>1, ConstantFacts DEF FreeNatives
<1>4. PICK id \in AnyIdentity :
          /\ Suits(r, id)
          /\ native' = [native EXCEPT ![n] = [st |-> "open", id |-> id]]
          /\ rec' = [rec EXCEPT ![r].st = "listed", ![r].nat = n, ![r].key = id, ![r].fork = FALSE,
                                ![r].awaiting = IF id = NoIdentity THEN "claim" ELSE "no"]
          /\ writers' = WritersMoved(r, id)
          /\ provisional' = IF id = NoIdentity THEN provisional ELSE ProvisionalWithout(r)
          /\ Respond(k, Metadata(r, 1, id))
  BY DEF OpenDone
<1>5. /\ id \in Identities => writers[id] \in {0, r}
      /\ id = NoIdentity => rec[r].key = NoIdentity
  BY <1>4, ConstantFacts DEF Suits
<1> HIDE DEF r, n
<1>6. /\ rec' \in [Records -> RecTypes] /\ \A q \in Records : q # r => rec'[q] = rec[q]
      /\ rec'[r].st = "listed" /\ rec'[r].key = id /\ rec'[r].nat = n /\ rec'[r].last = rec[r].last
      /\ rec'[r].conn = k /\ rec'[r].awaiting = IF id = NoIdentity THEN "claim" ELSE "no"
  <2> DEFINE e == [rec[r] EXCEPT !.st = "listed", !.nat = n, !.key = id, !.fork = FALSE,
                                 !.awaiting = IF id = NoIdentity THEN "claim" ELSE "no"]
  <2>1. rec \in [Records -> RecTypes] /\ rec[r] \in RecTypes
    BY <1>2, ServerTypes
  <2>2. e \in RecTypes
    BY <1>3, <1>5, <2>1 DEF RecTypes
  <2>3. /\ e.st = "listed" /\ e.key = id /\ e.nat = n /\ e.last = rec[r].last
        /\ e.conn = k /\ e.awaiting = IF id = NoIdentity THEN "claim" ELSE "no"
    BY <1>2, <2>1 DEF RecTypes
  <2>4. rec' = [rec EXCEPT ![r] = e]
    BY <1>2, <1>4, <2>1, Zenon
  <2> HIDE DEF e
  <2> QED BY <1>2, <2>1, <2>2, <2>3, <2>4
<1>7. /\ native' \in [Natives -> NativeTypes] /\ native'[n].st = "open" /\ native'[n].id = id
      /\ \A m \in Natives : m # n => native'[m] = native[m]
  BY <1>3, <1>4, <1>5, ServerTypes DEF NativeTypes
<1>8. /\ writers' \in [Identities -> {0} \cup Records] /\ provisional' \in {0} \cup Records
      /\ writers' = [i \in Identities |-> IF i = id THEN r ELSE IF writers[i] = r THEN 0 ELSE writers[i]]
      /\ provisional' = IF id # NoIdentity /\ provisional = r THEN 0 ELSE provisional
  BY <1>2, <1>4, ServerTypes DEF ProvisionalWithout, WritersMoved
<1>9. Metadata(r, 1, id) \in Frames /\ Metadata(r, 1, id).id = id
  BY <1>2, <1>5, FrameFacts
<1>10. /\ toClient' \in [Connections -> Seq(Frames)]
       /\ serving' \in [Connections -> WorkTypes] /\ serving'[k] = NoWork
       /\ \A j \in Connections : j # k => serving'[j] = serving[j]
  BY <1>4, <1>9, Responding
<1>11. UNCHANGED <<wrapper, call, faults, strays, dropped>>
  BY <1>1 DEF clientVars, history
<1>12. TypeOK'
  BY <1>1, <1>6, <1>7, <1>8, <1>10, <1>11, ClientKept DEF TypeOK
<1>13. Queues' /\ Linked'
  BY <1>1, <1>10, <1>11, LinkedKept DEF Queues
<1>14. Serves'
  BY <1>2, <1>6, <1>10, ServesKept
<1>15. \A q \in Records : rec[q].nat # n /\ rec[q].last # n /\ rec[q].nat \in {0} \cup Natives /\ rec[q].last \in {0} \cup Natives
  BY <1>3, ServerTypes DEF Holds, RecTypes
<1>16. Holds'
  BY <1>1, <1>2, <1>3, <1>6, <1>7, <1>15 DEF Holds, Listed
<1>19. Backed'
  BY <1>2, <1>3, <1>6, <1>7, <1>11, <1>15 DEF Backed
<1>21. LeasesMatchRecords'
  <2> SUFFICES /\ \A i \in Identities, q \in Records :
                    writers'[i] = q <=> rec'[q].st \in {"opening", "listed", "closing"} /\ rec'[q].key = i
               /\ \A q \in Records : provisional' = q <=>
                    /\ rec'[q].st \in {"opening", "listed", "closing"}
                    /\ IF rec'[q].st = "opening" THEN rec'[q].key = NoIdentity ELSE rec'[q].awaiting # "no"
    BY DEF LeasesMatchRecords
  <2>1. \A i \in Identities, q \in Records :
          writers'[i] = q <=> rec'[q].st \in {"opening", "listed", "closing"} /\ rec'[q].key = i
    <3> TAKE i \in Identities, q \in Records
    <3>1. writers[i] = q <=> rec[q].st \in {"opening", "listed", "closing"} /\ rec[q].key = i
      BY DEF LeasesMatchRecords
    <3>2. CASE q = r
      BY <1>2, <1>6, <1>8, <3>2, ConstantFacts
    <3>3. CASE q # r
      BY <1>2, <1>5, <1>6, <1>8, <3>1, <3>3, ConstantFacts
    <3> QED BY <3>2, <3>3
  <2>2. \A q \in Records : provisional' = q <=>
          /\ rec'[q].st \in {"opening", "listed", "closing"}
          /\ IF rec'[q].st = "opening" THEN rec'[q].key = NoIdentity ELSE rec'[q].awaiting # "no"
    <3>1. provisional = r <=> rec[r].key = NoIdentity
      BY <1>2 DEF LeasesMatchRecords
    <3>2. id = NoIdentity => rec[r].key = NoIdentity
      BY <1>5
    <3> QED BY <1>2, <1>6, <1>8, <3>1, <3>2, ConstantFacts DEF LeasesMatchRecords
  <2> QED BY <2>1, <2>2
<1> QED BY <1>12, <1>13, <1>14, <1>16, <1>19, <1>21

\* What a record is for stays as it was.
LEMMA HoldsKept ==
  ASSUME Holds, open' = open,
         \A q \in Records : rec[q].nat \in {0} \cup Natives /\ rec[q].last \in {0} \cup Natives,
         \A q \in Records : /\ rec'[q].st = rec[q].st /\ rec'[q].conn = rec[q].conn /\ rec'[q].nat = rec[q].nat
                            /\ rec'[q].last = rec[q].last /\ (rec[q].st = "free" => rec'[q] = rec[q]),
         \A n \in Natives : native'[n].st = "unused" => native[n].st = "unused"
  PROVE  Holds'
BY DEF Holds, Listed

LEMMA BackedKept ==
  ASSUME Backed, strays \subseteq strays',
         \A q \in Records : /\ rec'[q].st = rec[q].st /\ rec'[q].nat = rec[q].nat
                            /\ rec'[q].key = rec[q].key /\ rec'[q].last = rec[q].last,
         \A n \in Natives \ strays' : /\ native'[n].id = native[n].id
                                      /\ native'[n].st \in {"open", "closing"} => native[n].st \in {"open", "closing"}
  PROVE  Backed'
BY DEF Backed

LEMMA TouchKeeps ==
  ASSUME IInv, NEW r \in Records, Listed(r),
         rec' \in [Records -> RecTypes], \A q \in Records : q # r => rec'[q] = rec[q],
         rec'[r].st = rec[r].st, rec'[r].conn = rec[r].conn, rec'[r].nat = rec[r].nat,
         rec'[r].key = rec[r].key, rec'[r].last = rec[r].last,
         rec[r].awaiting = "no" => rec'[r].awaiting = "no",
         native' \in [Natives -> NativeTypes],
         \A n \in Natives : native'[n] = native[n]
                              \/ /\ native[n].st = "open" /\ native'[n].st = "closing"
                                 /\ native'[n].id = native[n].id \/ n \in strays',
         provisional' = IF rec'[r].awaiting = "no" /\ provisional = r THEN 0 ELSE provisional,
         serving' \in [Connections -> WorkTypes],
         \A j \in Connections : serving'[j] = serving[j] \/ ServesOne(j)',
         toServer' \in [Connections -> Seq(Requests)],
         toClient' \in [Connections -> Seq(Frames)],
         faults' \in 0..MaxFaults, dropped' \subseteq Records,
         strays \subseteq strays', strays' \subseteq Natives, UNCHANGED <<writers, open, clientVars, owner, up>>
  PROVE  IInv'
<1> USE DEF IInv, Inv
<1>1. UNCHANGED <<wrapper, call>>
  BY DEF clientVars
<1>2. /\ native \in [Natives -> NativeTypes] /\ rec \in [Records -> RecTypes]
      /\ writers \in [Identities -> {0} \cup Records] /\ provisional \in {0} \cup Records
  BY ServerTypes
<1>3. \A q \in Records : /\ rec'[q].st = rec[q].st /\ rec'[q].conn = rec[q].conn /\ rec'[q].nat = rec[q].nat
                         /\ rec'[q].key = rec[q].key /\ rec'[q].last = rec[q].last
                         /\ rec[q].st = "free" => rec'[q] = rec[q]
  <2> TAKE q \in Records
  <2>1. CASE q = r
    BY <2>1 DEF Listed
  <2>2. CASE q # r
    BY <2>2
  <2> QED BY <2>1, <2>2
<1>4. \A n \in Natives : /\ n \notin strays' => native'[n].id = native[n].id
                         /\ native'[n].st = "unused" <=> native[n].st = "unused"
                         /\ native'[n].st \in {"open", "closing"} <=> native[n].st \in {"open", "closing"}
  <2> TAKE n \in Natives
  <2>1. CASE native'[n] = native[n]
    BY <2>1
  <2>2. CASE /\ native[n].st = "open" /\ native'[n].st = "closing"
             /\ native'[n].id = native[n].id \/ n \in strays'
    BY <2>2
  <2> QED BY <2>1, <2>2
<1>5. TypeOK'
  BY <1>2, ClientKept DEF TypeOK
<1>6. Queues' /\ Linked'
  BY <1>1, LinkedKept DEF Queues
<1>7. Serves'
  <2> SUFFICES ASSUME NEW j \in Connections, serving'[j] = serving[j] PROVE ServesOne(j)'
    BY DEF Serves
  <2>1. serving[j].on \in Records => /\ rec'[serving[j].on].st = rec[serving[j].on].st
                                      /\ rec'[serving[j].on].conn = rec[serving[j].on].conn
                                      /\ rec'[serving[j].on].key = rec[serving[j].on].key
    OBVIOUS
  <2>2. ServesOne(j) /\ serving[j].op \in {"none", "open", "reopen", "close", "drop"}
    BY ServerTypes DEF Serves, WorkTypes
  <2> QED BY <2>1, <2>2 DEF ServesOne
<1>8. Holds'
  <2>1. \A q \in Records : rec[q].nat \in {0} \cup Natives /\ rec[q].last \in {0} \cup Natives
    BY <1>2 DEF RecTypes
  <2>2. Holds /\ open' = open
    OBVIOUS
  <2> QED BY <1>3, <1>4, <2>1, <2>2, HoldsKept
<1>11. Backed'
  <2>1. Backed /\ strays \subseteq strays'
    OBVIOUS
  <2> QED BY <1>3, <1>4, <2>1, BackedKept
<1>12. LeasesMatchRecords'
  <2>1. \A i \in Identities, q \in Records :
          writers'[i] = q <=> rec'[q].st \in {"opening", "listed", "closing"} /\ rec'[q].key = i
    BY <1>3, SMTT(40) DEF LeasesMatchRecords
  <2>2. \A q \in Records : provisional' = q <=>
          /\ rec'[q].st \in {"opening", "listed", "closing"}
          /\ IF rec'[q].st = "opening" THEN rec'[q].key = NoIdentity ELSE rec'[q].awaiting # "no"
    <3> TAKE q \in Records
    <3>1. CASE q # r
      BY <1>3, <1>4, <3>1, ConstantFacts DEF LeasesMatchRecords
    <3>2. CASE q = r
      BY <1>3, <1>4, <3>2, ConstantFacts DEF LeasesMatchRecords, Listed
    <3> QED BY <3>1, <3>2
  <2> QED BY <2>1, <2>2 DEF LeasesMatchRecords
<1> QED BY <1>5, <1>6, <1>7, <1>8, <1>11, <1>12

LEMMA OwnsFacts ==
  ASSUME IInv, NEW k \in Connections, NEW op, Takes(k, op), Owns(k, Request(k))
  PROVE  /\ Request(k).rec \in Records /\ Listed(Request(k).rec) /\ rec[Request(k).rec].conn = k
         /\ rec[Request(k).rec].gen = Request(k).gen /\ Request(k).gen \in Nat
         /\ rec[Request(k).rec].nat \in Natives
BY ServerTypes DEF Owns, IInv, Inv, Holds, RecTypes

LEMMA TakeExecuteKeeps == ASSUME IInv, NEW k \in Connections, TakeExecute(k) PROVE IInv'
<1> DEFINE q == Request(k)
           f == Metadata(q.rec, q.gen, NoIdentity)
<1>1. /\ toServer' \in [Connections -> Seq(Requests)]
  BY Taking DEF TakeExecute, IInv, Inv
<1>2. UNCHANGED <<native, writers, provisional, open, clientVars, owner, up, history>>
  BY DEF TakeExecute
<1>3. CASE Respond(k, Refusal) /\ UNCHANGED rec
  BY <1>1, <1>2, <1>3, RefusalKeeps
<1>4. CASE /\ Owns(k, q) /\ Respond(k, f)
           /\ rec' \in {rec, [rec EXCEPT ![q.rec].awaiting = IF @ = "claim" THEN "turn" ELSE @]}
  <2> DEFINE r == q.rec
  <2>1. r \in Records /\ Listed(r) /\ q.gen \in Nat
    BY <1>4, OwnsFacts DEF TakeExecute
  <2>2. f \in Frames /\ f.id = NoIdentity
    BY <2>1, FrameFacts DEF AnyIdentity
  <2>3. /\ toClient' \in [Connections -> Seq(Frames)]
        /\ serving' \in [Connections -> WorkTypes] /\ serving'[k] = NoWork
        /\ \A j \in Connections : j # k => serving'[j] = serving[j]
    BY <1>4, <2>2, Responding DEF IInv, Inv
  <2> HIDE DEF f
  <2>4. rec \in [Records -> RecTypes] /\ rec[r] \in RecTypes /\ native \in [Natives -> NativeTypes]
    BY <2>1, ServerTypes DEF IInv
  <2>5. PICK a \in {"no", "claim", "turn"} : rec' = [rec EXCEPT ![r] = [rec[r] EXCEPT !.awaiting = a]] /\ (a = "no" <=> rec[r].awaiting = "no")
    <3>1. CASE rec' = rec
      <4>1. rec[r] = [rec[r] EXCEPT !.awaiting = rec[r].awaiting] /\ rec[r].awaiting \in {"no", "claim", "turn"}
        BY <2>4 DEF RecTypes
      <4> QED BY <2>1, <2>4, <3>1, <4>1
    <3>2. CASE rec' = [rec EXCEPT ![r].awaiting = IF @ = "claim" THEN "turn" ELSE @]
      <4> DEFINE a == IF rec[r].awaiting = "claim" THEN "turn" ELSE rec[r].awaiting
      <4>1. rec' = [rec EXCEPT ![r] = [rec[r] EXCEPT !.awaiting = a]]
        BY <2>1, <2>4, <3>2, Zenon
      <4>2. a \in {"no", "claim", "turn"} /\ (a = "no" <=> rec[r].awaiting = "no")
        BY <2>4 DEF RecTypes
      <4> HIDE DEF a
      <4> QED BY <4>1, <4>2
    <3> QED BY <1>4, <3>1, <3>2
  <2> DEFINE e == [rec[r] EXCEPT !.awaiting = a]
  <2>6. /\ e \in RecTypes /\ e.st = rec[r].st /\ e.conn = rec[r].conn /\ e.nat = rec[r].nat
        /\ e.key = rec[r].key /\ e.last = rec[r].last /\ e.awaiting = a
    BY <2>4 DEF RecTypes
  <2> HIDE DEF e
  <2>7. rec' = [rec EXCEPT ![r] = e]
    BY <2>5 DEF e
  <2>8. /\ rec' \in [Records -> RecTypes] /\ \A p \in Records : p # r => rec'[p] = rec[p]
        /\ rec'[r] = e
    BY <2>1, <2>4, <2>6, <2>7
  <2>9. provisional = r => rec[r].awaiting # "no"
    BY <2>1 DEF IInv, Inv, LeasesMatchRecords, Listed
  <2>10. provisional' = IF rec'[r].awaiting = "no" /\ provisional = r THEN 0 ELSE provisional
    BY <1>2, <2>5, <2>6, <2>8, <2>9
  <2>11. \A j \in Connections : serving'[j] = serving[j] \/ ServesOne(j)'
    BY <2>3 DEF ServesOne, NoWork, Work
  <2>13. faults' \in 0..MaxFaults /\ dropped' \subseteq Records /\ UNCHANGED <<writers, open, clientVars, owner, up, strays>> /\ native' = native
         /\ strays \subseteq strays' /\ strays' \subseteq Natives
    BY <1>2 DEF IInv, TypeOK, history
  <2> HIDE DEF r
  <2> QED BY <1>1, <2>1, <2>3, <2>4, <2>5, <2>6, <2>8, <2>10, <2>11, <2>13, TouchKeeps
<1> QED BY <1>3, <1>4 DEF TakeExecute

LEMMA ClosingFacts ==
  ASSUME TypeOK, NEW m \in Natives
  PROVE  /\ Closing(m) \in [Natives -> NativeTypes]
         /\ \A n \in Natives : /\ Closing(m)[n].id = native[n].id
                               /\ Closing(m)[n] = native[n] \/ (native[n].st = "open" /\ Closing(m)[n].st = "closing")
<1>1. native \in [Natives -> NativeTypes] /\ native[m] \in NativeTypes
  BY ServerTypes
<1> DEFINE a == IF native[m].st = "open" THEN "closing" ELSE native[m].st
           e == [native[m] EXCEPT !.st = a]
<1>2. /\ a \in {"unused", "open", "closing", "closed"}
      /\ a = native[m].st \/ (native[m].st = "open" /\ a = "closing")
  BY <1>1 DEF NativeTypes
<1> HIDE DEF a
<1>4. e \in NativeTypes /\ e.id = native[m].id /\ e.st = a
  BY <1>1, <1>2 DEF NativeTypes
<1>5. a = native[m].st => e = native[m]
  BY <1>1 DEF NativeTypes
<1>3. Closing(m) = [native EXCEPT ![m] = e]
  BY <1>1, Zenon DEF Closing, a
<1> HIDE DEF e
<1> QED BY <1>1, <1>2, <1>3, <1>4, <1>5

LEMMA TakeReopenKeeps == ASSUME IInv, NEW k \in Connections, TakeReopen(k) PROVE IInv'
<1> DEFINE q == Request(k)
           r == q.rec
<1>1. /\ toServer' \in [Connections -> Seq(Requests)]
  BY Taking DEF TakeReopen, IInv, Inv
<1>2. UNCHANGED <<rec, writers, provisional, open, clientVars, owner, up, history>>
  BY DEF TakeReopen
<1>3. CASE Respond(k, Refusal) /\ UNCHANGED native
  <2>1. UNCHANGED <<rec, native, writers, provisional, open, clientVars, owner, up, history>>
    BY <1>2, <1>3
  <2> QED BY <1>1, <1>3, <2>1, RefusalKeeps
<1>4. CASE Owns(k, q) /\ Respond(k, Metadata(r, rec[r].gen, rec[r].key)) /\ UNCHANGED native
  <2> DEFINE f == Metadata(r, rec[r].gen, rec[r].key)
  <2>1. r \in Records /\ rec[r] \in RecTypes
    BY <1>4, OwnsFacts, ServerTypes DEF TakeReopen, IInv
  <2>2. f \in Frames /\ f.id = rec[r].key
    BY <2>1, FrameFacts DEF RecTypes
  <2>4. /\ UNCHANGED <<rec, native, writers, provisional, open, clientVars, owner, up, strays, dropped>>
        /\ faults' \in 0..MaxFaults
    BY <1>2, <1>4 DEF history, IInv, TypeOK
  <2>5. Respond(k, f)
    BY <1>4
  <2> HIDE DEF f
  <2> QED BY <1>1, <2>2, <2>4, <2>5, AnswerKeeps
<1>5. CASE /\ Owns(k, q) /\ rec[r].faulted /\ rec[r].key # NoIdentity
           /\ native' = Closing(rec[r].nat)
           /\ serving' = [serving EXCEPT ![k] = Work("reopen", r)]
           /\ UNCHANGED toClient
  <2>1. r \in Records /\ Listed(r) /\ rec[r].conn = k /\ rec[r].nat \in Natives
    BY <1>5, OwnsFacts DEF TakeReopen
  <2>2. rec \in [Records -> RecTypes] /\ serving \in [Connections -> WorkTypes]
    BY ServerTypes DEF IInv
  <2>3. /\ native' \in [Natives -> NativeTypes]
        /\ \A n \in Natives : native'[n] = native[n]
                                \/ /\ native[n].st = "open" /\ native'[n].st = "closing" /\ native'[n].id = native[n].id
    BY <1>5, <2>1, ClosingFacts DEF IInv
  <2>4. /\ serving' \in [Connections -> WorkTypes] /\ serving'[k] = Work("reopen", r)
        /\ \A j \in Connections : j # k => serving'[j] = serving[j]
    BY <1>5, <2>1, <2>2 DEF WorkTypes, Work
  <2>5. \A j \in Connections : serving'[j] = serving[j] \/ ServesOne(j)'
    BY <1>2, <1>5, <2>1, <2>4 DEF ServesOne, Work, Listed
  <2>6. toClient' \in [Connections -> Seq(Frames)] /\ rec' = rec /\ toClient' = toClient
    BY <1>2, <1>5 DEF IInv, Inv, Queues
  <2>7. provisional = r => rec[r].awaiting # "no"
    BY <2>1 DEF IInv, Inv, LeasesMatchRecords, Listed
  <2>8. provisional' = IF rec'[r].awaiting = "no" /\ provisional = r THEN 0 ELSE provisional
    BY <1>2, <2>7
  <2>9. faults' \in 0..MaxFaults /\ dropped' \subseteq Records /\ UNCHANGED <<writers, open, clientVars, owner, up, strays>>
        /\ strays \subseteq strays' /\ strays' \subseteq Natives
    BY <1>2 DEF IInv, TypeOK, history
  <2>11. /\ rec' \in [Records -> RecTypes] /\ \A p \in Records : rec'[p] = rec[p]
    BY <2>2, <2>6
  <2> HIDE DEF r
  <2> QED BY <1>1, <2>1, <2>3, <2>4, <2>5, <2>6, <2>8, <2>9, <2>11, TouchKeeps
<1> QED BY <1>3, <1>4, <1>5 DEF TakeReopen

\* The marks of a fault.
LEMMA FaultKeeps ==
  ASSUME IInv, NEW r \in Records, Listed(r), NEW silent \in BOOLEAN,
         rec' = [rec EXCEPT ![r] = [rec[r] EXCEPT !.faulted = TRUE, !.awaiting = "no", !.silent = silent]],
         provisional' = ProvisionalWithout(r), faults' \in 0..MaxFaults, dropped' \subseteq Records,
         native' \in [Natives -> NativeTypes],
         \A n \in Natives : native'[n] = native[n]
                              \/ /\ native[n].st = "open" /\ native'[n].st = "closing"
                                 /\ native'[n].id = native[n].id \/ n \in strays',
         strays \subseteq strays', strays' \subseteq Natives,
         toClient' \in [Connections -> Seq(Frames)],
         UNCHANGED <<writers, serving, open, toServer, clientVars, owner, up>>
  PROVE  IInv'
<1> DEFINE e == [rec[r] EXCEPT !.faulted = TRUE, !.awaiting = "no", !.silent = silent]
<1>1. rec \in [Records -> RecTypes] /\ rec[r] \in RecTypes /\ serving \in [Connections -> WorkTypes]
  BY ServerTypes DEF IInv
<1>2. /\ e \in RecTypes /\ e.st = rec[r].st /\ e.conn = rec[r].conn /\ e.nat = rec[r].nat
      /\ e.key = rec[r].key /\ e.last = rec[r].last /\ e.awaiting = "no"
  BY <1>1 DEF RecTypes
<1>3. rec' = [rec EXCEPT ![r] = e]
  OBVIOUS
<1> HIDE DEF e
<1>4. rec' \in [Records -> RecTypes] /\ rec'[r] = e /\ \A q \in Records : q # r => rec'[q] = rec[q]
  BY <1>1, <1>2, <1>3
<1>7. provisional' = IF rec'[r].awaiting = "no" /\ provisional = r THEN 0 ELSE provisional
  BY <1>2, <1>4 DEF ProvisionalWithout
<1>8. /\ toServer' \in [Connections -> Seq(Requests)] /\ serving' \in [Connections -> WorkTypes]
      /\ \A j \in Connections : serving'[j] = serving[j] \/ ServesOne(j)'
  BY <1>1 DEF IInv, Inv, Queues
<1>9. UNCHANGED <<writers, open, clientVars, owner, up>>
  OBVIOUS
<1>10. rec'[r].st = rec[r].st /\ rec'[r].conn = rec[r].conn /\ rec'[r].nat = rec[r].nat
       /\ rec'[r].key = rec[r].key /\ rec'[r].last = rec[r].last
       /\ (rec[r].awaiting = "no" => rec'[r].awaiting = "no")
  BY <1>2, <1>4
<1> QED BY <1>4, <1>7, <1>8, <1>9, <1>10, TouchKeeps

\* The native Session of a fault is as it was, or is closed.
LEMMA FaultNatives ==
  ASSUME IInv, NEW r \in Records, Listed(r), native' = native \/ native' = Closing(rec[r].nat)
  PROVE  /\ native' \in [Natives -> NativeTypes]
         /\ \A n \in Natives : native'[n] = native[n]
                                 \/ /\ native[n].st = "open" /\ native'[n].st = "closing"
                                    /\ native'[n].id = native[n].id \/ n \in strays'
<1>1. rec[r].nat \in Natives /\ native \in [Natives -> NativeTypes]
  BY ServerTypes DEF IInv, Inv, Holds, RecTypes
<1> QED BY <1>1, ClosingFacts DEF IInv

LEMMA FaultsKeeps == ASSUME IInv, NEW r \in Records, Faults(r) PROVE IInv'
<1> DEFINE f == Frame("fault", r, rec[r].gen, NoIdentity)
<1>1. rec \in [Records -> RecTypes] /\ rec[r] \in RecTypes
  BY ServerTypes DEF IInv
<1>2. Listed(r) /\ rec[r].conn \in Connections /\ rec[r].silent \in BOOLEAN
  BY <1>1 DEF Faults, Current, IInv, Inv, Holds, TypeOK, RecTypes
<1>3. f \in Frames /\ f.id = NoIdentity
  BY <1>1, FrameFacts DEF RecTypes, AnyIdentity
<1>4. SendTo(rec[r].conn, f)
  BY DEF Faults
<1> HIDE DEF f
<1>5. toClient' \in [Connections -> Seq(Frames)]
  BY <1>2, <1>3, <1>4, Sending DEF IInv, Inv
<1>6. [rec[r] EXCEPT !.faulted = TRUE, !.awaiting = "no"] = [rec[r] EXCEPT !.faulted = TRUE, !.awaiting = "no", !.silent = rec[r].silent]
  BY <1>1 DEF RecTypes
<1>7. rec' = [rec EXCEPT ![r] = [rec[r] EXCEPT !.faulted = TRUE, !.awaiting = "no"]]
  BY <1>1, Zenon DEF Faults
<1>8. faults' \in 0..MaxFaults /\ dropped' \subseteq Records
  BY BrokerAssumption DEF Faults, Faulty, IInv, TypeOK
<1>9. /\ provisional' = ProvisionalWithout(r) /\ (native' = native \/ native' = Closing(rec[r].nat))
      /\ UNCHANGED <<writers, serving, open, toServer, clientVars, owner, up>>
      /\ strays \subseteq strays' /\ strays' \subseteq Natives
  BY DEF Faults, IInv, TypeOK
<1>10. rec' = [rec EXCEPT ![r] = [rec[r] EXCEPT !.faulted = TRUE, !.awaiting = "no", !.silent = rec[r].silent]]
  BY <1>6, <1>7, Zenon
<1>11. /\ native' \in [Natives -> NativeTypes]
       /\ \A n \in Natives : native'[n] = native[n]
                               \/ /\ native[n].st = "open" /\ native'[n].st = "closing"
                                  /\ native'[n].id = native[n].id \/ n \in strays'
  BY <1>2, <1>9, FaultNatives
<1> QED BY <1>2, <1>5, <1>8, <1>9, <1>10, <1>11, FaultKeeps

LEMMA OutputsThrowKeeps == ASSUME IInv, NEW r \in Records, OutputsThrow(r) PROVE IInv'
<1>1. rec \in [Records -> RecTypes] /\ rec[r] \in RecTypes
  BY ServerTypes DEF IInv
<1>2. Listed(r)
  BY DEF OutputsThrow, Current
<1>3. rec' = [rec EXCEPT ![r] = [rec[r] EXCEPT !.faulted = TRUE, !.awaiting = "no", !.silent = TRUE]]
  BY <1>1, Zenon DEF OutputsThrow
<1>4. faults' \in 0..MaxFaults /\ dropped' \subseteq Records
  BY BrokerAssumption DEF OutputsThrow, Faulty, IInv, TypeOK
<1>5. toClient' \in [Connections -> Seq(Frames)] /\ toClient' = toClient
  BY DEF OutputsThrow, IInv, Inv, Queues
<1>6. /\ provisional' = ProvisionalWithout(r) /\ native' = native
      /\ UNCHANGED <<writers, serving, open, toServer, clientVars, owner, up>>
      /\ strays \subseteq strays' /\ strays' \subseteq Natives
  BY DEF OutputsThrow, IInv, TypeOK
<1>7. /\ native' \in [Natives -> NativeTypes]
      /\ \A n \in Natives : native'[n] = native[n]
                              \/ /\ native[n].st = "open" /\ native'[n].st = "closing"
                                 /\ native'[n].id = native[n].id \/ n \in strays'
  BY <1>2, <1>6, FaultNatives
<1> QED BY <1>2, <1>3, <1>4, <1>5, <1>6, <1>7, FaultKeeps

LEMMA ReopenDoneKeeps == ASSUME IInv, NEW k \in Connections, ReopenDone(k) PROVE IInv'
<1> USE DEF IInv, Inv
<1> DEFINE r == serving[k].on
           n == NewOf(FreeNatives)
<1>1. /\ serving[k].op = "reopen" /\ native[rec[r].nat].st = "closed"
      /\ UNCHANGED <<writers, provisional, open, toServer, clientVars, owner, up, dropped>>
  BY DEF ReopenDone
<1>2. /\ r \in Records /\ rec[r].conn = k /\ rec[r].st \in {"listed", "closing", "removed"}
      /\ rec[r].key # NoIdentity /\ rec[r].key \in AnyIdentity /\ rec[r].gen \in Nat
  BY <1>1, ServerTypes DEF Serves, ServesOne, RecTypes
<1>3. toServer' \in [Connections -> Seq(Requests)] /\ toServer' = toServer
  BY <1>1 DEF Queues
<1>4. CASE Faulty /\ Respond(k, Refusal) /\ UNCHANGED <<native, rec, strays>>
  <2>1. UNCHANGED <<rec, native, writers, provisional, open, clientVars, owner, up, strays, dropped>>
    BY <1>1, <1>4
  <2>2. Refusal \in Frames /\ faults' \in 0..MaxFaults
    BY <1>4, BrokerAssumption, FrameFacts DEF Faulty, TypeOK
  <2> QED BY <1>3, <1>4, <2>1, <2>2, AnswerKeeps
<1>5. CASE /\ FreeNatives # {} /\ UNCHANGED faults
           /\ native' = [native EXCEPT ![n] = [st |-> "open", id |-> rec[r].key]]
           /\ rec' = [rec EXCEPT ![r].nat = n, ![r].gen = @ + 1, ![r].faulted = FALSE, ![r].silent = FALSE]
           /\ strays' = IF Listed(r) THEN strays ELSE strays \cup {n}
           /\ Respond(k, Metadata(r, rec[r].gen + 1, rec[r].key))
  <2> DEFINE f == Metadata(r, rec[r].gen + 1, rec[r].key)
  <2>1. n \in Natives /\ native[n].st = "unused" /\ n # 0
    BY <1>5, NewOfFacts, ConstantFacts DEF FreeNatives
  <2>2. f \in Frames /\ f.id = rec[r].key /\ Respond(k, f)
    <3> DEFINE g == rec[r].gen + 1
    <3>1. g \in Nat
      BY <1>2
    <3>2. Respond(k, f) /\ f = Metadata(r, g, rec[r].key)
      BY <1>5
    <3> HIDE DEF g, f
    <3> QED BY <1>2, <3>1, <3>2, FrameFacts
  <2> HIDE DEF r, n, f
  <2>3. /\ rec' \in [Records -> RecTypes] /\ \A q \in Records : q # r => rec'[q] = rec[q]
        /\ rec'[r].st = rec[r].st /\ rec'[r].key = rec[r].key /\ rec'[r].nat = n /\ rec'[r].last = rec[r].last
        /\ rec'[r].conn = k /\ rec'[r].awaiting = rec[r].awaiting
    <3> DEFINE g == rec[r].gen + 1
               e == [rec[r] EXCEPT !.nat = n, !.gen = g, !.faulted = FALSE, !.silent = FALSE]
    <3>1. rec \in [Records -> RecTypes] /\ rec[r] \in RecTypes /\ g \in Nat
      BY <1>2, ServerTypes
    <3>2. rec' = [rec EXCEPT ![r] = e]
      BY <1>2, <1>5, <3>1, Zenon
    <3> HIDE DEF g
    <3>3. e \in RecTypes
      BY <2>1, <3>1 DEF RecTypes
    <3>4. /\ e.st = rec[r].st /\ e.key = rec[r].key /\ e.nat = n /\ e.last = rec[r].last
          /\ e.conn = k /\ e.awaiting = rec[r].awaiting
      BY <1>2, <3>1 DEF RecTypes
    <3> HIDE DEF e
    <3> QED BY <1>2, <3>1, <3>2, <3>3, <3>4
  <2>4. /\ native' \in [Natives -> NativeTypes] /\ native'[n].st = "open" /\ native'[n].id = rec[r].key
        /\ \A m \in Natives : m # n => native'[m] = native[m]
    BY <1>2, <1>5, <2>1, ServerTypes DEF NativeTypes
  <2>5. /\ toClient' \in [Connections -> Seq(Frames)]
        /\ serving' \in [Connections -> WorkTypes] /\ serving'[k] = NoWork
        /\ \A j \in Connections : j # k => serving'[j] = serving[j]
    BY <2>2, Responding
  <2>6. UNCHANGED <<wrapper, call, faults, dropped, writers, provisional, open>>
    BY <1>1, <1>5 DEF clientVars
  <2>7. /\ strays' = IF Listed(r) THEN strays ELSE strays \cup {n}
        /\ strays' \subseteq Natives /\ strays \subseteq strays'
    BY <1>5, <2>1 DEF TypeOK
  <2>8. TypeOK'
    BY <1>1, <2>3, <2>4, <2>5, <2>6, <2>7, ServerTypes, ClientKept DEF TypeOK
  <2>9. Queues' /\ Linked'
    BY <1>1, <1>3, <2>5, <2>6, LinkedKept DEF Queues
  <2>10. Serves'
    BY <1>2, <2>3, <2>5, ServesKept
  <2>11. \A q \in Records : rec[q].nat # n /\ rec[q].last # n /\ rec[q].nat \in {0} \cup Natives /\ rec[q].last \in {0} \cup Natives
    BY <2>1, ServerTypes DEF Holds, RecTypes
  <2>12. Holds'
    BY <1>2, <2>1, <2>3, <2>4, <2>6, <2>11 DEF Holds, Listed
  <2>15. Backed'
    <3>1. ASSUME NEW m \in Natives \ strays', native'[m].st \in {"open", "closing"}
          PROVE  \E q \in Records : rec'[q].st \in {"listed", "closing"} /\ rec'[q].nat = m /\ rec'[q].key = native'[m].id
      <4>1. CASE m = n
        <5>1. Listed(r)
          BY <2>7, <3>1, <4>1
        <5> QED BY <1>2, <2>3, <2>4, <4>1, <5>1 DEF Listed
      <4>2. CASE m # n
        <5>1. PICK q \in Records : rec[q].st \in {"listed", "closing"} /\ rec[q].nat = m /\ rec[q].key = native[m].id
          BY <2>4, <2>7, <3>1, <4>2 DEF Backed
        <5>2. q # r
          BY <1>1, <2>4, <3>1, <4>2, <5>1 DEF r
        <5> QED BY <2>3, <2>4, <3>1, <4>2, <5>1, <5>2
      <4> QED BY <4>1, <4>2
    <3>2. ASSUME NEW q \in Records, rec'[q].st = "closing" PROVE rec'[q].last = rec'[q].nat \/ rec'[q].nat \in strays'
      <4>1. CASE q = r
        BY <2>3, <2>7, <3>2, <4>1 DEF Listed
      <4>2. CASE q # r
        BY <2>3, <2>7, <3>2, <4>2 DEF Backed
      <4> QED BY <4>1, <4>2
    <3> QED BY <3>1, <3>2 DEF Backed
  <2>16. LeasesMatchRecords'
    <3>1. \A q \in Records : rec'[q].st = rec[q].st /\ rec'[q].key = rec[q].key /\ rec'[q].awaiting = rec[q].awaiting
      BY <2>3
    <3> QED BY <2>6, <3>1 DEF LeasesMatchRecords
  <2> QED BY <2>8, <2>9, <2>10, <2>12, <2>15, <2>16
<1> QED BY <1>4, <1>5 DEF ReopenDone

LEMMA ReopenDropsKeeps == ASSUME IInv, NEW k \in Connections, ReopenDrops(k) PROVE IInv'
<1> USE DEF IInv, Inv
<1> DEFINE n == NewOf(FreeNatives)
<1>1. PICK id \in AnyIdentity : native' = [native EXCEPT ![n] = [st |-> "closing", id |-> id]]
  BY DEF ReopenDrops
<1>2. Fresh /\ n \in Natives
  BY <1>1, FreshDrop DEF ReopenDrops
<1>3. faults' \in 0..MaxFaults
  BY BrokerAssumption DEF ReopenDrops, Faulty, TypeOK
<1>4. /\ serving' = [serving EXCEPT ![k] = Work("drop", n)]
      /\ UNCHANGED <<rec, writers, provisional, open, toServer, toClient, clientVars, owner, up, dropped>>
  BY DEF ReopenDrops
<1> HIDE DEF n
<1>5. /\ serving' \in [Connections -> WorkTypes] /\ serving'[k].op = "drop"
      /\ \A j \in Connections : j # k => serving'[j] = serving[j]
  BY <1>2, <1>4, ServerTypes DEF WorkTypes, Work
<1>6. UNCHANGED <<wrapper, call>>
  BY <1>4 DEF clientVars
<1>7. TypeOK'
  BY <1>2, <1>3, <1>4, <1>5, ServerTypes, ClientKept DEF Fresh, TypeOK
<1>8. Queues' /\ Linked'
  BY <1>4, <1>6, LinkedKept DEF Queues
<1>9. Serves'
  <2>1. ServesOne(k)'
    BY <1>5 DEF ServesOne
  <2>2. \A r \in Records : rec[r].conn # k /\ rec[r].st # "free" => rec'[r] = rec[r]
    BY <1>4
  <2> QED BY <1>5, <2>1, <2>2, ServesKept
<1>10. Holds'
  <2>1. \A q \in Records : rec[q].nat \in {0} \cup Natives /\ rec[q].last \in {0} \cup Natives
    BY ServerTypes DEF RecTypes
  <2>2. \A m \in Natives : native'[m].st = "unused" => native[m].st = "unused"
    BY <1>2 DEF Fresh
  <2>3. open' = open /\ rec' = rec /\ Holds
    BY <1>4
  <2> QED BY <2>1, <2>2, <2>3, HoldsKept
<1>11. Backed'
  BY <1>2, <1>4, FreshBacked
<1>12. LeasesMatchRecords'
  BY <1>4 DEF LeasesMatchRecords
<1> QED BY <1>7, <1>8, <1>9, <1>10, <1>11, <1>12

LEMMA ClosingHolds ==
  ASSUME Holds, NEW S \in SUBSET Records, \A r \in Records : rec[r].st = "listed" /\ r \notin S => rec[r].conn \in open',
         \A q \in S : rec[q].st = "listed",
         \A q \in Records : /\ rec'[q].nat = rec[q].nat /\ rec'[q].conn = rec[q].conn
                            /\ rec'[q].st = "closing" <=> rec[q].st = "closing" \/ q \in S
                            /\ rec'[q].st = "listed" => q \notin S /\ rec[q].st = "listed"
                            /\ rec'[q].last = IF q \in S THEN rec[q].nat ELSE rec[q].last
                            /\ rec'[q].st = "free" => rec'[q] = rec[q]
                            /\ rec[q].nat \in {0} \cup Natives /\ rec[q].last \in {0} \cup Natives,
         \A n \in Natives : native'[n].st = "unused" <=> native[n].st = "unused"
  PROVE  Holds'
<1> SUFFICES ASSUME NEW r \in Records
             PROVE  /\ rec'[r].nat # 0 => native'[rec'[r].nat].st # "unused"
                    /\ rec'[r].last # 0 => native'[rec'[r].last].st # "unused"
                    /\ rec'[r].st = "listed" => rec'[r].nat # 0 /\ rec'[r].conn \in open'
                    /\ rec'[r].st = "closing" => rec'[r].nat # 0 /\ rec'[r].last # 0
                    /\ rec'[r].st = "free" => rec'[r] = NoRecord
                    /\ \A q \in Records : r # q /\ rec'[r].nat = rec'[q].nat => rec'[r].nat = 0
  BY DEF Holds, Listed
<1>1. /\ rec[r].nat # 0 => native[rec[r].nat].st # "unused"
      /\ rec[r].last # 0 => native[rec[r].last].st # "unused"
      /\ rec[r].st = "listed" => rec[r].nat # 0
      /\ rec[r].st = "closing" => rec[r].nat # 0 /\ rec[r].last # 0
      /\ rec[r].st = "free" => rec[r] = NoRecord
      /\ \A q \in Records : r # q /\ rec[r].nat = rec[q].nat => rec[r].nat = 0
  BY DEF Holds, Listed
<1> QED BY <1>1

LEMMA ClosingBacked ==
  ASSUME Backed, strays' = strays, NEW S \in SUBSET Records,
         \A q \in Records : /\ rec'[q].nat = rec[q].nat /\ rec'[q].key = rec[q].key
                            /\ rec'[q].st = "closing" <=> rec[q].st = "closing" \/ q \in S
                            /\ rec'[q].st \in {"listed", "closing"} <=> rec[q].st \in {"listed", "closing"}
                            /\ rec'[q].last = IF q \in S THEN rec[q].nat ELSE rec[q].last,
         \A n \in Natives : /\ native'[n].id = native[n].id
                            /\ native'[n].st \in {"open", "closing"} <=> native[n].st \in {"open", "closing"}
  PROVE  Backed'
BY DEF Backed

\* Records that are listed are closed, of one request or of one connection.
LEMMA CloseRecordKeeps ==
  ASSUME IInv, NEW S \in SUBSET Records, \A r \in S : Listed(r), CloseRecord(S),
         serving' \in [Connections -> WorkTypes], \A j \in Connections : serving'[j] = serving[j] \/ ServesOne(j)',
         toServer' \in [Connections -> Seq(Requests)],
         open' \subseteq open, up \subseteq open', \A r \in Records : Listed(r) /\ r \notin S => rec[r].conn \in open',
         UNCHANGED <<writers, provisional, toClient, clientVars, owner, up, history>>
  PROVE  IInv'
<1> USE DEF IInv, Inv
<1>1. UNCHANGED <<wrapper, call, link, stale, faults, strays, dropped>>
  BY DEF clientVars, history
<1>2. /\ native \in [Natives -> NativeTypes] /\ rec \in [Records -> RecTypes]
      /\ writers \in [Identities -> {0} \cup Records] /\ provisional \in {0} \cup Records
  BY ServerTypes
<1>3. \A q \in Records \ S : rec'[q] = rec[q]
  BY DEF CloseRecord
<1>4. /\ \A q \in S : /\ rec'[q].st = "closing" /\ rec[q].st = "listed" /\ rec'[q].last = rec[q].nat
                      /\ rec'[q].conn = rec[q].conn /\ rec'[q].nat = rec[q].nat
                      /\ rec'[q].key = rec[q].key /\ rec'[q].awaiting = rec[q].awaiting
      /\ rec' \in [Records -> RecTypes]
  <2>1. ASSUME NEW q \in S
        PROVE  /\ rec'[q].st = "closing" /\ rec[q].st = "listed" /\ rec'[q].last = rec[q].nat
               /\ rec'[q].conn = rec[q].conn /\ rec'[q].nat = rec[q].nat
               /\ rec'[q].key = rec[q].key /\ rec'[q].awaiting = rec[q].awaiting
               /\ rec'[q] \in RecTypes
    <3>1. q \in Records /\ rec[q] \in RecTypes /\ rec[q].st = "listed"
      BY <1>2, <2>1 DEF Listed
    <3>2. rec'[q] = [rec[q] EXCEPT !.st = "closing", !.last = rec[q].nat]
      BY <2>1, <3>1 DEF CloseRecord
    <3>3. rec'[q] \in RecTypes
      BY <3>1, <3>2 DEF RecTypes
    <3> QED BY <3>1, <3>2, <3>3 DEF RecTypes
  <2>2. rec' = [q \in Records |-> rec'[q]]
    BY DEF CloseRecord
  <2> QED BY <1>2, <1>3, <2>1, <2>2
<1>5. /\ native' \in [Natives -> NativeTypes]
      /\ \A n \in Natives : /\ native'[n].id = native[n].id
                            /\ native'[n].st = "unused" <=> native[n].st = "unused"
                            /\ native'[n].st \in {"open", "closing"} <=> native[n].st \in {"open", "closing"}
  <2>1. \A n \in Natives : native'[n] \in {native[n], Closing(n)[n]}
    BY DEF CloseRecord
  <2>2. \A n \in Natives : Closing(n)[n] \in NativeTypes /\ native[n] \in NativeTypes
    BY <1>2, ClosingFacts
  <2>3. native' = [n \in Natives |-> native'[n]]
    BY DEF CloseRecord
  <2>4. ASSUME NEW n \in Natives
        PROVE  /\ native'[n].id = native[n].id
               /\ native'[n].st = "unused" <=> native[n].st = "unused"
               /\ native'[n].st \in {"open", "closing"} <=> native[n].st \in {"open", "closing"}
    <3>1. CASE native'[n] = native[n]
      BY <3>1
    <3>2. CASE native'[n] = Closing(n)[n]
      BY <3>2, ClosingFacts
    <3> QED BY <2>1, <3>1, <3>2
  <2>5. native' \in [Natives -> NativeTypes]
    BY <2>1, <2>2, <2>3
  <2> QED BY <2>4, <2>5
<1>6. TypeOK'
  BY <1>1, <1>2, <1>4, <1>5 DEF TypeOK, clientVars, RecTypes, NativeTypes, WorkTypes, AnyIdentity
<1>7. Queues' /\ Linked'
  BY <1>1, LinkedKept DEF Queues
<1>8. Serves'
  <2> SUFFICES ASSUME NEW j \in Connections, serving'[j] = serving[j] PROVE ServesOne(j)'
    BY DEF Serves
  <2>1. ServesOne(j) /\ serving[j].op \in {"none", "open", "reopen", "close", "drop"}
    BY ServerTypes DEF Serves, WorkTypes
  <2>5. CASE serving[j].op \in {"none", "drop"}
    BY <2>5 DEF ServesOne
  <2>2. CASE serving[j].on \in S /\ serving[j].op \notin {"none", "drop"}
    <3>1. serving[j].op \in {"none", "reopen"} /\ serving[j].on \in Records
      BY <1>4, <2>1, <2>2 DEF ServesOne
    <3> QED BY <1>4, <2>1, <2>2, <3>1 DEF ServesOne
  <2>3. CASE serving[j].on \in Records \ S
    BY <1>3, <2>1, <2>3 DEF ServesOne
  <2>4. CASE serving[j].on \notin Records
    BY <2>1, <2>4 DEF ServesOne
  <2> QED BY <2>2, <2>3, <2>4, <2>5
<1>9. \A q \in Records : /\ rec'[q].nat = rec[q].nat /\ rec'[q].conn = rec[q].conn /\ rec'[q].key = rec[q].key
                         /\ rec'[q].awaiting = rec[q].awaiting
                         /\ rec'[q].st = "closing" <=> rec[q].st = "closing" \/ q \in S
                         /\ rec'[q].st \in {"listed", "closing"} <=> rec[q].st \in {"listed", "closing"}
                         /\ rec'[q].st = "opening" <=> rec[q].st = "opening"
                         /\ rec'[q].st = "listed" => q \notin S /\ rec[q].st = "listed"
                         /\ rec'[q].last = IF q \in S THEN rec[q].nat ELSE rec[q].last
                         /\ rec'[q].st = "free" => rec'[q] = rec[q]
                         /\ rec[q].nat \in {0} \cup Natives /\ rec[q].last \in {0} \cup Natives
  <2> TAKE q \in Records
  <2>1. rec[q].nat \in {0} \cup Natives /\ rec[q].last \in {0} \cup Natives
    BY <1>2 DEF RecTypes
  <2>2. CASE q \in S
    BY <1>4, <2>1, <2>2
  <2>3. CASE q \notin S
    BY <1>3, <2>1, <2>3
  <2> QED BY <2>2, <2>3
<1>10. Holds'
  <2>1. Holds /\ \A r \in Records : rec[r].st = "listed" /\ r \notin S => rec[r].conn \in open'
    BY DEF Listed
  <2>2. \A q \in S : rec[q].st = "listed"
    BY DEF Listed
  <2>3. \A q \in Records : /\ rec'[q].nat = rec[q].nat /\ rec'[q].conn = rec[q].conn
                           /\ rec'[q].st = "closing" <=> rec[q].st = "closing" \/ q \in S
                           /\ rec'[q].st = "listed" => q \notin S /\ rec[q].st = "listed"
                           /\ rec'[q].last = IF q \in S THEN rec[q].nat ELSE rec[q].last
                           /\ rec'[q].st = "free" => rec'[q] = rec[q]
                           /\ rec[q].nat \in {0} \cup Natives /\ rec[q].last \in {0} \cup Natives
    BY <1>9
  <2>4. \A n \in Natives : native'[n].st = "unused" <=> native[n].st = "unused"
    BY <1>5
  <2>5. \A q \in Records : rec[q].st = "listed" /\ q \notin S => rec[q].conn \in open'
    BY DEF Listed
  <2> QED BY <2>1, <2>2, <2>3, <2>4, <2>5, ClosingHolds, Zenon
<1>13. Backed'
  <2>1. Backed /\ strays' = strays
    BY <1>1
  <2>2. \A q \in Records : /\ rec'[q].nat = rec[q].nat /\ rec'[q].key = rec[q].key
                           /\ rec'[q].st = "closing" <=> rec[q].st = "closing" \/ q \in S
                           /\ rec'[q].st \in {"listed", "closing"} <=> rec[q].st \in {"listed", "closing"}
                           /\ rec'[q].last = IF q \in S THEN rec[q].nat ELSE rec[q].last
    BY <1>9
  <2>3. \A n \in Natives : /\ native'[n].id = native[n].id
                           /\ native'[n].st \in {"open", "closing"} <=> native[n].st \in {"open", "closing"}
    BY <1>5
  <2> QED BY <2>1, <2>2, <2>3, ClosingBacked, Zenon
<1>14. LeasesMatchRecords'
  <2>1. LeasesMatchRecords /\ writers' = writers /\ provisional' = provisional
    OBVIOUS
  <2>2. \A q \in Records : /\ rec'[q].st \in {"opening", "listed", "closing"} <=> rec[q].st \in {"opening", "listed", "closing"}
                           /\ rec'[q].st = "opening" <=> rec[q].st = "opening"
                           /\ rec'[q].key = rec[q].key /\ rec'[q].awaiting = rec[q].awaiting
    BY <1>9
  <2> QED BY <2>1, <2>2 DEF LeasesMatchRecords
<1> QED BY <1>6, <1>7, <1>8, <1>10, <1>13, <1>14

LEMMA TakeCloseKeeps == ASSUME IInv, NEW k \in Connections, TakeClose(k) PROVE IInv'
<1> DEFINE q == Request(k)
           r == q.rec
<1>1. /\ toServer' \in [Connections -> Seq(Requests)]
  BY Taking DEF TakeClose, IInv, Inv
<1>2. UNCHANGED <<writers, provisional, open, clientVars, owner, up, history>>
  BY DEF TakeClose
<1>3. CASE Respond(k, Thrown) /\ UNCHANGED <<rec, native>>
  <2>1. UNCHANGED <<rec, native, writers, provisional, open, clientVars, owner, up, history>>
    BY <1>2, <1>3
  <2> QED BY <1>1, <1>3, <2>1, RefusalKeeps
<1>4. CASE /\ Owns(k, q) /\ CloseRecord({r})
           /\ serving' = [serving EXCEPT ![k] = Work("close", r)]
           /\ UNCHANGED toClient
  <2>1. r \in Records /\ Listed(r) /\ rec[r].conn = k
    BY <1>4, OwnsFacts DEF TakeClose
  <2>2. /\ serving' \in [Connections -> WorkTypes] /\ serving'[k] = Work("close", r)
        /\ \A j \in Connections : j # k => serving'[j] = serving[j]
    BY <1>4, <2>1, ServerTypes DEF WorkTypes, Work, IInv
  <2>3. rec'[r].st = "closing" /\ rec'[r].conn = k
    <3>1. rec[r] \in RecTypes
      BY <2>1, ServerTypes DEF IInv
    <3>2. rec'[r] = [rec[r] EXCEPT !.st = "closing", !.last = rec[r].nat]
      BY <1>4, <2>1 DEF CloseRecord
    <3> QED BY <2>1, <3>1, <3>2 DEF RecTypes
  <2>4. \A j \in Connections : serving'[j] = serving[j] \/ ServesOne(j)'
    BY <2>1, <2>2, <2>3 DEF ServesOne, Work
  <2>5. open' \subseteq open /\ up \subseteq open' /\ \A p \in Records : Listed(p) /\ p \notin {r} => rec[p].conn \in open'
    BY <1>2 DEF IInv, Inv, TypeOK, Holds
  <2>6. UNCHANGED <<writers, provisional, toClient, clientVars, owner, up, history>>
    BY <1>2, <1>4
  <2>7. {r} \in SUBSET Records /\ (\A p \in {r} : Listed(p)) /\ CloseRecord({r})
    BY <1>4, <2>1
  <2> HIDE DEF r
  <2> QED BY <1>1, <2>2, <2>4, <2>5, <2>6, <2>7, CloseRecordKeeps
<1> QED BY <1>3, <1>4 DEF TakeClose

LEMMA SocketClosedKeeps == ASSUME IInv, NEW k \in Connections, SocketClosed(k) PROVE IInv'
<1> DEFINE S == {r \in Records : Listed(r) /\ rec[r].conn = k}
<1>1. S \in SUBSET Records /\ (\A r \in S : Listed(r)) /\ CloseRecord(S)
  BY DEF SocketClosed
<1>2. serving' = serving /\ serving' \in [Connections -> WorkTypes]
  BY ServerTypes DEF SocketClosed, IInv
<1>3. toServer' \in [Connections -> Seq(Requests)]
  <2>1. <<>> \in Seq(Requests) /\ toServer' = [toServer EXCEPT ![k] = <<>>]
    BY DEF SocketClosed
  <2> QED BY <2>1 DEF IInv, Inv, Queues
<1>4. open' \subseteq open /\ up \subseteq open' /\ \A p \in Records : Listed(p) /\ p \notin S => rec[p].conn \in open'
  BY DEF SocketClosed, IInv, Inv, TypeOK, Holds
<1>5. UNCHANGED <<writers, provisional, toClient, clientVars, owner, up, history>>
  BY DEF SocketClosed
<1>6. \A j \in Connections : serving'[j] = serving[j] \/ ServesOne(j)'
  BY <1>2
<1> HIDE DEF S
<1> QED BY <1>1, <1>2, <1>3, <1>4, <1>5, <1>6, CloseRecordKeeps

LEMMA CloseDoneKeeps == ASSUME IInv, NEW r \in Records, CloseDone(r) PROVE IInv'
<1> USE DEF IInv, Inv
<1>1. /\ rec[r].st = "closing" /\ native[rec[r].last].st = "closed"
      /\ rec' = [rec EXCEPT ![r] = Removed(r)]
      /\ writers' = [i \in Identities |-> IF writers[i] = r THEN 0 ELSE writers[i]]
      /\ provisional' = IF provisional = r THEN 0 ELSE provisional
      /\ UNCHANGED <<native, open, toServer, clientVars, owner, up, history>>
  BY DEF CloseDone, WritersWithout, ProvisionalWithout
<1>2. UNCHANGED <<wrapper, call, faults, strays, dropped>>
  BY <1>1 DEF clientVars, history
<1>3. rec \in [Records -> RecTypes] /\ rec[r] \in RecTypes /\ Removed(r) \in RecTypes
  <2>1. rec \in [Records -> RecTypes] /\ rec[r] \in RecTypes
    BY ServerTypes
  <2>2. [rec[r] EXCEPT !.st = "removed"] \in RecTypes
    BY <2>1 DEF RecTypes
  <2>3. Gone \in RecTypes
    BY DEF Gone, NoRecord, RecTypes, AnyIdentity
  <2> QED BY <2>1, <2>2, <2>3 DEF Removed
<1>4. /\ rec' \in [Records -> RecTypes] /\ rec'[r] = Removed(r) /\ \A q \in Records : q # r => rec'[q] = rec[q]
  BY <1>1, <1>3
<1>5. /\ rec'[r].st = "removed"
      /\ rec'[r].nat \in {0, rec[r].nat} /\ rec'[r].last \in {0, rec[r].last} /\ rec'[r].key \in {NoIdentity, rec[r].key}
      /\ (\E k \in Connections : serving[k] = Work("reopen", r))
           => rec'[r].conn = rec[r].conn /\ rec'[r].key = rec[r].key
  <2> DEFINE e == [rec[r] EXCEPT !.st = "removed"]
  <2>1. /\ e.st = "removed" /\ e.nat = rec[r].nat /\ e.last = rec[r].last /\ e.key = rec[r].key
        /\ e.conn = rec[r].conn
    BY <1>3 DEF RecTypes
  <2>2. Gone.st = "removed" /\ Gone.nat = 0 /\ Gone.last = 0 /\ Gone.key = NoIdentity
    BY DEF Gone, NoRecord
  <2> HIDE DEF e
  <2>3. rec'[r] = IF \E k \in Connections : serving[k] = Work("reopen", r) THEN e ELSE Gone
    BY <1>4 DEF Removed, e
  <2> QED BY <2>1, <2>2, <2>3
<1>6. /\ toClient' \in [Connections -> Seq(Frames)] /\ serving' \in [Connections -> WorkTypes]
      /\ \A j \in Connections : serving'[j] = NoWork \/ (serving'[j] = serving[j] /\ serving[j] # Work("close", r))
  <2>1. CASE \E k \in Connections : serving[k] = Work("close", r) /\ Respond(k, Metadata(r, 0, NoIdentity))
    <3>1. PICK k \in Connections : serving[k] = Work("close", r) /\ Respond(k, Metadata(r, 0, NoIdentity))
      BY <2>1
    <3>2. Metadata(r, 0, NoIdentity) \in Frames /\ Metadata(r, 0, NoIdentity).id = NoIdentity
      BY FrameFacts DEF AnyIdentity
    <3>3. /\ toClient' \in [Connections -> Seq(Frames)]
          /\ serving' \in [Connections -> WorkTypes] /\ serving'[k] = NoWork
          /\ \A j \in Connections : j # k => serving'[j] = serving[j]
      BY <3>1, <3>2, Responding
    <3>4. ASSUME NEW j \in Connections, j # k PROVE serving[j] # Work("close", r)
      <4>1. rec[r].conn = k
        BY <3>1 DEF Serves, ServesOne, Work
      <4> QED BY <3>4, <4>1 DEF Serves, ServesOne, Work
    <3> QED BY <3>3, <3>4
  <2>2. CASE (\A k \in Connections : serving[k] # Work("close", r)) /\ UNCHANGED <<serving, toClient>>
    BY <2>2, ServerTypes DEF Queues
  <2> QED BY <2>1, <2>2 DEF CloseDone
<1>7. writers' \in [Identities -> {0} \cup Records] /\ provisional' \in {0} \cup Records
  BY <1>1, ServerTypes
<1>8. TypeOK'
  BY <1>1, <1>2, <1>4, <1>6, <1>7, ServerTypes, ClientKept DEF TypeOK
<1>9. Queues' /\ Linked'
  BY <1>1, <1>2, <1>6, LinkedKept DEF Queues
<1>10. Serves'
  <2> SUFFICES ASSUME NEW j \in Connections PROVE ServesOne(j)'
    BY DEF Serves
  <2>1. CASE serving'[j] = NoWork
    BY <2>1 DEF ServesOne, NoWork, Work
  <2>2. CASE serving'[j] = serving[j] /\ serving[j] # Work("close", r)
    <3>1. ServesOne(j) /\ serving[j] \in WorkTypes
      BY ServerTypes DEF Serves
    <3>2. CASE serving[j].on # r
      BY <1>4, <2>2, <3>1, <3>2 DEF ServesOne, WorkTypes
    <3>3. CASE serving[j].on = r
      <4>1. serving[j] = Work(serving[j].op, r)
        BY <3>1, <3>3 DEF WorkTypes, Work
      <4>2. serving[j].op \in {"none", "drop", "reopen"}
        BY <1>1, <2>2, <3>1, <3>3, <4>1 DEF ServesOne, WorkTypes
      <4>3. CASE serving[j].op \in {"none", "drop"}
        BY <2>2, <4>3 DEF ServesOne
      <4>4. CASE serving[j].op = "reopen"
        <5>1. rec'[r].conn = rec[r].conn /\ rec'[r].key = rec[r].key /\ rec'[r].st = "removed"
          BY <1>5, <4>1, <4>4
        <5> QED BY <2>2, <3>1, <3>3, <4>4, <5>1 DEF ServesOne
      <4> QED BY <4>2, <4>3, <4>4
    <3> QED BY <3>2, <3>3
  <2> QED BY <1>6, <2>1, <2>2
<1>11. \A q \in Records : rec[q].nat \in {0} \cup Natives /\ rec[q].last \in {0} \cup Natives
  BY <1>3 DEF RecTypes
<1>12. Holds'
  BY <1>1, <1>4, <1>5, <1>11 DEF Holds, Listed
<1>14. Backed'
  <2>1. native[rec[r].nat].st = "closed" \/ rec[r].nat \in strays
    BY <1>1 DEF Backed
  <2>2. ASSUME NEW n \in Natives \ strays, native[n].st \in {"open", "closing"}
        PROVE  \E q \in Records : rec'[q].st \in {"listed", "closing"} /\ rec'[q].nat = n /\ rec'[q].key = native[n].id
    <3>1. PICK q \in Records : rec[q].st \in {"listed", "closing"} /\ rec[q].nat = n /\ rec[q].key = native[n].id
      BY <2>2 DEF Backed
    <3>2. q # r
      BY <2>1, <2>2, <3>1
    <3> QED BY <1>4, <3>1, <3>2
  <2>3. \A q \in Records : rec'[q].st = "closing" => rec'[q].last = rec'[q].nat \/ rec'[q].nat \in strays
    BY <1>4, <1>5 DEF Backed
  <2> QED BY <1>1, <1>2, <2>2, <2>3 DEF Backed
<1>15. LeasesMatchRecords'
  BY <1>1, <1>4, <1>5, ConstantFacts DEF LeasesMatchRecords
<1> QED BY <1>8, <1>9, <1>10, <1>12, <1>14, <1>15

LEMMA NativeClosesKeeps == ASSUME IInv, NEW n \in Natives, NativeCloses(n) PROVE IInv'
<1> USE DEF IInv, Inv
<1>1. /\ native[n].st = "closing"
      /\ UNCHANGED <<rec, writers, provisional, serving, open, clientVars, owner, up, toServer, toClient, history>>
      /\ UNCHANGED <<wrapper, call, faults, strays, dropped>>
  BY DEF NativeCloses, clientVars, history
<1>2. /\ native' \in [Natives -> NativeTypes] /\ native'[n].st = "closed" /\ \A m \in Natives : m # n => native'[m] = native[m]
  <2>1. [st |-> "closed", id |-> NoIdentity] \in NativeTypes
    BY DEF NativeTypes, AnyIdentity
  <2> QED BY <2>1, ServerTypes DEF NativeCloses
<1>3. TypeOK'
  BY <1>1, <1>2, ServerTypes, ClientKept DEF TypeOK
<1>4. Queues' /\ Linked' /\ Serves'
  BY <1>1, LinkedKept DEF Queues, Serves, ServesOne
<1>5. \A m \in Natives : native'[m].st = "unused" => native[m].st = "unused"
  BY <1>2
<1>6. Holds'
  <2>1. \A q \in Records : rec[q].nat \in {0} \cup Natives /\ rec[q].last \in {0} \cup Natives
    BY ServerTypes DEF RecTypes
  <2> QED BY <1>1, <1>5, <2>1 DEF Holds, Listed
<1>8. Backed'
  BY <1>1, <1>2 DEF Backed
<1>9. LeasesMatchRecords'
  BY <1>1 DEF LeasesMatchRecords
<1> QED BY <1>3, <1>4, <1>6, <1>8, <1>9

LEMMA IdentifiesKeeps == ASSUME IInv, NEW r \in Records, Identifies(r) PROVE IInv'
<1> USE DEF IInv, Inv
<1> DEFINE n == rec[r].nat
<1>0. PICK id \in Identities :
        /\ writers[id] = 0
        /\ rec' = [rec EXCEPT ![r].key = id, ![r].awaiting = "no"]
        /\ native' = [native EXCEPT ![n].id = id]
        /\ writers' = [writers EXCEPT ![id] = r] /\ provisional' = ProvisionalWithout(r)
        /\ SendTo(rec[r].conn, Frame("identity", r, rec[r].gen, id))
  BY DEF Identifies
<1> DEFINE f == Frame("identity", r, rec[r].gen, id)
<1>1. /\ Listed(r) /\ native[n].st = "open" /\ rec[r].key = NoIdentity
      /\ provisional' = IF provisional = r THEN 0 ELSE provisional
      /\ SendTo(rec[r].conn, f)
      /\ UNCHANGED <<serving, open, toServer, clientVars, owner, up, history>>
  BY <1>0 DEF Identifies, Current, ProvisionalWithout
<1>2. UNCHANGED <<wrapper, call, faults, strays, dropped>>
  BY <1>1 DEF clientVars, history
<1>3. /\ rec \in [Records -> RecTypes] /\ rec[r] \in RecTypes /\ native \in [Natives -> NativeTypes]
      /\ writers \in [Identities -> {0} \cup Records] /\ provisional \in {0} \cup Records
  BY ServerTypes
<1>4. n \in Natives /\ rec[r].conn \in Connections /\ id \in AnyIdentity /\ id # NoIdentity
  <2>1. n # 0 /\ rec[r].conn \in open
    BY <1>1 DEF Holds
  <2> QED BY <1>3, <2>1, ConstantFacts DEF RecTypes, TypeOK, AnyIdentity
<1>5. f \in Frames
  BY <1>3, <1>4, FrameFacts DEF RecTypes
<1> HIDE DEF n, f
<1>6. /\ rec' \in [Records -> RecTypes] /\ \A q \in Records : q # r => rec'[q] = rec[q]
      /\ rec'[r].st = rec[r].st /\ rec'[r].conn = rec[r].conn /\ rec'[r].nat = n /\ rec'[r].last = rec[r].last
      /\ rec'[r].key = id /\ rec'[r].awaiting = "no"
  <2> DEFINE e == [rec[r] EXCEPT !.key = id, !.awaiting = "no"]
  <2>1. rec' = [rec EXCEPT ![r] = e]
    BY <1>0, <1>3, Zenon
  <2>2. e \in RecTypes
    BY <1>3, <1>4 DEF RecTypes
  <2>3. /\ e.st = rec[r].st /\ e.conn = rec[r].conn /\ e.nat = n /\ e.last = rec[r].last
        /\ e.key = id /\ e.awaiting = "no"
    BY <1>3 DEF RecTypes, n
  <2> HIDE DEF e
  <2> QED BY <1>3, <2>1, <2>2, <2>3
<1>7. /\ native' \in [Natives -> NativeTypes] /\ native'[n].st = "open" /\ native'[n].id = id
      /\ \A m \in Natives : m # n => native'[m] = native[m]
  <2> DEFINE e == [native[n] EXCEPT !.id = id]
  <2>1. native[n] \in NativeTypes
    BY <1>3, <1>4
  <2>2. native' = [native EXCEPT ![n] = e]
    BY <1>0, <1>3, <1>4, Zenon DEF n
  <2>3. e \in NativeTypes /\ e.st = "open" /\ e.id = id
    BY <1>1, <1>4, <2>1 DEF NativeTypes
  <2> HIDE DEF e
  <2> QED BY <1>3, <1>4, <2>2, <2>3
<1>8. toClient' \in [Connections -> Seq(Frames)]
  BY <1>1, <1>4, <1>5, Sending
<1>9. writers' \in [Identities -> {0} \cup Records] /\ provisional' \in {0} \cup Records
  BY <1>0, <1>1, <1>3
<1>10. TypeOK'
  BY <1>1, <1>2, <1>6, <1>7, <1>9, ServerTypes, ClientKept DEF TypeOK
<1>11. Queues' /\ Linked'
  BY <1>1, <1>2, <1>8, LinkedKept DEF Queues
<1>12. Serves'
  <2> SUFFICES ASSUME NEW j \in Connections PROVE ServesOne(j)'
    BY DEF Serves
  <2>1. ServesOne(j) /\ serving'[j] = serving[j]
    BY <1>1 DEF Serves
  <2>2. CASE serving[j].on = r
    BY <1>1, <1>4, <1>6, <2>1, <2>2 DEF ServesOne
  <2>3. CASE serving[j].on # r
    BY <1>6, <2>1, <2>3 DEF ServesOne
  <2> QED BY <2>2, <2>3
<1>13. \A q \in Records : rec[q].nat \in {0} \cup Natives /\ rec[q].last \in {0} \cup Natives /\ (rec[q].nat = n => q = r)
  BY <1>3, <1>4, ConstantFacts DEF RecTypes, Holds, n
<1>14. Holds'
  <2>1. \A m \in Natives : native'[m].st = "unused" => native[m].st = "unused"
    BY <1>7
  <2>2. \A q \in Records : /\ rec'[q].st = rec[q].st /\ rec'[q].conn = rec[q].conn /\ rec'[q].nat = rec[q].nat
                           /\ rec'[q].last = rec[q].last /\ (rec[q].st = "free" => rec'[q] = rec[q])
    BY <1>1, <1>6 DEF n, Listed
  <2>3. open' = open /\ \A q \in Records : rec[q].nat \in {0} \cup Natives /\ rec[q].last \in {0} \cup Natives
    BY <1>1, <1>13
  <2> QED BY <2>1, <2>2, <2>3, HoldsKept
<1>18. Backed'
  <2>1. ASSUME NEW m \in Natives \ strays, native'[m].st \in {"open", "closing"}
        PROVE  \E q \in Records : rec'[q].st \in {"listed", "closing"} /\ rec'[q].nat = m /\ rec'[q].key = native'[m].id
    <3>1. CASE m = n
      BY <1>1, <1>6, <1>7, <3>1 DEF Listed
    <3>2. CASE m # n
      <4>1. PICK q \in Records : rec[q].st \in {"listed", "closing"} /\ rec[q].nat = m /\ rec[q].key = native[m].id
        BY <1>7, <2>1, <3>2 DEF Backed
      <4> QED BY <1>6, <1>7, <2>1, <3>2, <4>1 DEF n
    <3> QED BY <3>1, <3>2
  <2>2. \A q \in Records : rec'[q].st = "closing" => rec'[q].last = rec'[q].nat \/ rec'[q].nat \in strays
    BY <1>1, <1>6 DEF Backed, Listed
  <2> QED BY <1>2, <2>1, <2>2 DEF Backed
<1>19. \A i \in Identities : writers[i] # r
  BY <1>1, ConstantFacts DEF LeasesMatchRecords
<1>20. LeasesMatchRecords'
  <2>1. \A i \in Identities, q \in Records :
          writers'[i] = q <=> rec'[q].st \in {"opening", "listed", "closing"} /\ rec'[q].key = i
    <3> TAKE i \in Identities, q \in Records
    <3>1. writers[i] = q <=> rec[q].st \in {"opening", "listed", "closing"} /\ rec[q].key = i
      BY DEF LeasesMatchRecords
    <3>2. writers'[i] = IF i = id THEN r ELSE writers[i]
      BY <1>0, <1>3
    <3>3. CASE q = r
      BY <1>1, <1>6, <1>19, <3>2, <3>3, ConstantFacts DEF Listed
    <3>4. CASE q # r
      BY <1>0, <1>6, <3>1, <3>2, <3>4, ConstantFacts
    <3> QED BY <3>3, <3>4
  <2>2. \A q \in Records : provisional' = q <=>
          /\ rec'[q].st \in {"opening", "listed", "closing"}
          /\ IF rec'[q].st = "opening" THEN rec'[q].key = NoIdentity ELSE rec'[q].awaiting # "no"
    BY <1>1, <1>6, ConstantFacts DEF LeasesMatchRecords, Listed
  <2> QED BY <2>1, <2>2 DEF LeasesMatchRecords
<1> QED BY <1>10, <1>11, <1>12, <1>14, <1>18, <1>20

LEMMA MisidentifiesKeeps == ASSUME IInv, NEW r \in Records, Misidentifies(r) PROVE IInv'
<1>1. rec \in [Records -> RecTypes] /\ rec[r] \in RecTypes /\ native \in [Natives -> NativeTypes]
  BY ServerTypes DEF IInv
<1>2. /\ Listed(r) /\ rec[r].conn \in Connections /\ rec[r].silent \in BOOLEAN
      /\ rec[r].nat \in Natives /\ native[rec[r].nat].st = "open"
  BY <1>1 DEF Misidentifies, Current, IInv, Inv, Holds, TypeOK, RecTypes
<1>3. toClient' \in [Connections -> Seq(Frames)]
  <2> DEFINE f == Frame("fault", r, rec[r].gen, NoIdentity)
  <2>1. f \in Frames
    BY <1>1, FrameFacts DEF RecTypes, AnyIdentity
  <2>2. SendTo(rec[r].conn, f)
    BY DEF Misidentifies
  <2> HIDE DEF f
  <2> QED BY <1>2, <2>1, <2>2, Sending DEF IInv, Inv
<1>4. rec' = [rec EXCEPT ![r] = [rec[r] EXCEPT !.faulted = TRUE, !.awaiting = "no", !.silent = rec[r].silent]]
  <2>1. [rec[r] EXCEPT !.faulted = TRUE, !.awaiting = "no"]
          = [rec[r] EXCEPT !.faulted = TRUE, !.awaiting = "no", !.silent = rec[r].silent]
    BY <1>1 DEF RecTypes
  <2>2. rec' = [rec EXCEPT ![r] = [rec[r] EXCEPT !.faulted = TRUE, !.awaiting = "no"]]
    BY <1>1, Zenon DEF Misidentifies
  <2> QED BY <2>1, <2>2, Zenon
<1>5. faults' \in 0..MaxFaults /\ dropped' \subseteq Records
  BY BrokerAssumption DEF Misidentifies, Faulty, IInv, TypeOK
<1>6. /\ provisional' = ProvisionalWithout(r) /\ strays' = strays \cup {rec[r].nat}
      /\ UNCHANGED <<writers, serving, open, toServer, clientVars, owner, up>>
  BY DEF Misidentifies
<1>7. strays \subseteq strays' /\ strays' \subseteq Natives
  BY <1>2, <1>6 DEF IInv, TypeOK
<1>8. /\ native' \in [Natives -> NativeTypes]
      /\ \A n \in Natives : native'[n] = native[n]
                              \/ /\ native[n].st = "open" /\ native'[n].st = "closing"
                                 /\ native'[n].id = native[n].id \/ n \in strays'
  <2>1. PICK id \in AnyIdentity : native' = [native EXCEPT ![rec[r].nat] = [st |-> "closing", id |-> id]]
    BY DEF Misidentifies
  <2>2. [st |-> "closing", id |-> id] \in NativeTypes
    BY DEF NativeTypes
  <2> QED BY <1>1, <1>2, <1>6, <2>1, <2>2
<1> QED BY <1>2, <1>3, <1>4, <1>5, <1>6, <1>7, <1>8, FaultKeeps

-----------------------------------------------------------------------------
(* The specification. *)

LEMMA InitKeeps == Init => IInv
<1> SUFFICES ASSUME Init PROVE IInv
  OBVIOUS
<1> USE DEF Init
<1>1. TypeOK
  <2>1. NoRecord \in RecTypes /\ [st |-> "unused", id |-> NoIdentity] \in NativeTypes /\ NoWork \in WorkTypes
    BY DEF NoRecord, RecTypes, NativeTypes, WorkTypes, NoWork, Work, AnyIdentity
  <2>2. rec \in [Records -> RecTypes] /\ native \in [Natives -> NativeTypes] /\ serving \in [Connections -> WorkTypes]
    BY <2>1
  <2>3. NoWrapper \in Wrappers
    BY DEF NoWrapper, Wrappers, AnyIdentity
  <2>4. wrapper \in [Clients -> Wrappers]
    BY <2>3
  <2>5. 0 \in 0..MaxFaults
    BY BrokerAssumption
  <2>6. /\ writers \in [Identities -> {0} \cup Records] /\ provisional \in {0} \cup Records
        /\ owner \in [Connections -> {0} \cup Clients] /\ faults \in 0..MaxFaults
        /\ link \in [Clients -> {0} \cup up] /\ strays \subseteq Natives /\ dropped \subseteq Records
        /\ up = {} /\ open = {} /\ stale = {}
    BY <2>5
  <2> QED BY <2>2, <2>4, <2>6 DEF TypeOK, RecTypes, NativeTypes, WorkTypes, Wrappers, AnyIdentity
<1>2. Queues
  <2>1. <<>> \in Seq(Requests) /\ <<>> \in Seq(Frames)
    OBVIOUS
  <2>2. NoCall \in [op : CallOps, conn : {0} \cup Connections, frame : Frames]
    BY FrameFacts DEF NoCall, CallOps
  <2> QED BY <2>1, <2>2 DEF Queues
<1>3. Linked
  BY DEF Linked, NoWrapper, NoCall
<1>4. Serves
  BY DEF Serves, ServesOne, NoWork, Work
<1>5. Holds
  BY DEF Holds, Listed, NoRecord
<1>7. Backed
  BY DEF Backed, NoRecord
<1>8. LeasesMatchRecords
  BY ConstantFacts DEF LeasesMatchRecords, NoRecord
<1> QED BY <1>1, <1>2, <1>3, <1>4, <1>5, <1>7, <1>8 DEF IInv, Inv

LEMMA StutterKeeps == ASSUME IInv, UNCHANGED vars PROVE IInv'
<1>1. UNCHANGED <<rec, native, writers, provisional, serving, open, wrapper, call, link, stale, owner, up,
                  toServer, toClient, faults, strays, dropped>>
  BY DEF vars, serverVars, clientVars, history
<1>2. Serves' /\ Holds' /\ Backed' /\ LeasesMatchRecords'
  BY <1>1, ServerKept DEF IInv, Inv
<1>3. TypeOK'
  BY <1>1 DEF IInv, TypeOK
<1>4. Queues' /\ Linked'
  BY <1>1 DEF IInv, Inv, Queues, Linked
<1> QED BY <1>2, <1>3, <1>4 DEF IInv, Inv

LEMMA NextKeeps == ASSUME IInv, [Next]_vars PROVE IInv'
<1>1. ASSUME NEW k \in Connections,
             \/ TakeOpen(k) \/ OpenFails(k) \/ OpenDrops(k) \/ DropDone(k) \/ OpenDone(k) \/ TakeExecute(k)
             \/ TakeReopen(k) \/ ReopenDone(k) \/ ReopenDrops(k) \/ TakeClose(k) \/ SocketClosed(k)
             \/ Receive(k) \/ Lost(k)
      PROVE  IInv'
  BY <1>1, TakeOpenKeeps, OpenFailsKeeps, OpenDropsKeeps, DropDoneKeeps, OpenDoneKeeps, TakeExecuteKeeps,
     TakeReopenKeeps, ReopenDoneKeeps, ReopenDropsKeeps, TakeCloseKeeps, SocketClosedKeeps, ReceiveKeeps, LostKeeps
<1>2. ASSUME NEW r \in Records, CloseDone(r) \/ Faults(r) \/ OutputsThrow(r) \/ Identifies(r) \/ Misidentifies(r)
      PROVE  IInv'
  BY <1>2, CloseDoneKeeps, FaultsKeeps, OutputsThrowKeeps, IdentifiesKeeps, MisidentifiesKeeps
<1>3. ASSUME NEW c \in Clients,
             \/ Opened(c) \/ Recovered(c) \/ SendClose(c) \/ OpenCall(c) \/ ExecuteCall(c)
             \/ RecoverCall(c) \/ CloseCall(c) \/ Timeout(c)
      PROVE  IInv'
  BY <1>3, OpenedKeeps, RecoveredKeeps, SendCloseKeeps, OpenCallKeeps, ExecuteCallKeeps,
     RecoverCallKeeps, CloseCallKeeps, TimeoutKeeps
<1> QED BY <1>1, <1>2, <1>3, NativeClosesKeeps, StutterKeeps DEF Next

\* The invariant from which the others follow.
THEOREM Invariance == Spec => []IInv
BY InitKeeps, NextKeeps, PTL DEF Spec

\* Every variable has its type.
THEOREM TypeCorrect == Spec => []TypeOK
<1>1. IInv => TypeOK
  BY DEF IInv
<1> QED BY <1>1, Invariance, PTL

\* nativeWriters and provisionalNativeWriter are held by exactly the records that
\* need them: through timeouts, recoveries and lost connections no lease is left
\* behind, and none is missing while a native Session may write.
THEOREM LeasesAreExact == Spec => []LeasesMatchRecords
<1>1. IInv => LeasesMatchRecords
  BY DEF IInv, Inv
<1> QED BY <1>1, Invariance, PTL

\* Through timeouts, recoveries, forks, lost connections and wrong identities a native
\* identity has one native Session that may write, beside those that the server is about
\* to close and those that a reopening got for a connection that has closed.
THEOREM OneWriterPerIdentity == Spec => []OneWriterBesideStrays
<1>1. ASSUME IInv PROVE OneWriterBesideStrays
  <2> SUFFICES ASSUME NEW m \in Writing \ strays, NEW n \in Writing \ strays, native[m].id = native[n].id
               PROVE  m = n
    BY DEF OneWriterBesideStrays
  <2>0. /\ m \in Natives \ strays /\ native[m].st \in {"open", "closing"} /\ native[m].id # NoIdentity
        /\ n \in Natives \ strays /\ native[n].st \in {"open", "closing"}
    BY DEF Writing
  <2>1. PICK q \in Records : rec[q].st \in {"listed", "closing"} /\ rec[q].nat = m /\ rec[q].key = native[m].id
    BY <1>1, <2>0 DEF IInv, Inv, Backed
  <2>2. PICK r \in Records : rec[r].st \in {"listed", "closing"} /\ rec[r].nat = n /\ rec[r].key = native[n].id
    BY <1>1, <2>0 DEF IInv, Inv, Backed
  <2>3. native[m].id \in Identities
    BY <1>1, <2>0, ServerTypes DEF IInv, NativeTypes, AnyIdentity
  <2>4. writers[native[m].id] = q /\ writers[native[m].id] = r
    BY <1>1, <2>1, <2>2, <2>3 DEF IInv, Inv, LeasesMatchRecords
  <2> QED BY <2>1, <2>2, <2>4
<1> QED BY <1>1, Invariance, PTL

-----------------------------------------------------------------------------
(* What is on the way between a client and the server.                     *)

On(q) == {q[i] : i \in DOMAIN q}

IsOutput(f) == f.kind \in {"fault", "identity"}
Silent(q) == \A f \in On(q) : IsOutput(f)
OneAnswer(q) == \E i \in DOMAIN q : \A j \in DOMAIN q : ~IsOutput(q[j]) <=> j = i

Binding == {"open", "reopen", "resume"}
\* What the server works on for a call, and what it is asked.
Sent(op) == IF op = "resume" THEN "open" ELSE IF op = "discard" THEN "close" ELSE op
Asks(op) == IF op = "open" THEN {"open", "fork"} ELSE {Sent(op)}

\* The records that were opened, whatever became of them.
Past(r) == rec[r].st \in {"listed", "closing", "removed"}
Ours(k, r) == Listed(r) /\ rec[r].conn = k

\* The connection that is up is that of the adapter; an unused one carries
\* nothing.  What is reopened is still listed, while its socket is open.
Links ==
  /\ \A k \in up : link[owner[k]] = k
  /\ \A k \in Connections : owner[k] = 0 => toServer[k] = <<>> /\ toClient[k] = <<>> /\ serving[k].op = "none"
  /\ \A k \in open : serving[k].op = "reopen" => Listed(serving[k].on)
  /\ \A r \in Records : rec[r].st \in {"free", "opening"} => rec[r].gen = 1 /\ ~rec[r].faulted
  /\ \A c \in Clients : wrapper[c].rec # 0 =>
       Past(wrapper[c].rec) /\ (Listed(wrapper[c].rec) => rec[wrapper[c].rec].conn = wrapper[c].conn)
  /\ \A c \in Clients : wrapper[c].rec = 0 => wrapper[c].conn = 0

\* What is being called fits the wrapper.
Fits(o, w) ==
  /\ o.op = "none" => o = NoCall
  /\ o.op = "open" => w = NoWrapper
  /\ o.op = "reopen" => w.conn = o.conn /\ w.faulted
  /\ o.op = "resume" => w.conn \notin up /\ w.faulted
  /\ o.op = "close" => w.conn = o.conn /\ w.closed
  /\ o.op = "discard" => w.closed \/ w.faulted
  /\ o.frame # NoFrame => o.op \in Binding /\ o.conn \notin stale /\ o.frame.kind \in {"ok", "error", "thrown"}
Calls == \A c \in Clients : Fits(call[c], wrapper[c])

\* Unless a request on a connection has timed out, what is awaited on it is in one
\* place: a request, the work of the server, or an answer.
Awaits(k) == call[owner[k]].conn = k /\ call[owner[k]].frame = NoFrame
Quiet(k) == ~Awaits(k) /\ toServer[k] = <<>> /\ serving[k].op = "none" /\ Silent(toClient[k])
Replied(k) == Awaits(k) /\ toServer[k] = <<>> /\ serving[k].op = "none" /\ OneAnswer(toClient[k])
Worked(k) ==
  LET o == call[owner[k]]
  IN /\ Awaits(k) /\ toServer[k] = <<>> /\ Silent(toClient[k])
     /\ serving[k].op = Sent(o.op) \/ (serving[k].op = "drop" /\ o.op \in Binding)
     /\ serving[k].op # "none" /\ (serving[k].op = "reopen" => serving[k].on = wrapper[owner[k]].rec)
Asked(k) ==
  LET o == call[owner[k]] w == wrapper[owner[k]]
  IN /\ Awaits(k) /\ serving[k].op = "none" /\ Silent(toClient[k])
     /\ toServer[k] # <<>> /\ toServer[k] = <<Request(k)>> /\ Request(k).op \in Asks(o.op)
     /\ o.op = "reopen" => Request(k).rec = w.rec /\ Request(k).gen = w.gen
InOrder(k) == k \in stale \/ Quiet(k) \/ Replied(k) \/ Worked(k) \/ Asked(k)

\* A fault that was told, and an identity, is that of the record, or of an earlier
\* generation.
AnyFault(r, gen) == Listed(r) => rec[r].gen > gen \/ (rec[r].gen = gen /\ rec[r].faulted)
ToldBy(k, f) ==
  /\ f.kind # "none"
  /\ IsOutput(f) => Past(f.rec) /\ (Listed(f.rec) => rec[f.rec].conn = k)
  /\ f.kind = "fault" => AnyFault(f.rec, f.gen)
  /\ f.kind = "identity" => f.id # NoIdentity /\ (Listed(f.rec) => rec[f.rec].key = f.id)
Told(k) ==
  LET w == wrapper[owner[k]]
  IN /\ \A f \in On(toClient[k]) : ToldBy(k, f)
     /\ w.conn = k /\ w.faulted => AnyFault(w.rec, w.gen)

\* The client is told what happens to the Session of this generation and identity.
Tells(k, kind, r, gen) == \E f \in On(toClient[k]) : f.kind = kind /\ f.rec = r /\ f.gen = gen
Follows(k, r, gen, id) ==
  /\ Ours(k, r) /\ rec[r].gen = gen
  /\ \/ r \in dropped
     \/ /\ rec[r].faulted => Tells(k, "fault", r, gen)
        /\ rec[r].key = id \/ (id = NoIdentity /\ Tells(k, "identity", r, gen))

\* A wrapper that is not faulted is bound to such a Session, which it has not asked
\* to reopen or close.
Bound(k) ==
  LET w == wrapper[owner[k]]
  IN w.conn = k /\ ~w.faulted /\ ~w.closed =>
       /\ Follows(k, w.rec, w.gen, w.id)
       /\ serving[k].op = "none" /\ \A q \in On(toServer[k]) : q.op = "execute"

\* So is an answer that a wrapper will be bound to; it is not bound to it yet.
Given(k) ==
  LET o == call[owner[k]]
  IN {f \in {o.frame} \cup On(toClient[k]) : f.kind = "ok" /\ o.op \in Binding /\ o.conn = k}
Valid(k) ==
  LET w == wrapper[owner[k]]
  IN k \in stale \/ \A f \in Given(k) :
       Follows(k, f.rec, f.gen, f.id) /\ (call[owner[k]].op = "reopen" => f.rec = w.rec /\ f.gen > w.gen)

\* A Session that the server lists is known to its client, or about to be closed.
Closes(k, r) == \E q \in On(toServer[k]) : q.op = "close" /\ q.rec = r /\ q.gen = rec[r].gen
Known(k, r) ==
  LET w == wrapper[owner[k]]
  IN \/ \E f \in Given(k) : f.rec = r
     \/ w.conn = k /\ w.rec = r /\ w.gen = rec[r].gen /\ call[owner[k]].op # "close"
     \/ Closes(k, r)
Remembered(k) == k \in stale \/ \A r \in Records : Ours(k, r) => Known(k, r)

Chan(k) == InOrder(k) /\ Told(k) /\ Bound(k) /\ Valid(k) /\ Remembered(k)
Ways == Links /\ Calls /\ \A k \in up : Chan(k)
WInv == IInv /\ Ways

LEMMA OnAppend ==
  ASSUME NEW S, NEW q \in Seq(S), NEW e \in S
  PROVE  /\ On(Append(q, e)) = On(q) \cup {e}
         /\ Silent(q) => IF IsOutput(e) THEN Silent(Append(q, e)) ELSE OneAnswer(Append(q, e))
         /\ OneAnswer(q) /\ IsOutput(e) => OneAnswer(Append(q, e))
<1> DEFINE p == Append(q, e)
           n == Len(q) + 1
<1>1. /\ DOMAIN p = DOMAIN q \cup {n} /\ n \notin DOMAIN q /\ p[n] = e
      /\ \A i \in DOMAIN q : p[i] = q[i]
  <2>1. Len(p) = Len(q) + 1 /\ Len(q) \in Nat /\ DOMAIN q = 1..Len(q) /\ DOMAIN p = 1..Len(p)
    OBVIOUS
  <2>2. p[n] = e /\ \A i \in 1..Len(q) : p[i] = q[i]
    OBVIOUS
  <2> QED BY <2>1, <2>2
<1> HIDE DEF p, n
<1>2. On(p) = On(q) \cup {e}
  BY <1>1 DEF On
<1>3. Silent(q) /\ IsOutput(e) => Silent(p)
  BY <1>2 DEF Silent
<1>4. ASSUME Silent(q), ~IsOutput(e) PROVE OneAnswer(p)
  <2>1. \A j \in DOMAIN p : ~IsOutput(p[j]) <=> j = n
    BY <1>1, <1>4 DEF Silent, On
  <2> QED BY <1>1, <2>1 DEF OneAnswer
<1>5. ASSUME OneAnswer(q), IsOutput(e) PROVE OneAnswer(p)
  <2>1. PICK i \in DOMAIN q : \A j \in DOMAIN q : ~IsOutput(q[j]) <=> j = i
    BY <1>5 DEF OneAnswer
  <2>2. i \in DOMAIN p /\ \A j \in DOMAIN p : ~IsOutput(p[j]) <=> j = i
    BY <1>1, <1>5, <2>1
  <2> QED BY <2>2 DEF OneAnswer
<1> QED BY <1>2, <1>3, <1>4, <1>5 DEF p

LEMMA OnTail ==
  ASSUME NEW S, NEW q \in Seq(S), q # <<>>
  PROVE  /\ Head(q) \in S /\ Tail(q) \in Seq(S)
         /\ On(q) = {Head(q)} \cup On(Tail(q))
         /\ OneAnswer(q) => IF IsOutput(Head(q)) THEN OneAnswer(Tail(q)) ELSE Silent(Tail(q))
<1> DEFINE p == Tail(q)
<1>1. /\ p \in Seq(S) /\ Head(q) \in S /\ Head(q) = q[1] /\ 1 \in DOMAIN q /\ DOMAIN p \subseteq Nat /\ DOMAIN q \subseteq Nat
      /\ \A i \in DOMAIN p : i + 1 \in DOMAIN q /\ p[i] = q[i + 1]
      /\ \A i \in DOMAIN q : i # 1 => i - 1 \in DOMAIN p /\ p[i - 1] = q[i]
      /\ \A i \in DOMAIN p : i + 1 # 1
  OBVIOUS
<1> HIDE DEF p
<1>2. On(q) = {Head(q)} \cup On(p)
  <2>1. ASSUME NEW x \in On(q) PROVE x = Head(q) \/ x \in On(p)
    <3>1. PICK i \in DOMAIN q : x = q[i]
      BY DEF On
    <3>2. CASE i = 1
      BY <1>1, <3>1, <3>2
    <3>3. CASE i # 1
      BY <1>1, <3>1, <3>3 DEF On
    <3> QED BY <3>2, <3>3
  <2>2. \A x \in On(p) : x \in On(q)
    BY <1>1 DEF On
  <2>3. Head(q) \in On(q)
    BY <1>1 DEF On
  <2> QED BY <2>1, <2>2, <2>3
<1>3. ASSUME OneAnswer(q) PROVE IF IsOutput(Head(q)) THEN OneAnswer(p) ELSE Silent(p)
  <2>1. PICK i \in DOMAIN q : \A j \in DOMAIN q : ~IsOutput(q[j]) <=> j = i
    BY <1>3 DEF OneAnswer
  <2>2. CASE i = 1
    BY <1>1, <2>1, <2>2 DEF Silent, On
  <2>3. CASE i # 1
    <3>1. i - 1 \in DOMAIN p /\ IsOutput(Head(q))
      BY <1>1, <2>1, <2>3
    <3>2. ASSUME NEW j \in DOMAIN p PROVE ~IsOutput(p[j]) <=> j = i - 1
      <4>1. j + 1 \in DOMAIN q /\ p[j] = q[j + 1] /\ j \in Nat /\ i \in Nat
        BY <1>1
      <4> QED BY <2>1, <4>1
    <3> QED BY <3>1, <3>2 DEF OneAnswer
  <2> QED BY <2>2, <2>3
<1> QED BY <1>1, <1>2, <1>3 DEF p

LEMMA OnEmpty == On(<<>>) = {} /\ Silent(<<>>)
BY DEF On, Silent

LEMMA OnlyOne == ASSUME NEW x PROVE On(<<x>>) = {x} /\ <<x>> # <<>> /\ Head(<<x>>) = x /\ Tail(<<x>>) = <<>>
BY DEF On

\* An answer is not an output.
LEMMA FrameKinds ==
  /\ ~IsOutput(Refusal) /\ ~IsOutput(Thrown) /\ Refusal.kind = "error" /\ Thrown.kind = "thrown"
  /\ NoFrame.kind = "none" /\ NoCall.op = "none" /\ NoCall.conn = 0 /\ NoCall.frame = NoFrame
  /\ NoWrapper.conn = 0 /\ NoWrapper.rec = 0
  /\ \A r, g, x : Metadata(r, g, x).kind = "ok" /\ ~IsOutput(Metadata(r, g, x))
  /\ \A r, g, x : Metadata(r, g, x).rec = r /\ Metadata(r, g, x).gen = g /\ Metadata(r, g, x).id = x
BY DEF IsOutput, Refusal, Thrown, Metadata, Frame, NoFrame, NoCall, NoWrapper

\* The types of what belongs to a connection that is up.
LEMMA ChanTypes ==
  ASSUME IInv, NEW k \in up
  PROVE  /\ k \in Connections /\ k \in open /\ k # 0 /\ owner[k] \in Clients
         /\ toServer[k] \in Seq(Requests) /\ toClient[k] \in Seq(Frames)
         /\ On(toServer[k]) \subseteq Requests /\ On(toClient[k]) \subseteq Frames
         /\ call[owner[k]] \in [op : CallOps, conn : {0} \cup Connections, frame : Frames]
         /\ wrapper[owner[k]] \in Wrappers /\ serving[k] \in WorkTypes
<1>1. k \in Connections /\ k \in open /\ owner[k] # 0 /\ owner[k] \in {0} \cup Clients /\ k # 0
  BY ConstantFacts DEF IInv, TypeOK
<1>2. toServer[k] \in Seq(Requests) /\ toClient[k] \in Seq(Frames)
  BY <1>1 DEF IInv, Inv, Queues
<1>3. On(toServer[k]) \subseteq Requests /\ On(toClient[k]) \subseteq Frames
  BY <1>2 DEF On
<1>4. wrapper[owner[k]] \in Wrappers /\ call[owner[k]] \in [op : CallOps, conn : {0} \cup Connections, frame : Frames]
  BY <1>1, WrapperFacts DEF IInv, Inv, Queues
<1> QED BY <1>1, <1>2, <1>3, <1>4, ServerTypes DEF IInv

LEMMA OutputTypes == \A f \in Frames : (IsOutput(f) \/ f.kind = "ok") => f.rec \in Records
BY DEF Frames, AnyFrame, IsOutput

\* What a step may do to the records: one that was opened is not opened again, and
\* those of a connection look the same to its client.
Ages == \A r \in Records : Past(r) => Past(r)' /\ (Listed(r)' => Listed(r) /\ rec'[r].conn = rec[r].conn)
SameOurs(k) == \A r \in Records :
  /\ Ours(k, r)' <=> Ours(k, r)
  /\ Ours(k, r) => rec'[r].gen = rec[r].gen /\ rec'[r].key = rec[r].key /\ rec'[r].faulted = rec[r].faulted

\* A connection that a step does not touch, or on which a native Session is dropped.
LEMMA ChanKept ==
  ASSUME IInv, Links, NEW k \in up, Chan(k), Ages, SameOurs(k), dropped \subseteq dropped',
         owner'[k] = owner[k], call'[owner[k]] = call[owner[k]], wrapper'[owner[k]] = wrapper[owner[k]],
         toServer'[k] = toServer[k], toClient'[k] = toClient[k],
         serving'[k] = serving[k] \/ (serving[k].op \in {"open", "reopen"} /\ serving'[k].op = "drop"),
         k \in stale => k \in stale'
  PROVE  Chan(k)'
<1> USE DEF Chan
<1> DEFINE w == wrapper[owner[k]]
           o == call[owner[k]]
<1>1. /\ k # 0 /\ owner[k] \in Clients /\ On(toClient[k]) \subseteq Frames /\ w \in Wrappers /\ o.frame \in Frames
      /\ w.conn = k => w.rec \in Records /\ Past(w.rec) /\ (Listed(w.rec) => Ours(k, w.rec))
  BY ChanTypes DEF Wrappers, Links, Ours
<1>2. On(toClient'[k]) = On(toClient[k]) /\ On(toServer'[k]) = On(toServer[k])
  OBVIOUS
<1>3. InOrder(k)'
  <2>1. CASE serving'[k] = serving[k]
    BY <2>1 DEF InOrder, Quiet, Replied, Worked, Asked, Awaits, Request
  <2>2. CASE serving[k].op \in {"open", "reopen"} /\ serving'[k].op = "drop"
    <3>1. k \in stale \/ Worked(k)
      BY <2>2 DEF InOrder, Quiet, Replied, Asked
    <3>2. Worked(k) => o.op \in Binding
      BY <2>2 DEF Worked, Sent, Binding
    <3>3. Worked(k) => Worked(k)'
      BY <2>2, <3>2 DEF Worked, Awaits
    <3> QED BY <3>1, <3>3 DEF InOrder
  <2> QED BY <2>1, <2>2
<1>4. ASSUME NEW r \in Records, Past(r), Listed(r) => Ours(k, r), NEW gen, AnyFault(r, gen)
      PROVE  AnyFault(r, gen)'
  BY <1>4 DEF AnyFault, Ages, SameOurs, Ours
<1>5. Told(k)'
  <2>1. ASSUME NEW f \in On(toClient[k]) PROVE ToldBy(k, f)'
    <3>1. ToldBy(k, f) /\ (IsOutput(f) => f.rec \in Records)
      BY <1>1, OutputTypes DEF Told
    <3>2. CASE ~IsOutput(f)
      BY <3>1, <3>2 DEF ToldBy, IsOutput
    <3>3. CASE IsOutput(f)
      <4>1. f.rec \in Records /\ Past(f.rec) /\ (Listed(f.rec) => Ours(k, f.rec))
        BY <3>1, <3>3 DEF ToldBy, Ours
      <4>2. Past(f.rec)' /\ (Listed(f.rec)' => Listed(f.rec) /\ rec'[f.rec].conn = k)
        BY <4>1 DEF Ages, Ours
      <4>3. f.kind = "fault" => AnyFault(f.rec, f.gen)'
        BY <1>4, <3>1, <4>1 DEF ToldBy
      <4>4. Listed(f.rec)' => rec'[f.rec].key = rec[f.rec].key
        BY <4>1, <4>2 DEF SameOurs
      <4> QED BY <3>1, <3>3, <4>1, <4>2, <4>3, <4>4 DEF ToldBy
    <3> QED BY <3>2, <3>3
  <2>2. w.conn = k /\ w.faulted => AnyFault(w.rec, w.gen)'
    BY <1>1, <1>4 DEF Told
  <2> QED BY <1>2, <2>1, <2>2 DEF Told
<1>6. ASSUME NEW r \in Records, NEW gen, NEW id, Follows(k, r, gen, id)
      PROVE  Follows(k, r, gen, id)'
  BY <1>6 DEF Follows, SameOurs, Tells
<1>7. Bound(k)'
  BY <1>1, <1>2, <1>6 DEF Bound
<1>8. Given(k)' = Given(k) /\ \A f \in Given(k) : f.rec \in Records
  BY <1>1, <1>2, OutputTypes DEF Given
<1>9. Valid(k)'
  BY <1>6, <1>8 DEF Valid
<1>10. Remembered(k)'
  <2> SUFFICES ASSUME k \notin stale', NEW r \in Records, Ours(k, r)' PROVE Known(k, r)'
    BY DEF Remembered
  <2>1. Ours(k, r) /\ Known(k, r) /\ rec'[r].gen = rec[r].gen
    BY DEF Remembered, SameOurs
  <2> QED BY <1>2, <1>8, <2>1 DEF Known, Closes
<1> QED BY <1>3, <1>5, <1>7, <1>9, <1>10

\* A record that looks the same to a client.
Alike(r) ==
  /\ Listed(r)' <=> Listed(r)
  /\ Listed(r) => /\ rec'[r].conn = rec[r].conn /\ rec'[r].gen = rec[r].gen
                  /\ rec'[r].key = rec[r].key /\ rec'[r].faulted = rec[r].faulted

\* A step of the server that touches one connection and its records.
LEMMA ServerKeeps ==
  ASSUME WInv, NEW k, UNCHANGED <<clientVars, owner, up>>, open' \subseteq open, dropped \subseteq dropped', Ages,
         k \in Connections => owner[k] # 0,
         \A j \in Connections : j # k =>
           toServer'[j] = toServer[j] /\ toClient'[j] = toClient[j] /\ serving'[j] = serving[j],
         \A r \in Records : Alike(r) \/ (rec[r].conn = k /\ rec'[r].conn = k),
         \A r \in Records : rec'[r].st \in {"free", "opening"} => rec'[r].gen = 1 /\ ~rec'[r].faulted,
         k \in open' /\ serving'[k].op = "reopen" => Listed(serving[k].on)',
         k \in up => Chan(k)'
  PROVE  Ways'
<1> USE DEF WInv, Ways
<1>1. UNCHANGED <<wrapper, call, link, stale, owner, up>>
  BY DEF clientVars
<1>2. \A c \in Clients : wrapper[c].rec \in {0} \cup Records
  BY WrapperFacts
<1>3. open \subseteq Connections
  BY DEF IInv, TypeOK
<1>4. ASSUME NEW j \in up, j # k PROVE Chan(j)'
  <2>1. j \in Connections
    BY ChanTypes
  <2>2. SameOurs(j)
    BY <1>4 DEF SameOurs, Ours, Alike
  <2> QED BY <1>1, <1>4, <2>1, <2>2, ChanKept
<1>5. ASSUME NEW j \in open', serving'[j].op = "reopen" PROVE Listed(serving[j].on)'
  <2>1. CASE j = k
    BY <1>5, <2>1
  <2>2. CASE j # k
    <3> DEFINE r == serving[j].on
    <3>1. j \in Connections /\ j \in open /\ serving'[j] = serving[j]
      BY <1>3, <1>5, <2>2
    <3>2. Listed(r) /\ r \in Records /\ rec[r].conn = j
      BY <1>5, <3>1 DEF Links, IInv, Inv, Serves, ServesOne
    <3> QED BY <2>2, <3>1, <3>2 DEF Alike
  <2> QED BY <2>1, <2>2
<1>6. Links'
  <2>1. (\A j \in up : link[owner[j]] = j)'
    BY <1>1 DEF Links
  <2>2. (\A j \in Connections : owner[j] = 0 => toServer[j] = <<>> /\ toClient[j] = <<>> /\ serving[j].op = "none")'
    BY <1>1 DEF Links
  <2>3. (\A c \in Clients : wrapper[c].rec # 0 =>
           Past(wrapper[c].rec) /\ (Listed(wrapper[c].rec) => rec[wrapper[c].rec].conn = wrapper[c].conn))'
    BY <1>1, <1>2 DEF Links, Ages
  <2> QED BY <1>1, <1>5, <2>1, <2>2, <2>3 DEF Links
<1>7. Calls'
  BY <1>1 DEF Calls, Fits
<1> QED BY <1>1, <1>4, <1>6, <1>7

\* A step of one client.
LEMMA ClientKeeps ==
  ASSUME WInv, IInv', NEW c \in Clients, UNCHANGED <<rec, serving>>, dropped \subseteq dropped',
         open' \subseteq open \cup {j \in Connections : owner[j] = 0},
         \A d \in Clients : d # c => call'[d] = call[d] /\ wrapper'[d] = wrapper[d] /\ link'[d] = link[d],
         \A j \in Connections : (owner[j] # 0 => owner'[j] = owner[j]) /\ owner'[j] \in {owner[j], c},
         \A j \in Connections : owner'[j] # c =>
           /\ toServer'[j] = toServer[j] /\ toClient'[j] = toClient[j]
           /\ j \in up' <=> j \in up
           /\ j \in stale' <=> j \in stale,
         wrapper'[c].rec # 0 =>
           Past(wrapper'[c].rec) /\ (Listed(wrapper'[c].rec) => rec[wrapper'[c].rec].conn = wrapper'[c].conn),
         wrapper'[c].rec = 0 => wrapper'[c].conn = 0,
         Fits(call[c], wrapper[c])',
         \A k \in up' : owner'[k] = c => link'[c] = k /\ Chan(k)'
  PROVE  Ways'
<1> USE DEF WInv, Ways
<1>1. up' \subseteq Connections /\ up \subseteq Connections /\ open' \subseteq Connections /\ 0 \notin up'
  BY ConstantFacts DEF IInv, TypeOK
<1>2. owner \in [Connections -> {0} \cup Clients] /\ 0 \notin Clients
  BY BrokerAssumption DEF IInv, TypeOK
<1>3. Ages
  BY DEF Ages, Past, Listed
<1>4. \A k : SameOurs(k)
  BY DEF SameOurs, Ours, Listed
<1>5. ASSUME NEW j \in up', owner'[j] # c PROVE Chan(j)' /\ link'[owner'[j]] = j
  <2>1. j \in up /\ j \in Connections
    BY <1>1, <1>5
  <2>2. owner[j] # 0 /\ owner[j] \in Clients /\ owner'[j] = owner[j]
    BY <2>1, <1>2, ChanTypes
  <2>3. link[owner[j]] = j
    BY <2>1 DEF Links
  <2> QED BY <1>3, <1>4, <1>5, <2>1, <2>2, <2>3, ChanKept
<1>6. Links'
  <2>1. (\A j \in up : link[owner[j]] = j)'
    BY <1>5
  <2>2. ASSUME NEW j \in Connections, owner'[j] = 0
        PROVE  toServer'[j] = <<>> /\ toClient'[j] = <<>> /\ serving'[j].op = "none"
    BY <1>2, <2>2 DEF Links
  <2>3. ASSUME NEW j \in open', serving'[j].op = "reopen" PROVE Listed(serving[j].on)'
    BY <2>3, <1>1 DEF Links, Listed
  <2>4. (\A d \in Clients : wrapper[d].rec # 0 =>
           Past(wrapper[d].rec) /\ (Listed(wrapper[d].rec) => rec[wrapper[d].rec].conn = wrapper[d].conn))'
    BY DEF Links, Past, Listed
  <2>5. (\A d \in Clients : wrapper[d].rec = 0 => wrapper[d].conn = 0)'
    BY DEF Links
  <2>6. \A r \in Records : rec'[r].st \in {"free", "opening"} => rec'[r].gen = 1 /\ ~rec'[r].faulted
    BY DEF Links
  <2> QED BY <2>1, <2>2, <2>3, <2>4, <2>5, <2>6 DEF Links
<1>7. Calls'
  <2> SUFFICES ASSUME NEW d \in Clients, d # c PROVE Fits(call[d], wrapper[d])'
    BY DEF Calls
  <2>1. Fits(call[d], wrapper[d])
    BY DEF Calls
  <2>2. wrapper[d].conn \notin up => wrapper[d].conn \notin up'
    <3>1. wrapper[d].conn \in {0} \cup Connections /\ (wrapper[d].conn # 0 => owner[wrapper[d].conn] = d)
      BY WrapperFacts DEF Wrappers
    <3> QED BY <1>1, <1>2, <3>1
  <2>3. call[d].op # "none" /\ call[d].conn \notin stale => call[d].conn \notin stale'
    <3>1. call[d].op # "none" => call[d].conn \in Connections /\ owner[call[d].conn] = d
      BY WrapperFacts
    <3> QED BY <1>2, <3>1
  <2> QED BY <2>1, <2>2, <2>3 DEF Fits, Binding
<1> QED BY <1>5, <1>6, <1>7

\* Records go on: a fault ends with a generation, and an identity stays.
Advances(k) == \A r \in Records : Past(r) /\ Ours(k, r)' =>
  /\ rec'[r].gen > rec[r].gen \/ (rec'[r].gen = rec[r].gen /\ (rec[r].faulted => rec'[r].faulted))
  /\ rec[r].key # NoIdentity => rec'[r].key = rec[r].key

LEMMA SameAdvances == ASSUME Ages, NEW k, SameOurs(k) PROVE Advances(k)
BY DEF Ages, SameOurs, Advances, Ours, Listed

LEMMA FaultKept ==
  ASSUME IInv, IInv', NEW k, Ages, Advances(k), NEW r \in Records, Past(r), Listed(r) => Ours(k, r),
         NEW gen \in Nat, AnyFault(r, gen)
  PROVE  AnyFault(r, gen)'
<1> SUFFICES ASSUME Listed(r)' PROVE rec'[r].gen > gen \/ (rec'[r].gen = gen /\ rec'[r].faulted)
  BY DEF AnyFault
<1>1. Listed(r) /\ Ours(k, r) /\ Ours(k, r)'
  BY DEF Ages, Ours
<1>2. rec[r].gen > gen \/ (rec[r].gen = gen /\ rec[r].faulted)
  BY <1>1 DEF AnyFault
<1>3. rec'[r].gen > rec[r].gen \/ (rec'[r].gen = rec[r].gen /\ (rec[r].faulted => rec'[r].faulted))
  BY <1>1 DEF Advances
<1>4. rec[r].gen \in Nat /\ rec'[r].gen \in Nat
  BY DEF IInv, TypeOK
<1> QED BY <1>2, <1>3, <1>4

LEMMA ToldKept ==
  ASSUME WInv, IInv', NEW k \in up, Ages, Advances(k), owner'[k] = owner[k], wrapper'[owner[k]] = wrapper[owner[k]],
         \A f \in On(toClient'[k]) : f \in On(toClient[k]) \/ ToldBy(k, f)'
  PROVE  Told(k)'
<1> DEFINE w == wrapper[owner[k]]
<1>1. /\ k # 0 /\ owner[k] \in Clients /\ On(toClient[k]) \subseteq Frames /\ w \in Wrappers
      /\ w.conn = k => w.rec \in Records /\ Past(w.rec) /\ (Listed(w.rec) => Ours(k, w.rec))
      /\ Told(k)
  BY ChanTypes DEF WInv, Ways, Chan, Wrappers, Links, Ours
<1>2. ASSUME NEW f \in On(toClient[k]) PROVE ToldBy(k, f)'
  <2>1. ToldBy(k, f) /\ (IsOutput(f) => f.rec \in Records /\ f.gen \in Nat)
    BY <1>1, OutputTypes DEF Told, Frames, AnyFrame
  <2>2. CASE ~IsOutput(f)
    BY <2>1, <2>2 DEF ToldBy, IsOutput
  <2>3. CASE IsOutput(f)
    <3>1. f.rec \in Records /\ Past(f.rec) /\ (Listed(f.rec) => Ours(k, f.rec))
      BY <2>1, <2>3 DEF ToldBy, Ours
    <3>2. Past(f.rec)' /\ (Listed(f.rec)' => Listed(f.rec) /\ rec'[f.rec].conn = k)
      BY <3>1 DEF Ages, Ours
    <3>3. f.kind = "fault" => AnyFault(f.rec, f.gen)'
      BY <2>1, <2>3, <3>1, FaultKept DEF ToldBy, WInv
    <3>4. f.kind = "identity" => (Listed(f.rec)' => rec'[f.rec].key = f.id)
      BY <2>1, <3>1, <3>2 DEF ToldBy, Advances, Ours
    <3> QED BY <2>1, <2>3, <3>1, <3>2, <3>3, <3>4 DEF ToldBy
  <2> QED BY <2>2, <2>3
<1>3. w.conn = k /\ w.faulted => AnyFault(w.rec, w.gen)'
  BY <1>1, FaultKept DEF Told, WInv, Wrappers
<1> QED BY <1>2, <1>3 DEF Told

\* While a request is on its way, or the server works on it, no answer is at hand.
LEMMA NothingGiven == ASSUME NEW k, Awaits(k), Silent(toClient[k]) PROVE Given(k) = {}
BY FrameKinds DEF Given, Awaits, Silent, IsOutput

LEMMA FollowsKept ==
  ASSUME NEW k, NEW r \in Records, NEW gen, NEW id, Follows(k, r, gen, id), dropped \subseteq dropped',
         Ours(k, r)', rec'[r].gen = rec[r].gen, rec'[r].key = rec[r].key, rec'[r].faulted = rec[r].faulted,
         On(toClient[k]) \subseteq On(toClient'[k])
  PROVE  Follows(k, r, gen, id)'
BY DEF Follows, Tells

\* The records that a binding is about.
LEMMA BoundTypes ==
  ASSUME WInv, NEW k \in up
  PROVE  /\ wrapper[owner[k]].conn = k => wrapper[owner[k]].rec \in Records
         /\ \A f \in Given(k) : f.rec \in Records /\ f.gen \in Nat
<1>1. /\ k # 0 /\ owner[k] \in Clients /\ On(toClient[k]) \subseteq Frames
      /\ wrapper[owner[k]] \in Wrappers /\ call[owner[k]].frame \in Frames
  BY ChanTypes DEF WInv
<1>2. wrapper[owner[k]].conn = k => wrapper[owner[k]].rec \in Records
  BY <1>1 DEF WInv, Ways, Links, Wrappers
<1>3. \A f \in Given(k) : f.rec \in Records /\ f.gen \in Nat
  BY <1>1, OutputTypes DEF Given, Frames, AnyFrame
<1> QED BY <1>2, <1>3

\* The server answers a request: one it has just taken, or the one it worked on.
\* An answer that binds a wrapper is dealt with apart.
LEMMA AnswerChan ==
  ASSUME WInv, IInv', NEW k \in up, UNCHANGED <<clientVars, owner>>, Ages, SameOurs(k), dropped \subseteq dropped',
         NEW f \in Frames, ~IsOutput(f), f.kind # "none",
         toClient'[k] = Append(toClient[k], f), serving'[k].op = "none",
         \/ toServer'[k] = toServer[k] /\ serving[k].op # "none"
         \/ /\ toServer[k] # <<>> /\ serving[k].op = "none" /\ toServer'[k] = Tail(toServer[k])
            /\ \A r \in Records : Ours(k, r) =>
                 ~(Request(k).op = "close" /\ Request(k).rec = r /\ Request(k).gen = rec[r].gen),
         f.kind = "ok" => k \in stale \/ call[owner[k]].op \notin Binding
  PROVE  Chan(k)'
<1> USE DEF WInv, Ways, Chan
<1> DEFINE c == owner[k]
           q == toServer[k]
<1>1. /\ q \in Seq(Requests) /\ toClient[k] \in Seq(Frames) /\ c \in Clients /\ owner' = owner
      /\ wrapper' = wrapper /\ call' = call /\ stale' = stale
  BY ChanTypes DEF clientVars
<1>2. /\ On(toClient'[k]) = On(toClient[k]) \cup {f}
      /\ Silent(toClient[k]) => OneAnswer(toClient'[k])
  BY <1>1, OnAppend
<1>3. /\ On(toServer'[k]) \subseteq On(q)
      /\ q # <<>> => On(q) = {Request(k)} \cup On(Tail(q))
  BY <1>1, OnTail DEF Request
<1>4. InOrder(k)'
  <2>1. CASE toServer'[k] = q /\ serving[k].op # "none"
    BY <1>1, <1>2, <2>1 DEF InOrder, Quiet, Replied, Worked, Asked, Awaits
  <2>2. CASE q # <<>> /\ serving[k].op = "none" /\ toServer'[k] = Tail(q)
    <3>1. k \in stale \/ Asked(k)
      BY <2>2 DEF InOrder, Quiet, Replied, Worked
    <3>2. Asked(k) => toServer'[k] = <<>>
      BY <2>2, OnlyOne DEF Asked
    <3> QED BY <1>1, <1>2, <3>1, <3>2 DEF InOrder, Replied, Asked, Awaits
  <2> QED BY <2>1, <2>2
<1>5. Told(k)'
  <2>1. ToldBy(k, f)'
    BY DEF ToldBy, IsOutput
  <2> QED BY <1>1, <1>2, <2>1, SameAdvances, ToldKept
<1>6. ASSUME NEW r \in Records, NEW gen, NEW id, Follows(k, r, gen, id) PROVE Follows(k, r, gen, id)'
  <2>1. Ours(k, r)
    BY <1>6 DEF Follows
  <2> QED BY <1>2, <1>6, <2>1, FollowsKept DEF SameOurs
<1>7. Bound(k)'
  BY <1>1, <1>3, <1>6, BoundTypes DEF Bound
<1>8. k \in stale \/ Given(k)' = Given(k)
  BY <1>1, <1>2 DEF Given
<1>9. Valid(k)'
  BY <1>1, <1>6, <1>8, BoundTypes DEF Valid
<1>10. Remembered(k)'
  <2> SUFFICES ASSUME k \notin stale, NEW r \in Records, Ours(k, r)' PROVE Known(k, r)'
    BY <1>1 DEF Remembered
  <2>1. Ours(k, r) /\ Known(k, r) /\ rec'[r].gen = rec[r].gen
    BY DEF Remembered, SameOurs
  <2>2. Closes(k, r) => Closes(k, r)'
    BY <1>3, <2>1 DEF Closes
  <2> QED BY <1>1, <1>8, <2>1, <2>2 DEF Known
<1> QED BY <1>4, <1>5, <1>7, <1>9, <1>10

\* The server answers an open or a reopening with the Session that the wrapper will
\* be bound to.
LEMMA BindChan ==
  ASSUME WInv, IInv', NEW k \in up, UNCHANGED <<clientVars, owner, toServer, dropped>>, Ages, Advances(k),
         serving[k].op \in {"open", "reopen"}, serving'[k].op = "none",
         NEW r \in Records, r = serving[k].on, Ours(k, r)', ~rec'[r].faulted,
         \A q \in Records : q # r => rec'[q] = rec[q],
         NEW f, f = Metadata(r, rec'[r].gen, rec'[r].key), toClient'[k] = Append(toClient[k], f),
         serving[k].op = "reopen" => Listed(r) /\ rec'[r].gen > rec[r].gen
  PROVE  Chan(k)'
<1> USE DEF WInv, Ways, Chan
<1> DEFINE c == owner[k]
           o == call[owner[k]]
<1>1. /\ toClient[k] \in Seq(Frames) /\ c \in Clients /\ owner' = owner
      /\ wrapper' = wrapper /\ call' = call /\ stale' = stale /\ toServer' = toServer
  BY ChanTypes DEF clientVars
<1>2. /\ rec'[r].gen \in Nat /\ rec'[r].key \in AnyIdentity /\ rec[r].gen \in Nat
      /\ wrapper[c].gen \in Nat
  BY <1>1, WrapperFacts DEF IInv, TypeOK, AnyIdentity
<1>3. /\ f \in Frames /\ ~IsOutput(f) /\ f.kind = "ok" /\ f.rec = r /\ f.gen = rec'[r].gen /\ f.id = rec'[r].key
  BY <1>2, FrameFacts, FrameKinds
<1>4. /\ On(toClient'[k]) = On(toClient[k]) \cup {f}
      /\ Silent(toClient[k]) => OneAnswer(toClient'[k])
  BY <1>1, <1>3, OnAppend
<1>5. k \in stale \/ Worked(k)
  BY DEF InOrder, Quiet, Replied, Asked
<1>6. InOrder(k)'
  BY <1>1, <1>4, <1>5 DEF InOrder, Worked, Replied, Awaits
<1>7. Told(k)'
  <2>1. ToldBy(k, f)'
    BY <1>3 DEF ToldBy, IsOutput
  <2> QED BY <1>1, <1>4, <2>1, ToldKept
<1>8. Bound(k)'
  BY <1>1 DEF Bound
<1>9. k \in stale \/ (o.op \in Binding /\ o.conn = k /\ Given(k)' = {f})
  <2>1. Worked(k) => Given(k) = {}
    BY NothingGiven DEF Worked
  <2>2. Worked(k) => o.op \in Binding /\ o.conn = k
    BY DEF Worked, Awaits, Sent, Binding
  <2> QED BY <1>1, <1>3, <1>4, <1>5, <2>1, <2>2 DEF Given
<1>10. Valid(k)'
  <2> SUFFICES ASSUME k \notin stale
               PROVE  /\ Follows(k, f.rec, f.gen, f.id)'
                      /\ o.op = "reopen" => f.rec = wrapper[c].rec /\ f.gen > wrapper[c].gen
    BY <1>1, <1>9 DEF Valid
  <2>1. Follows(k, f.rec, f.gen, f.id)'
    BY <1>3 DEF Follows
  <2>2. ASSUME o.op = "reopen" PROVE f.rec = wrapper[c].rec /\ f.gen > wrapper[c].gen
    <3>1. serving[k].op = "reopen" /\ r = wrapper[c].rec /\ o.conn = k
      BY <1>5, <2>2 DEF Worked, Sent, Awaits
    <3>2. wrapper[c].conn = k /\ wrapper[c].faulted
      BY <1>1, <2>2, <3>1 DEF Calls, Fits
    <3>3. AnyFault(r, wrapper[c].gen)
      BY <3>1, <3>2 DEF Told
    <3>4. rec[r].gen >= wrapper[c].gen
      BY <1>2, <3>1, <3>3 DEF AnyFault
    <3>5. rec'[r].gen > wrapper[c].gen
      BY <1>2, <3>1, <3>4
    <3> QED BY <1>3, <3>1, <3>5
  <2> QED BY <2>1, <2>2
<1>11. Remembered(k)'
  <2> SUFFICES ASSUME k \notin stale, NEW q \in Records, Ours(k, q)' PROVE Known(k, q)'
    BY <1>1 DEF Remembered
  <2>1. CASE q = r
    BY <1>3, <1>9, <2>1 DEF Known
  <2>2. CASE q # r
    <3>1. Ours(k, q) /\ Known(k, q) /\ rec'[q] = rec[q]
      BY <2>2 DEF Remembered, Ours, Listed
    <3>2. Given(k) = {}
      BY <1>5, NothingGiven DEF Worked
    <3> QED BY <1>1, <3>1, <3>2 DEF Known, Closes
  <2> QED BY <2>1, <2>2
<1> QED BY <1>6, <1>7, <1>8, <1>10, <1>11

\* The server takes a request, and works on it.
LEMMA TakenChan ==
  ASSUME WInv, IInv', NEW k \in up, UNCHANGED <<clientVars, owner, toClient, dropped>>, Ages, Advances(k),
         toServer[k] # <<>>, serving[k].op = "none", toServer'[k] = Tail(toServer[k]),
         serving'[k].op = IF Request(k).op = "fork" THEN "open" ELSE Request(k).op,
         Request(k).op \notin {"none", "execute"},
         Request(k).op = "reopen" => serving'[k].on = Request(k).rec,
         \A r \in Records : Ours(k, r)' =>
           rec'[r] = rec[r] /\ ~(Request(k).op = "close" /\ Request(k).rec = r /\ Request(k).gen = rec[r].gen)
  PROVE  Chan(k)'
<1> USE DEF WInv, Ways, Chan
<1> DEFINE c == owner[k]
           q == toServer[k]
<1>1. /\ q \in Seq(Requests) /\ c \in Clients /\ owner' = owner /\ toClient' = toClient
      /\ wrapper' = wrapper /\ call' = call /\ stale' = stale
  BY ChanTypes DEF clientVars
<1>2. On(q) = {Request(k)} \cup On(toServer'[k])
  BY <1>1, OnTail DEF Request
<1>3. k \in stale \/ Asked(k)
  BY DEF InOrder, Quiet, Replied, Worked
<1>4. InOrder(k)'
  <2>1. Asked(k) => toServer'[k] = <<>>
    BY OnlyOne DEF Asked
  <2>2. call[c].op \in CallOps
    BY ChanTypes
  <2>3. Asked(k) => serving'[k].op = Sent(call[c].op)
    BY <2>2 DEF Asked, Asks, Sent, CallOps
  <2>4. Asked(k) /\ serving'[k].op = "reopen" => serving'[k].on = wrapper[c].rec
    <3>1. Asked(k) /\ serving'[k].op = "reopen" => call[c].op = "reopen" /\ Request(k).op = "reopen"
      BY <2>2 DEF Asked, Asks, Sent, CallOps
    <3> QED BY <3>1 DEF Asked
  <2>5. serving'[k].op # "none"
    OBVIOUS
  <2>6. Asked(k) => Worked(k)'
    BY <1>1, <2>1, <2>3, <2>4, <2>5 DEF Worked, Asked, Awaits
  <2> QED BY <1>1, <1>3, <2>6 DEF InOrder
<1>5. Told(k)'
  BY <1>1, ToldKept
<1>6. Bound(k)'
  BY <1>1, <1>2 DEF Bound
<1>7. k \in stale \/ (Given(k) = {} /\ Given(k)' = {})
  BY <1>1, <1>3, NothingGiven DEF Asked, Given
<1>8. Valid(k)'
  BY <1>1, <1>7 DEF Valid
<1>9. Remembered(k)'
  <2> SUFFICES ASSUME k \notin stale, NEW r \in Records, Ours(k, r)' PROVE Known(k, r)'
    BY <1>1 DEF Remembered
  <2>1. rec'[r] = rec[r] /\ Ours(k, r) /\ Known(k, r)
    BY DEF Remembered, Ours, Listed
  <2>2. Closes(k, r) => Closes(k, r)'
    BY <1>2, <2>1 DEF Closes
  <2> QED BY <1>1, <1>7, <2>1, <2>2 DEF Known
<1> QED BY <1>4, <1>5, <1>6, <1>8, <1>9

\* What happens to a Session is told to its client, or the record is one whose
\* wrapper has missed it.
LEMMA OutputChan ==
  ASSUME WInv, IInv', NEW k \in up, UNCHANGED <<clientVars, owner, toServer, serving>>,
         dropped \subseteq dropped', Ages, Advances(k),
         NEW r \in Records, Ours(k, r), Ours(k, r)', rec'[r].gen = rec[r].gen,
         \A q \in Records : q # r => rec'[q] = rec[q],
         \/ toClient' = toClient /\ r \in dropped'
         \/ \E f \in Frames :
              /\ IsOutput(f) /\ ToldBy(k, f)' /\ toClient'[k] = Append(toClient[k], f)
              /\ f.rec = r /\ f.gen = rec[r].gen
              /\ rec'[r].faulted => rec[r].faulted \/ f.kind = "fault"
              /\ rec'[r].key = rec[r].key \/ (rec[r].key = NoIdentity /\ f.kind = "identity")
  PROVE  Chan(k)'
<1> USE DEF WInv, Ways, Chan
<1> DEFINE c == owner[k]
<1>1. /\ toClient[k] \in Seq(Frames) /\ c \in Clients /\ owner' = owner
      /\ wrapper' = wrapper /\ call' = call /\ stale' = stale /\ toServer' = toServer /\ serving' = serving
  BY ChanTypes DEF clientVars
<1>2. /\ On(toClient[k]) \subseteq On(toClient'[k])
      /\ \A f \in On(toClient'[k]) : f \in On(toClient[k]) \/ (IsOutput(f) /\ ToldBy(k, f)')
      /\ Silent(toClient[k]) => Silent(toClient'[k])
      /\ OneAnswer(toClient[k]) => OneAnswer(toClient'[k])
      /\ \/ r \in dropped'
         \/ /\ rec'[r].faulted => rec[r].faulted \/ Tells(k, "fault", r, rec[r].gen)'
            /\ rec'[r].key = rec[r].key \/ (rec[r].key = NoIdentity /\ Tells(k, "identity", r, rec[r].gen)')
  <2>1. CASE toClient' = toClient /\ r \in dropped'
    BY <2>1
  <2>2. CASE \E f \in Frames :
              /\ IsOutput(f) /\ ToldBy(k, f)' /\ toClient'[k] = Append(toClient[k], f)
              /\ f.rec = r /\ f.gen = rec[r].gen
              /\ rec'[r].faulted => rec[r].faulted \/ f.kind = "fault"
              /\ rec'[r].key = rec[r].key \/ (rec[r].key = NoIdentity /\ f.kind = "identity")
    <3>1. PICK f \in Frames :
              /\ IsOutput(f) /\ ToldBy(k, f)' /\ toClient'[k] = Append(toClient[k], f)
              /\ f.rec = r /\ f.gen = rec[r].gen
              /\ rec'[r].faulted => rec[r].faulted \/ f.kind = "fault"
              /\ rec'[r].key = rec[r].key \/ (rec[r].key = NoIdentity /\ f.kind = "identity")
      BY <2>2
    <3>2. /\ On(toClient'[k]) = On(toClient[k]) \cup {f}
          /\ Silent(toClient[k]) => Silent(toClient'[k])
          /\ OneAnswer(toClient[k]) => OneAnswer(toClient'[k])
      BY <1>1, <3>1, OnAppend
    <3>3. f.kind = "fault" => Tells(k, "fault", r, rec[r].gen)'
      BY <3>1, <3>2 DEF Tells
    <3>4. f.kind = "identity" => Tells(k, "identity", r, rec[r].gen)'
      BY <3>1, <3>2 DEF Tells
    <3> QED BY <3>1, <3>2, <3>3, <3>4
  <2> QED BY <2>1, <2>2
<1>3. InOrder(k)'
  <2>1. Quiet(k) => Quiet(k)'
    BY <1>1, <1>2 DEF Quiet, Awaits
  <2>2. Replied(k) => Replied(k)'
    BY <1>1, <1>2 DEF Replied, Awaits
  <2>3. Worked(k) => Worked(k)'
    BY <1>1, <1>2 DEF Worked, Awaits
  <2>4. Asked(k) => Asked(k)'
    BY <1>1, <1>2 DEF Asked, Awaits, Request
  <2> QED BY <1>1, <2>1, <2>2, <2>3, <2>4 DEF InOrder
<1>4. Told(k)'
  BY <1>1, <1>2, ToldKept
<1>5. ASSUME NEW q \in Records, NEW gen, NEW id, Follows(k, q, gen, id) PROVE Follows(k, q, gen, id)'
  <2>1. CASE q # r
    <3>1. rec'[q] = rec[q] /\ Ours(k, q) /\ Ours(k, q)'
      BY <1>5, <2>1 DEF Follows, Ours, Listed
    <3> QED BY <1>2, <1>5, <3>1, FollowsKept
  <2>2. CASE q = r
    <3>1. Tells(k, "fault", r, gen) => Tells(k, "fault", r, gen)'
      BY <1>2 DEF Tells
    <3>2. Tells(k, "identity", r, gen) => Tells(k, "identity", r, gen)'
      BY <1>2 DEF Tells
    <3> QED BY <1>2, <1>5, <2>2, <3>1, <3>2 DEF Follows
  <2> QED BY <2>1, <2>2
<1>6. Bound(k)'
  BY <1>1, <1>5, BoundTypes DEF Bound
<1>7. Given(k)' = Given(k)
  BY <1>1, <1>2 DEF Given, IsOutput
<1>8. Valid(k)'
  BY <1>1, <1>5, <1>7, BoundTypes DEF Valid
<1>9. Remembered(k)'
  <2> SUFFICES ASSUME k \notin stale, NEW q \in Records, Ours(k, q)' PROVE Known(k, q)'
    BY <1>1 DEF Remembered
  <2>1. Ours(k, q) /\ rec'[q].gen = rec[q].gen
    BY DEF Ours, Listed
  <2>2. Known(k, q)
    BY <2>1 DEF Remembered
  <2> QED BY <1>1, <1>7, <2>1, <2>2 DEF Known, Closes
<1> QED BY <1>3, <1>4, <1>6, <1>8, <1>9

-----------------------------------------------------------------------------
(* The server's steps.                                                     *)

LEMMA RespondAt ==
  ASSUME IInv, NEW k \in Connections, NEW f, Respond(k, f)
  PROVE  /\ k \in up => toClient'[k] = Append(toClient[k], f)
         /\ serving'[k] = NoWork /\ serving'[k].op = "none"
         /\ \A j \in Connections : j # k => toClient'[j] = toClient[j] /\ serving'[j] = serving[j]
<1>1. toClient \in [Connections -> Seq(Frames)] /\ serving \in [Connections -> WorkTypes]
  BY ServerTypes DEF IInv, Inv, Queues
<1> QED BY <1>1 DEF Respond, SendTo, NoWork, Work

LEMMA TakeAt ==
  ASSUME IInv, NEW k \in Connections, NEW op, Takes(k, op)
  PROVE  /\ toServer[k] # <<>> /\ toServer'[k] = Tail(toServer[k]) /\ serving[k].op = "none"
         /\ Request(k).op = op /\ Request(k) \in Requests /\ k \in open /\ owner[k] # 0
         /\ \A j \in Connections : j # k => toServer'[j] = toServer[j]
<1>1. toServer \in [Connections -> Seq(Requests)]
  BY DEF IInv, Inv, Queues
<1>2. owner[k] # 0
  BY DEF Takes, IInv, TypeOK
<1>3. Request(k) \in Requests
  BY Taking DEF IInv, Inv
<1> QED BY <1>1, <1>2, <1>3 DEF Takes, NoWork, Work

\* A request whose answer tells no client of a Session it does not know.
LEMMA AnswerWays ==
  ASSUME WInv, IInv', NEW k \in Connections, UNCHANGED <<open, clientVars, owner, up, dropped>>,
         NEW f \in Frames, ~IsOutput(f), f.kind # "none", Respond(k, f),
         \A j \in Connections : j # k => toServer'[j] = toServer[j],
         \/ toServer'[k] = toServer[k] /\ serving[k].op # "none"
         \/ /\ toServer[k] # <<>> /\ serving[k].op = "none" /\ toServer'[k] = Tail(toServer[k])
            /\ \A r \in Records : Ours(k, r) =>
                 ~(Request(k).op = "close" /\ Request(k).rec = r /\ Request(k).gen = rec[r].gen),
         k \in up /\ f.kind = "ok" => k \in stale \/ call[owner[k]].op \notin Binding,
         \A r \in Records : Alike(r) /\ (Past(r) => Past(r)'),
         \A r \in Records : rec'[r].st \in {"free", "opening"} => rec'[r].gen = 1 /\ ~rec'[r].faulted
  PROVE  Ways'
<1>1. /\ k \in up => toClient'[k] = Append(toClient[k], f)
      /\ serving'[k].op = "none"
      /\ \A j \in Connections : j # k => toClient'[j] = toClient[j] /\ serving'[j] = serving[j]
  BY RespondAt DEF WInv
<1>2. owner[k] # 0
  BY DEF WInv, Ways, Links
<1>3. Ages
  BY DEF Ages, Alike
<1>4. SameOurs(k)
  BY DEF SameOurs, Ours, Alike
<1>5. k \in up => Chan(k)'
  BY <1>1, <1>3, <1>4, AnswerChan
<1> QED BY <1>1, <1>2, <1>3, <1>5, ServerKeeps

LEMMA SameRecords ==
  ASSUME WInv, UNCHANGED rec
  PROVE  /\ \A r \in Records : Alike(r) /\ (Past(r) => Past(r)')
         /\ \A r \in Records : rec'[r].st \in {"free", "opening"} => rec'[r].gen = 1 /\ ~rec'[r].faulted
         /\ Ages /\ \A k : SameOurs(k) /\ Advances(k)
<1>1. \A r \in Records : rec[r].st \in {"free", "opening"} => rec[r].gen = 1 /\ ~rec[r].faulted
  BY DEF WInv, Ways, Links
<1>2. \A r \in Records : Alike(r) /\ (Past(r) => Past(r)')
  BY DEF Alike, Listed, Past
<1>3. Ages
  BY DEF Ages, Listed, Past
<1>4. \A k : SameOurs(k)
  BY DEF SameOurs, Ours, Listed
<1> QED BY <1>1, <1>2, <1>3, <1>4, SameAdvances

LEMMA RefusalFrames == \A f \in {Refusal, Thrown} : f \in Frames /\ ~IsOutput(f) /\ f.kind # "none" /\ f.kind # "ok"
BY FrameFacts, FrameKinds

LEMMA TakeOpenWays == ASSUME WInv, IInv', NEW k \in Connections, TakeOpen(k) PROVE Ways'
<1> DEFINE id == Request(k).id
           r == NewOf(FreeRecords)
<1>1. /\ UNCHANGED <<native, open, clientVars, owner, up, history>> /\ dropped' = dropped
  BY DEF TakeOpen, history
<1>0. PICK op \in {"open", "fork"} : Takes(k, op)
  BY DEF TakeOpen
<1>2. /\ toServer[k] # <<>> /\ toServer'[k] = Tail(toServer[k]) /\ serving[k].op = "none"
      /\ Request(k).op \in {"open", "fork"} /\ k \in open /\ owner[k] # 0
      /\ \A j \in Connections : j # k => toServer'[j] = toServer[j]
  BY <1>0, TakeAt DEF WInv
<1>3. CASE Respond(k, Refusal) /\ UNCHANGED rec
  BY <1>1, <1>2, <1>3, SameRecords, RefusalFrames, AnswerWays
<1>4. CASE /\ FreeRecords # {}
           /\ rec' = [rec EXCEPT ![r].st = "opening", ![r].conn = k, ![r].key = id,
                                 ![r].fork = (Request(k).op = "fork")]
           /\ serving' = [serving EXCEPT ![k] = Work("open", r)]
           /\ UNCHANGED toClient
  <2>1. r \in Records /\ rec[r] = NoRecord
    BY <1>4, NewOfFacts DEF FreeRecords, WInv, IInv, Inv, Holds
  <2> HIDE DEF r, id
  <2>2. rec \in [Records -> RecTypes] /\ serving \in [Connections -> WorkTypes]
    BY ServerTypes DEF WInv, IInv
  <2>3. /\ rec'[r].st = "opening" /\ rec'[r].gen = 1 /\ ~rec'[r].faulted
        /\ \A q \in Records : q # r => rec'[q] = rec[q]
    <3>0. PICK x : x = (Request(k).op = "fork")
      OBVIOUS
    <3> DEFINE e == [NoRecord EXCEPT !.st = "opening", !.conn = k, !.key = id, !.fork = x]
    <3>1. e.st = "opening" /\ e.gen = 1 /\ ~e.faulted
      BY DEF NoRecord
    <3>2. rec' = [rec EXCEPT ![r].st = "opening", ![r].conn = k, ![r].key = id, ![r].fork = x]
      BY <1>4, <3>0
    <3>3. rec' = [rec EXCEPT ![r] = e]
      BY <2>1, <3>2, Zenon
    <3> HIDE DEF e
    <3> QED BY <2>1, <2>2, <3>1, <3>3
  <2>4. rec[r].st = "free"
    BY <2>1 DEF NoRecord
  <2>5. \A q \in Records : Alike(q) /\ (Past(q) => Past(q)')
    BY <2>3, <2>4 DEF Alike, Listed, Past
  <2>6. \A q \in Records : rec'[q].st \in {"free", "opening"} => rec'[q].gen = 1 /\ ~rec'[q].faulted
    BY <2>3 DEF WInv, Ways, Links
  <2>7. serving'[k].op = "open" /\ \A j \in Connections : j # k => serving'[j] = serving[j]
    BY <1>4, <2>2 DEF Work
  <2>8. Ages
    BY <2>5 DEF Ages, Alike
  <2>9. SameOurs(k)
    BY <2>5 DEF SameOurs, Ours, Alike
  <2>10. \A q \in Records : Ours(k, q)' => rec'[q] = rec[q]
    BY <2>3 DEF Ours, Listed
  <2>11. k \in up => Chan(k)'
    BY <1>1, <1>2, <1>4, <2>7, <2>8, <2>9, <2>10, SameAdvances, TakenChan
  <2> QED BY <1>1, <1>2, <1>4, <2>5, <2>6, <2>7, <2>8, <2>11, ServerKeeps
<1> QED BY <1>3, <1>4 DEF TakeOpen

\* A record that was being opened leaves the table.
LEMMA OpenEndsFacts ==
  ASSUME WInv, NEW k \in Connections, serving[k].op = "open", rec' = [rec EXCEPT ![serving[k].on] = Gone]
  PROVE  /\ \A q \in Records : Alike(q) /\ (Past(q) => Past(q)')
         /\ \A q \in Records : rec'[q].st \in {"free", "opening"} => rec'[q].gen = 1 /\ ~rec'[q].faulted
<1> DEFINE r == serving[k].on
<1>1. r \in Records /\ rec[r].st = "opening"
  BY DEF WInv, IInv, Inv, Serves, ServesOne
<1>2. Gone.st = "removed"
  BY DEF Gone, NoRecord
<1>3. rec'[r].st = "removed" /\ \A q \in Records : q # r => rec'[q] = rec[q]
  BY <1>1, <1>2 DEF WInv, IInv, TypeOK
<1> HIDE DEF r
<1>4. \A q \in Records : Alike(q) /\ (Past(q) => Past(q)')
  BY <1>1, <1>3 DEF Alike, Listed, Past
<1>5. \A q \in Records : rec'[q].st \in {"free", "opening"} => rec'[q].gen = 1 /\ ~rec'[q].faulted
  BY <1>3 DEF WInv, Ways, Links
<1> QED BY <1>4, <1>5

LEMMA OpenFailsWays == ASSUME WInv, IInv', NEW k \in Connections, OpenFails(k) PROVE Ways'
<1>1. PICK f \in {Refusal, Thrown} : Respond(k, f)
  BY DEF OpenFails
<1>2. /\ UNCHANGED <<open, toServer, clientVars, owner, up, dropped>>
      /\ serving[k].op = "open" /\ rec' = [rec EXCEPT ![serving[k].on] = Gone]
  BY DEF OpenFails
<1> QED BY <1>1, <1>2, OpenEndsFacts, RefusalFrames, AnswerWays

\* A native Session is opened to be dropped.
LEMMA DropWays ==
  ASSUME WInv, IInv', NEW k \in Connections, serving[k].op \in {"open", "reopen"}, NEW n,
         serving' = [serving EXCEPT ![k] = Work("drop", n)],
         UNCHANGED <<open, toServer, toClient, clientVars, owner, up, dropped>>,
         \A q \in Records : Alike(q) /\ (Past(q) => Past(q)'),
         \A q \in Records : rec'[q].st \in {"free", "opening"} => rec'[q].gen = 1 /\ ~rec'[q].faulted
  PROVE  Ways'
<1>1. serving'[k].op = "drop" /\ \A j \in Connections : j # k => serving'[j] = serving[j]
  <2>1. Work("drop", n).op = "drop"
    BY DEF Work
  <2>2. serving \in [Connections -> WorkTypes]
    BY ServerTypes DEF WInv, IInv
  <2> QED BY <2>1, <2>2
<1>2. owner[k] # 0
  BY DEF WInv, Ways, Links
<1>3. Ages
  BY DEF Ages, Alike
<1>4. SameOurs(k)
  BY DEF SameOurs, Ours, Alike
<1>5. ASSUME k \in up PROVE Chan(k)'
  <2>1. UNCHANGED <<wrapper, call, stale, owner>>
    BY DEF clientVars
  <2>2. IInv /\ Links /\ Chan(k)
    BY <1>5 DEF WInv, Ways
  <2> QED BY <1>1, <1>3, <1>4, <1>5, <2>1, <2>2, ChanKept
<1> QED BY <1>1, <1>2, <1>3, <1>5, ServerKeeps

LEMMA OpenDropsWays == ASSUME WInv, IInv', NEW k \in Connections, OpenDrops(k) PROVE Ways'
<1>1. PICK n : n = NewOf(FreeNatives)
  OBVIOUS
<1>2. /\ UNCHANGED <<open, toServer, toClient, clientVars, owner, up, dropped>>
      /\ serving[k].op = "open" /\ rec' = [rec EXCEPT ![serving[k].on] = Gone]
      /\ serving' = [serving EXCEPT ![k] = Work("drop", n)]
  BY <1>1 DEF OpenDrops
<1> QED BY <1>2, OpenEndsFacts, DropWays

LEMMA ReopenDropsWays == ASSUME WInv, IInv', NEW k \in Connections, ReopenDrops(k) PROVE Ways'
<1>1. PICK n : n = NewOf(FreeNatives)
  OBVIOUS
<1>2. /\ UNCHANGED <<rec, open, toServer, toClient, clientVars, owner, up, dropped>>
      /\ serving[k].op = "reopen" /\ serving' = [serving EXCEPT ![k] = Work("drop", n)]
  BY <1>1 DEF ReopenDrops
<1> QED BY <1>2, SameRecords, DropWays

LEMMA DropDoneWays == ASSUME WInv, IInv', NEW k \in Connections, DropDone(k) PROVE Ways'
<1>1. /\ UNCHANGED <<rec, open, toServer, clientVars, owner, up, history>> /\ dropped' = dropped
      /\ serving[k].op = "drop" /\ Respond(k, Refusal)
  BY DEF DropDone, history
<1> QED BY <1>1, SameRecords, RefusalFrames, AnswerWays

LEMMA OpenDoneWays == ASSUME WInv, IInv', NEW k \in Connections, OpenDone(k) PROVE Ways'
<1>0. PICK r, n : r = serving[k].on /\ n = NewOf(FreeNatives)
  OBVIOUS
<1>1. /\ serving[k].op = "open" /\ k \in open
      /\ UNCHANGED <<open, toServer, clientVars, owner, up, history>> /\ dropped' = dropped
  BY DEF OpenDone, history
<1>2. PICK id :
          /\ rec' = [rec EXCEPT ![r].st = "listed", ![r].nat = n, ![r].key = id, ![r].fork = FALSE,
                                ![r].awaiting = IF id = NoIdentity THEN "claim" ELSE "no"]
          /\ Respond(k, Metadata(r, 1, id))
  BY <1>0 DEF OpenDone
<1>3. r \in Records /\ rec[r].conn = k /\ rec[r].st = "opening" /\ rec[r].gen = 1 /\ ~rec[r].faulted /\ owner[k] # 0
  BY <1>0, <1>1 DEF WInv, Ways, Links, IInv, Inv, Serves, ServesOne
<1>4. /\ Ours(k, r)' /\ rec'[r].gen = 1 /\ ~rec'[r].faulted /\ rec'[r].key = id /\ rec'[r].st = "listed" /\ rec'[r].conn = k
      /\ \A q \in Records : q # r => rec'[q] = rec[q]
  <2> DEFINE e == [rec[r] EXCEPT !.st = "listed", !.nat = n, !.key = id, !.fork = FALSE,
                                 !.awaiting = IF id = NoIdentity THEN "claim" ELSE "no"]
  <2>1. rec \in [Records -> RecTypes] /\ rec[r] \in RecTypes
    BY <1>3, ServerTypes DEF WInv, IInv
  <2>2. /\ e.st = "listed" /\ e.key = id /\ e.gen = rec[r].gen /\ e.conn = rec[r].conn
        /\ e.faulted = rec[r].faulted
    BY <2>1 DEF RecTypes
  <2>3. rec' = [rec EXCEPT ![r] = e]
    BY <1>2, <1>3, <2>1, Zenon
  <2> HIDE DEF e
  <2>4. rec'[r] = e /\ \A q \in Records : q # r => rec'[q] = rec[q]
    BY <1>3, <2>1, <2>3
  <2> QED BY <1>3, <2>2, <2>4 DEF Ours, Listed
<1>5. /\ k \in up => toClient'[k] = Append(toClient[k], Metadata(r, 1, id))
      /\ serving'[k].op = "none"
      /\ \A j \in Connections : j # k => toClient'[j] = toClient[j] /\ serving'[j] = serving[j]
  BY <1>2, RespondAt DEF WInv
<1>6. Ages
  BY <1>3, <1>4 DEF Ages, Past, Listed
<1>7. Advances(k)
  <2> SUFFICES ASSUME NEW q \in Records, Past(q) PROVE rec'[q] = rec[q]
    BY DEF Advances
  <2> QED BY <1>3, <1>4 DEF Past
<1>8. ASSUME k \in up PROVE Chan(k)'
  <2> DEFINE f == Metadata(r, 1, id)
  <2>2. f = Metadata(r, rec'[r].gen, rec'[r].key) /\ toClient'[k] = Append(toClient[k], f)
    BY <1>4, <1>5, <1>8
  <2>3. UNCHANGED <<clientVars, owner, toServer, dropped>> /\ serving[k].op = "open"
    BY <1>1
  <2> HIDE DEF f
  <2> QED BY <1>3, <1>4, <1>5, <1>6, <1>7, <1>8, <1>0, <2>2, <2>3, BindChan
<1>9. \A q \in Records : Alike(q) \/ (rec[q].conn = k /\ rec'[q].conn = k)
  BY <1>3, <1>4 DEF Alike, Listed
<1>10. \A q \in Records : rec'[q].st \in {"free", "opening"} => rec'[q].gen = 1 /\ ~rec'[q].faulted
  BY <1>4 DEF WInv, Ways, Links
<1> QED BY <1>1, <1>3, <1>5, <1>6, <1>8, <1>9, <1>10, ServerKeeps

LEMMA ReopenDoneWays == ASSUME WInv, IInv', NEW k \in Connections, ReopenDone(k) PROVE Ways'
<1>0. PICK r, n : r = serving[k].on /\ n = NewOf(FreeNatives)
  OBVIOUS
<1> DEFINE f == Metadata(r, rec[r].gen + 1, rec[r].key)
<1>1. serving[k].op = "reopen" /\ UNCHANGED <<open, toServer, clientVars, owner, up, dropped>>
  BY DEF ReopenDone
<1>2. CASE Respond(k, Refusal) /\ UNCHANGED rec
  BY <1>1, <1>2, SameRecords, RefusalFrames, AnswerWays
<1>3. CASE /\ rec' = [rec EXCEPT ![r].nat = n, ![r].gen = @ + 1, ![r].faulted = FALSE, ![r].silent = FALSE]
           /\ Respond(k, f)
  <2>1. /\ r \in Records /\ rec[r].conn = k /\ rec[r].st \in {"listed", "closing", "removed"} /\ owner[k] # 0
        /\ k \in open => Listed(r)
    BY <1>0, <1>1 DEF WInv, Ways, Links, IInv, Inv, Serves, ServesOne
  <2>2. /\ k \in up => toClient'[k] = Append(toClient[k], f)
        /\ serving'[k].op = "none"
        /\ \A j \in Connections : j # k => toClient'[j] = toClient[j] /\ serving'[j] = serving[j]
    BY <1>3, RespondAt DEF WInv
  <2>3. rec \in [Records -> RecTypes] /\ rec[r].gen \in Nat /\ r = serving[k].on
    BY <1>0, <2>1, ServerTypes DEF WInv, IInv, RecTypes
  <2>4. /\ rec'[r].gen = rec[r].gen + 1 /\ rec'[r].gen > rec[r].gen /\ ~rec'[r].faulted
        /\ rec'[r].st = rec[r].st /\ rec'[r].key = rec[r].key /\ rec'[r].conn = k
        /\ \A q \in Records : q # r => rec'[q] = rec[q]
    <3> DEFINE e == [rec[r] EXCEPT !.nat = n, !.gen = @ + 1, !.faulted = FALSE, !.silent = FALSE]
    <3>1. rec[r] \in RecTypes
      BY <2>1, <2>3
    <3>2. e.gen = rec[r].gen + 1 /\ ~e.faulted /\ e.st = rec[r].st /\ e.key = rec[r].key /\ e.conn = rec[r].conn
      BY <3>1 DEF RecTypes
    <3>3. rec' = [rec EXCEPT ![r] = e]
      BY <1>3, <2>1, <2>3, Zenon
    <3> HIDE DEF e
    <3>4. rec'[r] = e /\ \A q \in Records : q # r => rec'[q] = rec[q]
      BY <2>1, <2>3, <3>3
    <3> QED BY <2>1, <2>3, <3>2, <3>4
  <2>5. f = Metadata(r, rec'[r].gen, rec'[r].key)
    BY <2>4
  <2> HIDE DEF f
  <2>6. Ages
    BY <2>1, <2>4 DEF Ages, Past, Listed
  <2>7. Advances(k)
    <3> SUFFICES ASSUME NEW q \in Records
                 PROVE  /\ rec'[q].gen > rec[q].gen \/ (rec'[q].gen = rec[q].gen /\ (rec[q].faulted => rec'[q].faulted))
                        /\ rec[q].key # NoIdentity => rec'[q].key = rec[q].key
      BY DEF Advances
    <3> QED BY <2>4
  <2>8. ASSUME k \in up PROVE Chan(k)'
    <3>1. k \in open /\ Listed(r)
      BY <2>1, <2>8 DEF WInv, IInv, TypeOK
    <3>2. Ours(k, r)'
      BY <2>1, <2>4, <3>1 DEF Ours, Listed
    <3>3. UNCHANGED <<clientVars, owner, toServer, dropped>> /\ serving[k].op = "reopen"
      BY <1>1
    <3> QED BY <2>1, <2>2, <2>3, <2>4, <2>5, <2>6, <2>7, <2>8, <3>1, <3>2, <3>3, BindChan
  <2>9. \A q \in Records : Alike(q) \/ (rec[q].conn = k /\ rec'[q].conn = k)
    BY <2>1, <2>4 DEF Alike, Listed
  <2>10. \A q \in Records : rec'[q].st \in {"free", "opening"} => rec'[q].gen = 1 /\ ~rec'[q].faulted
    BY <2>1, <2>4 DEF WInv, Ways, Links
  <2> QED BY <1>1, <2>1, <2>2, <2>6, <2>8, <2>9, <2>10, ServerKeeps
<1> QED BY <1>0, <1>2, <1>3 DEF ReopenDone

LEMMA TakeExecuteWays == ASSUME WInv, IInv', NEW k \in Connections, TakeExecute(k) PROVE Ways'
<1> DEFINE q == Request(k)
<1>1. UNCHANGED <<open, clientVars, owner, up, history>> /\ dropped' = dropped
  BY DEF TakeExecute, history
<1>2. /\ toServer[k] # <<>> /\ toServer'[k] = Tail(toServer[k]) /\ serving[k].op = "none"
      /\ q.op = "execute" /\ q \in Requests
      /\ \A j \in Connections : j # k => toServer'[j] = toServer[j]
  BY TakeAt DEF TakeExecute, WInv
<1>3. CASE Respond(k, Refusal) /\ UNCHANGED rec
  BY <1>1, <1>2, <1>3, SameRecords, RefusalFrames, AnswerWays
<1>4. CASE /\ Owns(k, q) /\ Respond(k, Metadata(q.rec, q.gen, NoIdentity))
           /\ rec' \in {rec, [rec EXCEPT ![q.rec].awaiting = IF @ = "claim" THEN "turn" ELSE @]}
  <2> DEFINE f == Metadata(q.rec, q.gen, NoIdentity)
  <2>1. f \in Frames /\ ~IsOutput(f) /\ f.kind # "none"
    BY <1>2, <1>4, FrameFacts, FrameKinds DEF Owns, Requests, AnyIdentity
  <2>2. k \in up => k \in stale \/ call[owner[k]].op \notin Binding
    <3>1. k \in up /\ k \notin stale => Asked(k)
      BY <1>2 DEF WInv, Ways, Chan, InOrder, Quiet, Replied, Worked
    <3> QED BY <1>2, <3>1 DEF Asked, Asks, Sent, Binding
  <2>3. \A r \in Records : /\ rec'[r].st = rec[r].st /\ rec'[r].conn = rec[r].conn /\ rec'[r].gen = rec[r].gen
                           /\ rec'[r].key = rec[r].key /\ rec'[r].faulted = rec[r].faulted
    <3>1. rec \in [Records -> RecTypes]
      BY ServerTypes DEF WInv, IInv
    <3>2. CASE rec' = rec
      BY <3>2
    <3>3. CASE rec' = [rec EXCEPT ![q.rec].awaiting = IF @ = "claim" THEN "turn" ELSE @]
      BY <3>1, <3>3 DEF RecTypes
    <3> QED BY <1>4, <3>2, <3>3
  <2>4. \A r \in Records : Alike(r) /\ (Past(r) => Past(r)')
    BY <2>3 DEF Alike, Listed, Past
  <2>5. \A r \in Records : rec'[r].st \in {"free", "opening"} => rec'[r].gen = 1 /\ ~rec'[r].faulted
    BY <2>3 DEF WInv, Ways, Links
  <2> HIDE DEF f, q
  <2> QED BY <1>1, <1>2, <1>4, <2>1, <2>2, <2>4, <2>5, AnswerWays DEF f, q
<1> QED BY <1>3, <1>4 DEF TakeExecute

LEMMA TakeReopenWays == ASSUME WInv, IInv', NEW k \in Connections, TakeReopen(k) PROVE Ways'
<1> DEFINE q == Request(k)
           r == q.rec
<1>1. UNCHANGED <<rec, open, clientVars, owner, up, history>> /\ dropped' = dropped
  BY DEF TakeReopen, history
<1>2. /\ toServer[k] # <<>> /\ toServer'[k] = Tail(toServer[k]) /\ serving[k].op = "none"
      /\ q.op = "reopen" /\ q \in Requests /\ k \in open /\ owner[k] # 0
      /\ \A j \in Connections : j # k => toServer'[j] = toServer[j]
  BY TakeAt DEF TakeReopen, WInv
<1>3. CASE Respond(k, Refusal)
  BY <1>1, <1>2, <1>3, SameRecords, RefusalFrames, AnswerWays
<1>4. CASE Owns(k, q) /\ ~rec[r].faulted /\ Respond(k, Metadata(r, rec[r].gen, rec[r].key))
  <2> DEFINE f == Metadata(r, rec[r].gen, rec[r].key)
  <2>1. f \in Frames /\ ~IsOutput(f) /\ f.kind # "none"
    <3>1. r \in Records /\ rec[r].gen \in Nat /\ rec[r].key \in AnyIdentity
      BY <1>4, ServerTypes DEF Owns, WInv, IInv, RecTypes
    <3> QED BY <3>1, FrameFacts, FrameKinds
  <2>2. ASSUME k \in up, k \notin stale PROVE FALSE
    <3>1. Asked(k)
      BY <1>2, <2>2 DEF WInv, Ways, Chan, InOrder, Quiet, Replied, Worked
    <3>2. call[owner[k]].op = "reopen" /\ call[owner[k]].conn = k /\ owner[k] \in Clients
      BY <1>2, <2>2, <3>1, ChanTypes DEF WInv, Asked, Awaits, Asks, Sent, CallOps
    <3>3. r = wrapper[owner[k]].rec /\ q.gen = wrapper[owner[k]].gen
      BY <3>1, <3>2 DEF Asked
    <3>4. wrapper[owner[k]].conn = k /\ wrapper[owner[k]].faulted
      BY <3>2 DEF WInv, Ways, Calls, Fits
    <3>5. AnyFault(r, q.gen)
      BY <2>2, <3>3, <3>4 DEF WInv, Ways, Chan, Told
    <3>6. q.gen \in Nat
      BY <1>2 DEF Requests
    <3> QED BY <1>4, <3>5, <3>6 DEF AnyFault, Owns
  <2> HIDE DEF f, q
  <2> QED BY <1>1, <1>2, <1>4, <2>1, <2>2, SameRecords, AnswerWays DEF f, q
<1>5. CASE /\ Owns(k, q) /\ UNCHANGED toClient
           /\ serving' = [serving EXCEPT ![k] = Work("reopen", r)]
  <2>1. /\ serving'[k].op = "reopen" /\ serving'[k].on = r
        /\ \A j \in Connections : j # k => serving'[j] = serving[j]
    BY <1>5, ServerTypes DEF WInv, IInv, Work
  <2>2. Listed(serving[k].on)'
    BY <1>1, <1>5, <2>1 DEF Owns, Listed
  <2>3. k \in up => Chan(k)'
    BY <1>1, <1>2, <1>5, <2>1, SameRecords, TakenChan
  <2> QED BY <1>1, <1>2, <1>5, <2>1, <2>2, <2>3, SameRecords, ServerKeeps
<1> QED BY <1>3, <1>4, <1>5 DEF TakeReopen

\* Records of one connection leave the table.
LEMMA CloseRecordFacts ==
  ASSUME WInv, NEW k, NEW S \in SUBSET {r \in Records : Ours(k, r)},
         \A r \in Records : rec'[r] = IF r \in S THEN [rec[r] EXCEPT !.st = "closing", !.last = rec[r].nat] ELSE rec[r]
  PROVE  /\ \A r \in S : rec'[r].st = "closing" /\ rec'[r].conn = k /\ rec[r].conn = k
         /\ \A r \in Records \ S : rec'[r] = rec[r]
         /\ \A r \in Records : Alike(r) \/ (rec[r].conn = k /\ rec'[r].conn = k)
         /\ \A r \in Records : rec'[r].st \in {"free", "opening"} => rec'[r].gen = 1 /\ ~rec'[r].faulted
         /\ Ages /\ Advances(k)
<1>1. rec \in [Records -> RecTypes]
  BY ServerTypes DEF WInv, IInv
<1>2. ASSUME NEW r \in S
      PROVE  /\ rec'[r].st = "closing" /\ rec'[r].conn = k /\ rec[r].conn = k /\ Past(r)
             /\ ~Listed(r)'
  <2> DEFINE e == [rec[r] EXCEPT !.st = "closing", !.last = rec[r].nat]
  <2>1. r \in Records /\ rec[r] \in RecTypes /\ rec'[r] = e /\ Ours(k, r)
    BY <1>1
  <2>2. e.st = "closing" /\ e.conn = rec[r].conn
    BY <2>1 DEF RecTypes
  <2> HIDE DEF e
  <2> QED BY <2>1, <2>2 DEF Ours, Listed, Past
<1>3. \A r \in Records \ S : rec'[r] = rec[r]
  OBVIOUS
<1>4. \A r \in Records : Alike(r) \/ (rec[r].conn = k /\ rec'[r].conn = k)
  BY <1>2, <1>3 DEF Alike, Listed
<1>5. \A r \in Records : rec'[r].st \in {"free", "opening"} => rec'[r].gen = 1 /\ ~rec'[r].faulted
  BY <1>2, <1>3 DEF WInv, Ways, Links
<1>6. Ages
  BY <1>2, <1>3 DEF Ages, Past, Listed
<1>7. Advances(k)
  BY <1>2, <1>3 DEF Advances, Ours
<1> QED BY <1>2, <1>3, <1>4, <1>5, <1>6, <1>7

LEMMA TakeCloseWays == ASSUME WInv, IInv', NEW k \in Connections, TakeClose(k) PROVE Ways'
<1> DEFINE q == Request(k)
<1>1. UNCHANGED <<open, clientVars, owner, up, history>> /\ dropped' = dropped
  BY DEF TakeClose, history
<1>2. /\ toServer[k] # <<>> /\ toServer'[k] = Tail(toServer[k]) /\ serving[k].op = "none"
      /\ q.op = "close" /\ k \in open /\ owner[k] # 0
      /\ \A j \in Connections : j # k => toServer'[j] = toServer[j]
  BY TakeAt DEF TakeClose, WInv
<1>3. CASE ~Owns(k, q) /\ Respond(k, Thrown) /\ UNCHANGED rec
  <2>1. \A r \in Records : Ours(k, r) => ~(q.rec = r /\ q.gen = rec[r].gen)
    BY <1>3 DEF Owns, Ours
  <2> QED BY <1>1, <1>2, <1>3, <2>1, SameRecords, RefusalFrames, AnswerWays
<1>4. CASE /\ Owns(k, q) /\ CloseRecord({q.rec}) /\ UNCHANGED toClient
           /\ serving' = [serving EXCEPT ![k] = Work("close", q.rec)]
  <2>1. {q.rec} \in SUBSET {r \in Records : Ours(k, r)}
    BY <1>4 DEF Owns, Ours
  <2>2. /\ \A r \in {q.rec} : rec'[r].st = "closing" /\ rec'[r].conn = k /\ rec[r].conn = k
        /\ \A r \in Records \ {q.rec} : rec'[r] = rec[r]
        /\ \A r \in Records : Alike(r) \/ (rec[r].conn = k /\ rec'[r].conn = k)
        /\ \A r \in Records : rec'[r].st \in {"free", "opening"} => rec'[r].gen = 1 /\ ~rec'[r].faulted
        /\ Ages /\ Advances(k)
    <3>1. PICK S : S = {q.rec}
      OBVIOUS
    <3>2. \A r \in Records : rec'[r] = IF r \in S THEN [rec[r] EXCEPT !.st = "closing", !.last = rec[r].nat] ELSE rec[r]
      BY <1>4, <3>1 DEF CloseRecord
    <3>3. S \in SUBSET {r \in Records : Ours(k, r)}
      BY <2>1, <3>1
    <3> HIDE DEF q
    <3> QED BY <3>1, <3>2, <3>3, CloseRecordFacts
  <2>3. /\ serving'[k].op = "close"
        /\ \A j \in Connections : j # k => serving'[j] = serving[j]
    BY <1>4, ServerTypes DEF WInv, IInv, Work
  <2>4. \A r \in Records : Ours(k, r)' => rec'[r] = rec[r] /\ q.rec # r
    BY <2>2 DEF Ours, Listed
  <2>5. k \in up => Chan(k)'
    BY <1>1, <1>2, <1>4, <2>2, <2>3, <2>4, TakenChan
  <2> QED BY <1>1, <1>2, <1>4, <2>2, <2>3, <2>5, ServerKeeps
<1> QED BY <1>3, <1>4 DEF TakeClose

LEMMA SocketClosedWays == ASSUME WInv, IInv', NEW k \in Connections, SocketClosed(k) PROVE Ways'
<1> DEFINE S == {r \in Records : Listed(r) /\ rec[r].conn = k}
<1>1. /\ UNCHANGED <<serving, toClient, clientVars, owner, up, history>> /\ dropped' = dropped
      /\ k \in open /\ k \notin up /\ open' = open \ {k} /\ CloseRecord(S)
      /\ toServer' = [toServer EXCEPT ![k] = <<>>]
  BY DEF SocketClosed, history
<1>2. S \in SUBSET {r \in Records : Ours(k, r)}
  BY DEF Ours
<1>3. \A r \in Records : rec'[r] = IF r \in S THEN [rec[r] EXCEPT !.st = "closing", !.last = rec[r].nat] ELSE rec[r]
  BY <1>1 DEF CloseRecord
<1> HIDE DEF S
<1>4. /\ \A r \in Records : Alike(r) \/ (rec[r].conn = k /\ rec'[r].conn = k)
      /\ \A r \in Records : rec'[r].st \in {"free", "opening"} => rec'[r].gen = 1 /\ ~rec'[r].faulted
      /\ Ages
  BY <1>2, <1>3, CloseRecordFacts
<1>5. owner[k] # 0 /\ \A j \in Connections : j # k => toServer'[j] = toServer[j]
  BY <1>1 DEF WInv, IInv, TypeOK, Inv, Queues
<1> QED BY <1>1, <1>4, <1>5, ServerKeeps

LEMMA CloseDoneWays == ASSUME WInv, IInv', NEW r \in Records, CloseDone(r) PROVE Ways'
<1>1. UNCHANGED <<open, toServer, clientVars, owner, up, history>> /\ dropped' = dropped /\ rec[r].st = "closing"
  BY DEF CloseDone, history
<1>2. rec \in [Records -> RecTypes]
  BY ServerTypes DEF WInv, IInv
<1>3. Removed(r).st = "removed"
  BY <1>2 DEF Removed, Gone, NoRecord, RecTypes
<1>4. rec'[r].st = "removed" /\ \A q \in Records : q # r => rec'[q] = rec[q]
  BY <1>2, <1>3 DEF CloseDone
<1>5. \A q \in Records : Alike(q) /\ (Past(q) => Past(q)')
  BY <1>1, <1>4 DEF Alike, Listed, Past
<1>6. \A q \in Records : rec'[q].st \in {"free", "opening"} => rec'[q].gen = 1 /\ ~rec'[q].faulted
  BY <1>4 DEF WInv, Ways, Links
<1>7. CASE UNCHANGED <<serving, toClient>>
  <2>1. Ages
    BY <1>5 DEF Ages, Alike
  <2>2. 0 \notin Connections /\ 0 \notin up /\ 0 \notin open'
    BY <1>1, ConstantFacts DEF WInv, IInv, TypeOK
  <2> QED BY <1>1, <1>5, <1>6, <1>7, <2>1, <2>2, ServerKeeps
<1>8. CASE \E k \in Connections : serving[k] = Work("close", r) /\ Respond(k, Metadata(r, 0, NoIdentity))
  <2>1. PICK k \in Connections : serving[k] = Work("close", r) /\ Respond(k, Metadata(r, 0, NoIdentity))
    BY <1>8
  <2> DEFINE f == Metadata(r, 0, NoIdentity)
  <2>2. f \in Frames /\ ~IsOutput(f) /\ f.kind # "none"
    BY FrameFacts, FrameKinds DEF AnyIdentity
  <2>3. k \in up => k \in stale \/ call[owner[k]].op \notin Binding
    <3>1. serving[k].op = "close"
      BY <2>1 DEF Work
    <3>2. k \in up /\ k \notin stale => Worked(k)
      BY <3>1 DEF WInv, Ways, Chan, InOrder, Quiet, Replied, Asked
    <3> QED BY <3>1, <3>2 DEF Worked, Sent, Binding
  <2>4. toServer'[k] = toServer[k] /\ serving[k].op # "none"
    BY <1>1, <2>1 DEF Work
  <2> HIDE DEF f
  <2> QED BY <1>1, <1>5, <1>6, <2>1, <2>2, <2>3, <2>4, AnswerWays DEF f
<1> QED BY <1>7, <1>8 DEF CloseDone

\* Something happens to a listed Session.
LEMMA OutputWays ==
  ASSUME WInv, IInv', NEW r \in Records, Listed(r), UNCHANGED <<serving, open, clientVars, owner, up, toServer>>,
         dropped \subseteq dropped', NEW e \in RecTypes, rec' = [rec EXCEPT ![r] = e],
         e.st = rec[r].st, e.conn = rec[r].conn, e.gen = rec[r].gen, rec[r].faulted => e.faulted,
         e.key = rec[r].key \/ rec[r].key = NoIdentity,
         \/ toClient' = toClient /\ r \in dropped' /\ e.key = rec[r].key
         \/ \E f \in Frames :
              /\ IsOutput(f) /\ f.rec = r /\ f.gen = rec[r].gen /\ SendTo(rec[r].conn, f)
              /\ f.kind = "fault" => e.faulted
              /\ f.kind = "identity" => f.id # NoIdentity /\ e.key = f.id
              /\ e.faulted => rec[r].faulted \/ f.kind = "fault"
              /\ e.key = rec[r].key \/ f.kind = "identity"
  PROVE  Ways'
<1>1. PICK k : k = rec[r].conn
  OBVIOUS
<1>2. k \in open /\ k \in Connections /\ owner[k] # 0
  BY <1>1 DEF WInv, IInv, Inv, Holds, TypeOK
<1>3. rec \in [Records -> RecTypes] /\ toClient \in [Connections -> Seq(Frames)]
  BY ServerTypes DEF WInv, IInv, Inv, Queues
<1>4. rec'[r] = e /\ \A q \in Records : q # r => rec'[q] = rec[q]
  BY <1>3
<1>5. Ours(k, r) /\ Ours(k, r)' /\ rec'[r].gen = rec[r].gen
  BY <1>1, <1>4 DEF Ours, Listed
<1>6. Ages
  BY <1>4 DEF Ages, Past, Listed
<1>7. Advances(k)
  BY <1>4 DEF Advances
<1>8. \A j \in Connections : j # k => toClient'[j] = toClient[j]
  BY <1>1, <1>3 DEF SendTo
<1>9. ASSUME k \in up PROVE Chan(k)'
  <2>1. CASE toClient' = toClient /\ r \in dropped'
    BY <1>4, <1>5, <1>6, <1>7, <1>9, <2>1, OutputChan
  <2>2. CASE \E f \in Frames :
              /\ IsOutput(f) /\ f.rec = r /\ f.gen = rec[r].gen /\ SendTo(rec[r].conn, f)
              /\ f.kind = "fault" => e.faulted
              /\ f.kind = "identity" => f.id # NoIdentity /\ e.key = f.id
              /\ e.faulted => rec[r].faulted \/ f.kind = "fault"
              /\ e.key = rec[r].key \/ f.kind = "identity"
    <3>1. PICK f \in Frames :
              /\ IsOutput(f) /\ f.rec = r /\ f.gen = rec[r].gen /\ SendTo(rec[r].conn, f)
              /\ f.kind = "fault" => e.faulted
              /\ f.kind = "identity" => f.id # NoIdentity /\ e.key = f.id
              /\ e.faulted => rec[r].faulted \/ f.kind = "fault"
              /\ e.key = rec[r].key \/ f.kind = "identity"
      BY <2>2
    <3>2. toClient'[k] = Append(toClient[k], f)
      BY <1>1, <1>2, <1>3, <1>9, <3>1 DEF SendTo
    <3>3. ToldBy(k, f)'
      <4>1. Past(f.rec)' /\ rec'[f.rec].conn = k /\ rec'[f.rec] = e
        BY <1>4, <1>5, <3>1 DEF Past, Ours, Listed
      <4>2. f.kind = "fault" => AnyFault(f.rec, f.gen)'
        BY <1>4, <3>1, <4>1 DEF AnyFault
      <4> QED BY <3>1, <4>1, <4>2 DEF ToldBy, IsOutput
    <3>4. /\ rec'[r].faulted => rec[r].faulted \/ f.kind = "fault"
          /\ rec'[r].key = rec[r].key \/ (rec[r].key = NoIdentity /\ f.kind = "identity")
      BY <1>4, <3>1
    <3> QED BY <1>4, <1>5, <1>6, <1>7, <1>9, <3>1, <3>2, <3>3, <3>4, OutputChan
  <2> QED BY <2>1, <2>2
<1>10. \A q \in Records : Alike(q) \/ (rec[q].conn = k /\ rec'[q].conn = k)
  BY <1>1, <1>4 DEF Alike, Listed
<1>11. \A q \in Records : rec'[q].st \in {"free", "opening"} => rec'[q].gen = 1 /\ ~rec'[q].faulted
  BY <1>4 DEF WInv, Ways, Links, Listed
<1>12. k \in open' /\ serving'[k].op = "reopen" => Listed(serving[k].on)'
  <2> SUFFICES ASSUME serving[k].op = "reopen" PROVE Listed(serving[k].on)'
    OBVIOUS
  <2>1. Listed(serving[k].on) /\ serving[k].on \in Records
    BY <1>2 DEF WInv, Ways, Links, IInv, Inv, Serves, ServesOne
  <2> QED BY <1>4, <2>1 DEF Listed
<1> QED BY <1>2, <1>6, <1>8, <1>9, <1>10, <1>11, <1>12, ServerKeeps

LEMMA FaultsWays == ASSUME WInv, IInv', NEW r \in Records, Faults(r) PROVE Ways'
<1> DEFINE f == Frame("fault", r, rec[r].gen, NoIdentity)
           e == [rec[r] EXCEPT !.faulted = TRUE, !.awaiting = "no"]
<1>1. UNCHANGED <<serving, open, clientVars, owner, up, toServer, dropped>> /\ Listed(r) /\ SendTo(rec[r].conn, f)
  BY DEF Faults, Current
<1>2. rec \in [Records -> RecTypes] /\ rec[r] \in RecTypes
  BY ServerTypes DEF WInv, IInv
<1>3. rec' = [rec EXCEPT ![r] = e]
  BY <1>2, Zenon DEF Faults
<1>4. /\ e \in RecTypes /\ e.faulted /\ e.st = rec[r].st /\ e.conn = rec[r].conn /\ e.gen = rec[r].gen
      /\ e.key = rec[r].key
  BY <1>2 DEF RecTypes
<1>5. f \in Frames /\ f.kind = "fault" /\ IsOutput(f) /\ f.rec = r /\ f.gen = rec[r].gen
  BY <1>2, FrameFacts DEF Frame, IsOutput, RecTypes, AnyIdentity
<1> HIDE DEF e, f
<1> QED BY <1>1, <1>3, <1>4, <1>5, OutputWays

LEMMA OutputsThrowWays == ASSUME WInv, IInv', NEW r \in Records, OutputsThrow(r) PROVE Ways'
<1> DEFINE e == [rec[r] EXCEPT !.faulted = TRUE, !.awaiting = "no", !.silent = TRUE]
<1>1. UNCHANGED <<serving, open, clientVars, owner, up, toServer, toClient>> /\ Listed(r) /\ dropped' = dropped \cup {r}
  BY DEF OutputsThrow, Current
<1>2. rec \in [Records -> RecTypes] /\ rec[r] \in RecTypes
  BY ServerTypes DEF WInv, IInv
<1>3. rec' = [rec EXCEPT ![r] = e]
  BY <1>2, Zenon DEF OutputsThrow
<1>4. /\ e \in RecTypes /\ e.faulted /\ e.st = rec[r].st /\ e.conn = rec[r].conn /\ e.gen = rec[r].gen
      /\ e.key = rec[r].key
  BY <1>2 DEF RecTypes
<1> HIDE DEF e
<1> QED BY <1>1, <1>3, <1>4, OutputWays

LEMMA IdentifiesWays == ASSUME WInv, IInv', NEW r \in Records, Identifies(r) PROVE Ways'
<1>0. PICK id \in Identities : /\ rec' = [rec EXCEPT ![r].key = id, ![r].awaiting = "no"]
                               /\ SendTo(rec[r].conn, Frame("identity", r, rec[r].gen, id))
  BY DEF Identifies
<1> DEFINE f == Frame("identity", r, rec[r].gen, id)
           e == [rec[r] EXCEPT !.key = id, !.awaiting = "no"]
<1>1. /\ UNCHANGED <<serving, open, clientVars, owner, up, toServer, history>> /\ dropped' = dropped
      /\ Listed(r) /\ rec[r].key = NoIdentity /\ SendTo(rec[r].conn, f)
  BY <1>0 DEF Identifies, Current, history
<1>2. rec \in [Records -> RecTypes] /\ rec[r] \in RecTypes
  BY ServerTypes DEF WInv, IInv
<1>3. rec' = [rec EXCEPT ![r] = e]
  BY <1>0, <1>2, Zenon
<1>4. id \in AnyIdentity /\ id # NoIdentity
  BY BrokerAssumption DEF AnyIdentity
<1>5. /\ e \in RecTypes /\ (e.faulted => rec[r].faulted) /\ (rec[r].faulted => e.faulted) /\ e.st = rec[r].st /\ e.conn = rec[r].conn /\ e.gen = rec[r].gen
      /\ e.key = id
  BY <1>2, <1>4 DEF RecTypes
<1>6. f \in Frames /\ f.kind = "identity" /\ IsOutput(f) /\ f.rec = r /\ f.gen = rec[r].gen /\ f.id = id
  <2>1. rec[r].gen \in Nat
    BY <1>2 DEF RecTypes
  <2>2. f \in Frames
    BY <1>4, <2>1, FrameFacts
  <2> QED BY <2>2 DEF Frame, IsOutput
<1> HIDE DEF e, f
<1> QED BY <1>1, <1>3, <1>4, <1>5, <1>6, OutputWays

LEMMA MisidentifiesWays == ASSUME WInv, IInv', NEW r \in Records, Misidentifies(r) PROVE Ways'
<1> DEFINE f == Frame("fault", r, rec[r].gen, NoIdentity)
           e == [rec[r] EXCEPT !.faulted = TRUE, !.awaiting = "no"]
<1>1. UNCHANGED <<serving, open, clientVars, owner, up, toServer, dropped>> /\ Listed(r) /\ SendTo(rec[r].conn, f)
  BY DEF Misidentifies, Current
<1>2. rec \in [Records -> RecTypes] /\ rec[r] \in RecTypes
  BY ServerTypes DEF WInv, IInv
<1>3. rec' = [rec EXCEPT ![r] = e]
  BY <1>2, Zenon DEF Misidentifies
<1>4. /\ e \in RecTypes /\ e.faulted /\ e.st = rec[r].st /\ e.conn = rec[r].conn /\ e.gen = rec[r].gen
      /\ e.key = rec[r].key
  BY <1>2 DEF RecTypes
<1>5. f \in Frames /\ f.kind = "fault" /\ IsOutput(f) /\ f.rec = r /\ f.gen = rec[r].gen
  BY <1>2, FrameFacts DEF Frame, IsOutput, RecTypes, AnyIdentity
<1> HIDE DEF e, f
<1> QED BY <1>1, <1>3, <1>4, <1>5, OutputWays

LEMMA NativeClosesWays == ASSUME WInv, IInv', NEW n \in Natives, NativeCloses(n) PROVE Ways'
<1>1. UNCHANGED <<rec, serving, open, clientVars, owner, up, toServer, toClient, history>> /\ dropped' = dropped
  BY DEF NativeCloses, history
<1>2. 0 \notin Connections /\ 0 \notin up /\ 0 \notin open'
  BY <1>1, ConstantFacts DEF WInv, IInv, TypeOK
<1> QED BY <1>1, <1>2, SameRecords, ServerKeeps

-----------------------------------------------------------------------------
(* The clients' steps.                                                     *)

\* A step of one client that makes no connection and loses none.
LEMMA ClientStays ==
  ASSUME WInv, IInv', NEW c \in Clients, UNCHANGED <<rec, serving, open, owner, up, link>>, dropped \subseteq dropped',
         \A d \in Clients : d # c => call'[d] = call[d] /\ wrapper'[d] = wrapper[d],
         \A j \in Connections : owner[j] # c =>
           toServer'[j] = toServer[j] /\ toClient'[j] = toClient[j] /\ (j \in stale' <=> j \in stale),
         \/ wrapper'[c].rec = wrapper[c].rec /\ wrapper'[c].conn = wrapper[c].conn
         \/ wrapper'[c] = NoWrapper
         \/ wrapper'[c].rec \in Records /\ Ours(wrapper'[c].conn, wrapper'[c].rec),
         Fits(call[c], wrapper[c])',
         \A k \in up : owner[k] = c => Chan(k)'
  PROVE  Ways'
<1>1. \A k \in up' : owner'[k] = c => link'[c] = k /\ Chan(k)'
  BY DEF WInv, Ways, Links
<1>2. /\ wrapper'[c].rec # 0 =>
           Past(wrapper'[c].rec) /\ (Listed(wrapper'[c].rec) => rec[wrapper'[c].rec].conn = wrapper'[c].conn)
      /\ wrapper'[c].rec = 0 => wrapper'[c].conn = 0
  BY ConstantFacts, FrameKinds DEF WInv, Ways, Links, Ours, Listed, Past
<1> QED BY <1>1, <1>2, ClientKeeps

LEMMA OneOfClient ==
  ASSUME WInv, NEW k \in up
  PROVE  /\ \A j \in up : owner[j] = owner[k] => j = k
         /\ call[owner[k]].op # "none" => call[owner[k]].conn = k
         /\ call[owner[k]].op = "none" => call[owner[k]] = NoCall
BY ChanTypes, WrapperFacts DEF WInv, Ways, Links, Calls, Fits

\* The connection fails.
LEMMA FailWays ==
  ASSUME WInv, IInv', NEW k \in up, FailClient(k), UNCHANGED <<rec, serving, open, owner, toServer>>,
         dropped \subseteq dropped'
  PROVE  Ways'
<1>0. PICK c : c = owner[k]
  OBVIOUS
<1>1. k \in Connections /\ c \in Clients /\ wrapper[c] \in Wrappers
  BY <1>0, ChanTypes DEF WInv
<1>2. /\ call \in [Clients -> [op : CallOps, conn : {0} \cup Connections, frame : Frames]]
      /\ wrapper \in [Clients -> Wrappers] /\ toClient \in [Connections -> Seq(Frames)] /\ link \in [Clients -> {0} \cup up]
  BY WrapperFacts DEF WInv, IInv, Inv, Queues, TypeOK
<1>3. call'[c] = NoCall /\ \A d \in Clients : d # c => call'[d] = call[d]
  BY <1>0, <1>1, <1>2, OneOfClient DEF FailClient
<1>4. /\ \/ wrapper'[c] = NoWrapper
         \/ wrapper'[c].rec = wrapper[c].rec /\ wrapper'[c].conn = wrapper[c].conn
      /\ \A d \in Clients : d # c => wrapper'[d] = wrapper[d]
  <2> DEFINE w == [wrapper[c] EXCEPT !.faulted = TRUE]
  <2>1. w.rec = wrapper[c].rec /\ w.conn = wrapper[c].conn
    BY <1>1 DEF Wrappers
  <2>2. PICK v \in {NoWrapper, w, wrapper[c]} : wrapper' = [wrapper EXCEPT ![c] = v]
    BY <1>0 DEF FailClient
  <2> HIDE DEF w
  <2>3. wrapper'[c] = v /\ \A d \in Clients : d # c => wrapper'[d] = wrapper[d]
    BY <1>1, <1>2, <2>2
  <2> QED BY <2>1, <2>3
<1>5. /\ \A d \in Clients : d # c => link'[d] = link[d]
      /\ up' = up \ {k} /\ stale' = stale \ {k}
      /\ \A j \in Connections : j # k => toClient'[j] = toClient[j]
  BY <1>0, <1>1, <1>2 DEF FailClient
<1>6. Fits(call[c], wrapper[c])'
  BY <1>3, FrameKinds DEF Fits
<1>7. \A j \in up' : owner'[j] # c
  BY <1>0, <1>5, OneOfClient
<1>8. /\ wrapper'[c].rec # 0 =>
           Past(wrapper'[c].rec) /\ (Listed(wrapper'[c].rec) => rec[wrapper'[c].rec].conn = wrapper'[c].conn)
      /\ wrapper'[c].rec = 0 => wrapper'[c].conn = 0
  BY <1>1, <1>4, FrameKinds DEF WInv, Ways, Links
<1>9. \A j \in Connections : owner'[j] # c =>
        /\ toServer'[j] = toServer[j] /\ toClient'[j] = toClient[j]
        /\ j \in up' <=> j \in up
        /\ j \in stale' <=> j \in stale
  BY <1>0, <1>5
<1> QED BY <1>1, <1>3, <1>4, <1>5, <1>6, <1>7, <1>8, <1>9, ClientKeeps

LEMMA LostWays == ASSUME WInv, IInv', NEW k \in Connections, Lost(k) PROVE Ways'
BY FailWays DEF Lost, serverVars

LEMMA TimeoutWays == ASSUME WInv, IInv', NEW c \in Clients, Timeout(c) PROVE Ways'
<1>1. PICK k : k = call[c].conn
  OBVIOUS
<1>2. k \in up /\ owner[k] = c /\ k \in Connections
  BY <1>1, WrapperFacts DEF Timeout, Unanswered, WInv
<1>3. UNCHANGED <<rec, serving, open, owner, toServer>> /\ dropped' = dropped
  BY DEF Timeout, serverVars
<1>4. CASE FailClient(call[c].conn)
  BY <1>1, <1>2, <1>3, <1>4, FailWays
<1>5. CASE /\ stale' = stale \cup {call[c].conn}
           /\ call' = [call EXCEPT ![c] = NoCall]
           /\ wrapper' = [wrapper EXCEPT ![c] = IF call[c].op = "close" THEN NoWrapper ELSE @]
           /\ UNCHANGED <<link, up, toClient>>
  <2>1. /\ call \in [Clients -> [op : CallOps, conn : {0} \cup Connections, frame : Frames]]
        /\ wrapper \in [Clients -> Wrappers]
    BY WrapperFacts DEF WInv, IInv, Inv, Queues
  <2>2. /\ call'[c] = NoCall /\ wrapper'[c] \in {NoWrapper, wrapper[c]}
        /\ \A d \in Clients : d # c => call'[d] = call[d] /\ wrapper'[d] = wrapper[d]
    BY <1>5, <2>1
  <2>3. Fits(call[c], wrapper[c])'
    BY <2>2, FrameKinds DEF Fits
  <2>4. Chan(k)'
    <3>1. k \in stale' /\ k # 0 /\ Chan(k)
      BY <1>1, <1>2, <1>5, ChanTypes DEF WInv, Ways
    <3>2. Told(k)'
      BY <1>2, <1>3, <1>5, <2>2, <3>1, FrameKinds DEF Chan, Told, ToldBy, AnyFault, Past, Listed
    <3>3. Bound(k)'
      BY <1>2, <1>3, <1>5, <2>2, <3>1, FrameKinds DEF Chan, Bound, Follows, Ours, Listed, Tells
    <3> QED BY <3>1, <3>2, <3>3 DEF Chan, InOrder, Valid, Remembered
  <2>5. \A j \in up : owner[j] = c => Chan(j)'
    BY <1>2, <2>4, OneOfClient
  <2>6. \A j \in Connections : owner[j] # c => (j \in stale' <=> j \in stale)
    BY <1>1, <1>2, <1>5
  <2> QED BY <1>3, <1>5, <2>2, <2>3, <2>5, <2>6, ClientStays
<1> QED BY <1>4, <1>5 DEF Timeout

\* close is asked for, and goes on later.
LEMMA CloseCallWays == ASSUME WInv, IInv', NEW c \in Clients, CloseCall(c) PROVE Ways'
<1>1. /\ UNCHANGED <<rec, serving, open, owner, up, link, call, stale, toServer, toClient>> /\ dropped' = dropped
  BY DEF CloseCall, serverVars, history
<1>2. wrapper \in [Clients -> Wrappers] /\ wrapper[c] \in Wrappers
  BY WrapperFacts DEF WInv
<1>3. /\ wrapper'[c].rec = wrapper[c].rec /\ wrapper'[c].conn = wrapper[c].conn /\ wrapper'[c].gen = wrapper[c].gen
      /\ (wrapper'[c].faulted <=> wrapper[c].faulted) /\ wrapper'[c].closed
      /\ \A d \in Clients : d # c => wrapper'[d] = wrapper[d]
  <2> DEFINE w == [wrapper[c] EXCEPT !.closed = TRUE]
  <2>1. wrapper' = [wrapper EXCEPT ![c] = w]
    BY DEF CloseCall
  <2>2. /\ w.rec = wrapper[c].rec /\ w.conn = wrapper[c].conn /\ w.gen = wrapper[c].gen
        /\ (w.faulted <=> wrapper[c].faulted) /\ w.closed
    BY <1>2 DEF Wrappers
  <2> HIDE DEF w
  <2> QED BY <1>2, <2>1, <2>2
<1>4. Fits(call[c], wrapper[c])'
  <2>1. Fits(call[c], wrapper[c]) /\ call[c].op \in {"none", "reopen", "resume"}
    BY FrameKinds DEF WInv, Ways, Calls, CloseCall, Idle
  <2> QED BY <1>1, <1>3, <2>1 DEF Fits
<1>5. ASSUME NEW k \in up, owner[k] = c PROVE Chan(k)'
  <2>1. Chan(k)
    BY DEF WInv, Ways
  <2>2. InOrder(k)'
    BY <1>1, <1>3, <1>5, <2>1 DEF Chan, InOrder, Quiet, Replied, Worked, Asked, Awaits, Request
  <2>3. Told(k)'
    BY <1>1, <1>3, <1>5, <2>1 DEF Chan, Told, ToldBy, AnyFault, Past, Listed
  <2>4. Bound(k)'
    BY <1>1, <1>3, <1>5 DEF Bound
  <2>5. Given(k)' = Given(k) /\ \A r, g, x : Follows(k, r, g, x) => Follows(k, r, g, x)'
    BY <1>1 DEF Given, Follows, Ours, Listed, Tells
  <2>6. Valid(k)'
    BY <1>1, <1>3, <1>5, <2>1, <2>5 DEF Chan, Valid
  <2>7. Remembered(k)'
    BY <1>1, <1>3, <1>5, <2>1, <2>5 DEF Chan, Remembered, Known, Closes, Ours, Listed
  <2> QED BY <2>2, <2>3, <2>4, <2>6, <2>7 DEF Chan
<1> QED BY <1>1, <1>3, <1>4, <1>5, ClientStays

\* A frame that is handled.
LEMMA PopFacts ==
  ASSUME WInv, NEW k \in up, toClient[k] # <<>>, toClient' = [toClient EXCEPT ![k] = Tail(@)], NEW f, f = Head(toClient[k])
  PROVE  /\ k \in Connections /\ owner[k] \in Clients /\ f \in Frames /\ ToldBy(k, f)
         /\ On(toClient[k]) = {f} \cup On(toClient'[k])
         /\ IsOutput(f) /\ Silent(toClient[k]) => Silent(toClient'[k])
         /\ IsOutput(f) /\ OneAnswer(toClient[k]) => OneAnswer(toClient'[k])
         /\ ~IsOutput(f) => ~Silent(toClient[k]) /\ (OneAnswer(toClient[k]) => Silent(toClient'[k]))
         /\ \A j \in Connections : j # k => toClient'[j] = toClient[j]
<1>1. /\ k \in Connections /\ owner[k] \in Clients /\ toClient \in [Connections -> Seq(Frames)]
      /\ toClient[k] \in Seq(Frames)
  BY ChanTypes DEF WInv, IInv, Inv, Queues
<1>2. /\ f \in Frames /\ On(toClient[k]) = {f} \cup On(Tail(toClient[k]))
      /\ OneAnswer(toClient[k]) => IF IsOutput(f) THEN OneAnswer(Tail(toClient[k])) ELSE Silent(Tail(toClient[k]))
  BY <1>1, OnTail
<1>3. toClient'[k] = Tail(toClient[k]) /\ \A j \in Connections : j # k => toClient'[j] = toClient[j]
  BY <1>1
<1>4. ToldBy(k, f)
  BY <1>2 DEF WInv, Ways, Chan, Told
<1>5. IsOutput(f) /\ Silent(toClient[k]) => Silent(toClient'[k])
  BY <1>2, <1>3 DEF Silent
<1>6. ~IsOutput(f) => ~Silent(toClient[k])
  BY <1>2 DEF Silent
<1> QED BY <1>1, <1>2, <1>3, <1>4, <1>5, <1>6

\* The answer to what the client asked.
LEMMA AnswerReceived ==
  ASSUME WInv, IInv', NEW k \in up, toClient[k] # <<>>, toClient' = [toClient EXCEPT ![k] = Tail(@)],
         NEW f, f = Head(toClient[k]), ~IsOutput(f), k \notin stale, NEW c, c = owner[k], call[c].conn = k,
         call' = [call EXCEPT ![c] = IF @.op \in {"open", "reopen", "resume"} THEN [@ EXCEPT !.frame = f] ELSE NoCall],
         wrapper' = [wrapper EXCEPT ![c] = IF call[c].op = "close" THEN NoWrapper ELSE @],
         UNCHANGED <<rec, serving, open, owner, toServer, link, stale, up, dropped>>
  PROVE  Ways'
<1> DEFINE o == call[c]
           w == wrapper[c]
<1>1. /\ k \in Connections /\ k # 0 /\ c \in Clients /\ f \in Frames /\ ToldBy(k, f)
      /\ On(toClient[k]) = {f} \cup On(toClient'[k])
      /\ ~Silent(toClient[k]) /\ (OneAnswer(toClient[k]) => Silent(toClient'[k]))
      /\ \A j \in Connections : j # k => toClient'[j] = toClient[j]
  BY PopFacts, ChanTypes DEF WInv
<1>2. /\ call \in [Clients -> [op : CallOps, conn : {0} \cup Connections, frame : Frames]]
      /\ wrapper \in [Clients -> Wrappers]
  BY <1>1, WrapperFacts DEF WInv, IInv, Inv, Queues
<1>3. Chan(k) /\ Replied(k) /\ Silent(toClient'[k])
  <2>1. Chan(k) /\ InOrder(k)
    BY DEF WInv, Ways, Chan
  <2>2. ~Quiet(k) /\ ~Worked(k) /\ ~Asked(k)
    BY <1>1 DEF Quiet, Worked, Asked
  <2>3. Replied(k)
    BY <2>1, <2>2 DEF InOrder
  <2>4. OneAnswer(toClient[k])
    BY <2>3 DEF Replied
  <2> QED BY <1>1, <2>1, <2>3, <2>4
<1>4. Fits(o, w) /\ o.op # "none" /\ o.frame = NoFrame /\ f.kind \in {"ok", "error", "thrown"}
  <2>1. Fits(o, w) /\ o.frame = NoFrame
    BY <1>1, <1>3 DEF WInv, Ways, Calls, Replied, Awaits
  <2>2. o.op # "none"
    BY <1>1, <2>1, FrameKinds DEF Fits
  <2>3. f.kind \in {"ok", "error", "thrown"}
    BY <1>1 DEF ToldBy, IsOutput, Frames, AnyFrame
  <2> QED BY <2>1, <2>2, <2>3
<1>5. /\ o.op \in Binding => call'[c].op = o.op /\ call'[c].conn = k /\ call'[c].frame = f
      /\ o.op \notin Binding => call'[c] = NoCall
      /\ wrapper'[c] = IF o.op = "close" THEN NoWrapper ELSE w
      /\ \A d \in Clients : d # c => call'[d] = call[d] /\ wrapper'[d] = wrapper[d]
  <2>1. [o EXCEPT !.frame = f].op = o.op /\ [o EXCEPT !.frame = f].conn = o.conn /\ [o EXCEPT !.frame = f].frame = f
    BY <1>1, <1>2
  <2> QED BY <1>1, <1>2, <2>1 DEF Binding
<1>6. f # NoFrame
  BY <1>4, FrameKinds
<1>7. Fits(call[c], wrapper[c])'
  BY <1>4, <1>5, <1>6, FrameKinds DEF Fits, Binding
<1> HIDE DEF o, w
<1>8. InOrder(k)'
  BY <1>1, <1>3, <1>5, <1>6, FrameKinds DEF InOrder, Quiet, Replied, Awaits
<1>9. Told(k)'
  BY <1>1, <1>3, <1>5, FrameKinds DEF Chan, Told, ToldBy, AnyFault, Past, Listed, w
<1>10. \A r, g, x : Follows(k, r, g, x) => Follows(k, r, g, x)'
  BY <1>1 DEF Follows, Ours, Listed, Tells, IsOutput
<1>11. Bound(k)'
  BY <1>1, <1>3, <1>5, <1>10, FrameKinds DEF Chan, Bound, w
<1>12. Given(k)' = Given(k)
  <2>1. CASE o.op \in Binding
    <3>1. Given(k) = {g \in On(toClient[k]) : g.kind = "ok"}
      BY <1>4, <2>1, FrameKinds DEF Given, o
    <3>2. Given(k)' = {g \in {f} \cup On(toClient'[k]) : g.kind = "ok"}
      BY <1>5, <2>1 DEF Given
    <3> QED BY <1>1, <3>1, <3>2
  <2>2. CASE o.op \notin Binding
    BY <1>5, <2>2, FrameKinds DEF Given, Binding, o
  <2> QED BY <2>1, <2>2
<1>13. Valid(k)'
  <2> SUFFICES ASSUME NEW g \in Given(k)
               PROVE  /\ Follows(k, g.rec, g.gen, g.id)
                      /\ call'[c].op = "reopen" => g.rec = wrapper'[c].rec /\ g.gen > wrapper'[c].gen
    BY <1>10, <1>12 DEF Valid
  <2>1. Follows(k, g.rec, g.gen, g.id) /\ (o.op = "reopen" => g.rec = w.rec /\ g.gen > w.gen)
    BY <1>3 DEF Chan, Valid, o, w
  <2> QED BY <1>5, <2>1, FrameKinds DEF Binding
<1>14. Remembered(k)'
  <2> SUFFICES ASSUME NEW r \in Records, Ours(k, r) PROVE Known(k, r)'
    BY DEF Remembered, Ours, Listed
  <2>1. Known(k, r) /\ ~Closes(k, r)
    BY <1>3, OnEmpty DEF Chan, Remembered, Replied, Closes
  <2>2. CASE \E g \in Given(k) : g.rec = r
    BY <1>12, <2>2 DEF Known
  <2>3. CASE w.conn = k /\ w.rec = r /\ w.gen = rec[r].gen /\ o.op # "close"
    BY <1>5, <2>3, FrameKinds DEF Known
  <2> QED BY <2>1, <2>2, <2>3 DEF Known, o, w
<1>15. Chan(k)'
  BY <1>8, <1>9, <1>11, <1>13, <1>14 DEF Chan
<1>16. \A j \in up : owner[j] = c => Chan(j)'
  BY <1>15, OneOfClient
<1>17. \A j \in Connections : owner[j] # c => toClient'[j] = toClient[j]
  BY <1>1
<1>18. wrapper'[c] = NoWrapper \/ (wrapper'[c].rec = wrapper[c].rec /\ wrapper'[c].conn = wrapper[c].conn)
  BY <1>5 DEF w
<1> QED BY <1>1, <1>5, <1>7, <1>16, <1>17, <1>18, ClientStays

\* What the server tells of a Session.
LEMMA OutputReceived ==
  ASSUME WInv, IInv', NEW k \in up, toClient[k] # <<>>, toClient' = [toClient EXCEPT ![k] = Tail(@)],
         NEW f, f = Head(toClient[k]), IsOutput(f), NEW c, c = owner[k],
         \/ /\ Accepts(c, k, f) /\ UNCHANGED dropped
            /\ wrapper' = [wrapper EXCEPT ![c] = IF f.kind = "fault" THEN [@ EXCEPT !.faulted = TRUE]
                                                 ELSE [@ EXCEPT !.id = f.id]]
         \/ ~Accepts(c, k, f) /\ dropped' = dropped \cup {f.rec} /\ UNCHANGED wrapper,
         UNCHANGED <<rec, serving, open, owner, toServer, link, stale, up, call>>
  PROVE  Ways'
<1> DEFINE o == call[c]
<1>w. PICK w : w = wrapper[c]
  OBVIOUS
<1>v. PICK v : v = wrapper'[c]
  OBVIOUS
<1>1. /\ k \in Connections /\ k # 0 /\ c \in Clients /\ f \in Frames /\ ToldBy(k, f) /\ f.rec \in Records
      /\ On(toClient[k]) = {f} \cup On(toClient'[k])
      /\ Silent(toClient[k]) => Silent(toClient'[k])
      /\ OneAnswer(toClient[k]) => OneAnswer(toClient'[k])
      /\ \A j \in Connections : j # k => toClient'[j] = toClient[j]
  BY PopFacts, ChanTypes, OutputTypes DEF WInv
<1>2. wrapper \in [Clients -> Wrappers] /\ w \in Wrappers
  BY <1>w, <1>v, <1>1, WrapperFacts DEF WInv
<1>3. /\ v.conn = w.conn /\ v.rec = w.rec /\ v.gen = w.gen /\ (v.closed <=> w.closed)
      /\ v.faulted <=> w.faulted \/ (Accepts(c, k, f) /\ f.kind = "fault")
      /\ v.id = IF Accepts(c, k, f) /\ f.kind = "identity" THEN f.id ELSE w.id
      /\ \A d \in Clients : d # c => wrapper'[d] = wrapper[d]
  <2>1. CASE ~Accepts(c, k, f) /\ UNCHANGED wrapper
    BY <1>w, <1>v, <2>1
  <2>2. CASE Accepts(c, k, f) /\ f.kind = "fault" /\ wrapper' = [wrapper EXCEPT ![c] = [@ EXCEPT !.faulted = TRUE]]
    <3>1. v = [w EXCEPT !.faulted = TRUE] /\ \A d \in Clients : d # c => wrapper'[d] = wrapper[d]
      BY <1>w, <1>v, <1>1, <1>2, <2>2
    <3> QED BY <1>w, <1>v, <1>2, <2>2, <3>1 DEF Wrappers
  <2>3. CASE Accepts(c, k, f) /\ f.kind = "identity" /\ wrapper' = [wrapper EXCEPT ![c] = [@ EXCEPT !.id = f.id]]
    <3>1. v = [w EXCEPT !.id = f.id] /\ \A d \in Clients : d # c => wrapper'[d] = wrapper[d]
      BY <1>w, <1>v, <1>1, <1>2, <2>3
    <3> QED BY <1>w, <1>v, <1>2, <2>3, <3>1 DEF Wrappers
  <2> QED BY <2>1, <2>2, <2>3 DEF IsOutput
<1>4. /\ dropped \subseteq dropped' /\ (~Accepts(c, k, f) => f.rec \in dropped')
      /\ Accepts(c, k, f) => w.conn = k /\ w.rec = f.rec /\ w.gen = f.gen /\ ~w.closed
  BY <1>w, <1>v DEF Accepts
<1>5. Chan(k) /\ Fits(o, w)
  BY <1>w, <1>v, <1>1 DEF WInv, Ways, Calls
<1> HIDE DEF o
<1>6. Fits(call[c], wrapper[c])'
  <2>1. w # NoWrapper => o.op # "open"
    BY <1>w, <1>v, <1>5 DEF Fits
  <2>2. o.op = "open" => wrapper'[c] = NoWrapper
    <3>1. o.op = "open" => ~Accepts(c, k, f)
      BY <1>w, <1>v, <1>1, <1>4, <2>1, FrameKinds
    <3> QED BY <1>w, <1>v, <2>1, <3>1
  <2> QED BY <1>w, <1>v, <1>3, <1>5, <2>2 DEF Fits, o
<1>7. InOrder(k)'
  <2>1. Quiet(k) => Quiet(k)'
    BY <1>1 DEF Quiet, Awaits
  <2>2. Replied(k) => Replied(k)'
    BY <1>1 DEF Replied, Awaits
  <2>3. Worked(k) => Worked(k)'
    BY <1>w, <1>v, <1>1, <1>3 DEF Worked, Awaits
  <2>4. Asked(k) => Asked(k)'
    BY <1>w, <1>v, <1>1, <1>3 DEF Asked, Awaits, Request
  <2> QED BY <1>w, <1>v, <1>5, <2>1, <2>2, <2>3, <2>4 DEF Chan, InOrder
<1>8. Told(k)'
  <2>1. \A g \in On(toClient'[k]) : ToldBy(k, g)'
    BY <1>w, <1>v, <1>1, <1>5 DEF Chan, Told, ToldBy, AnyFault, Past, Listed
  <2>2. v.conn = k /\ v.faulted => AnyFault(v.rec, v.gen)
    BY <1>w, <1>v, <1>1, <1>3, <1>4, <1>5 DEF Chan, Told, ToldBy
  <2> QED BY <1>w, <1>v, <2>1, <2>2 DEF Told, AnyFault, Listed
<1>9. ASSUME NEW r \in Records, NEW gen, NEW x, Follows(k, r, gen, x),
             f.rec = r /\ f.gen = gen => r \in dropped'
      PROVE  Follows(k, r, gen, x)'
  <2>1. ASSUME NEW kind, Tells(k, kind, r, gen), r \notin dropped' PROVE Tells(k, kind, r, gen)'
    BY <1>1, <1>9, <2>1 DEF Tells
  <2> QED BY <1>4, <1>9, <2>1 DEF Follows, Ours, Listed
<1>10. Bound(k)'
  <2> SUFFICES ASSUME v.conn = k, ~v.faulted, ~v.closed PROVE Follows(k, v.rec, v.gen, v.id)'
    BY <1>w, <1>v, <1>3, <1>5 DEF Chan, Bound
  <2>1. Follows(k, w.rec, w.gen, w.id) /\ w.rec \in Records
    BY <1>w, <1>v, <1>3, <1>5, BoundTypes DEF Chan, Bound
  <2>2. CASE ~Accepts(c, k, f)
    <3>1. f.rec = w.rec /\ f.gen = w.gen => w.rec \in dropped'
      BY <1>4, <2>2
    <3>2. v.rec = w.rec /\ v.gen = w.gen /\ v.id = w.id
      BY <1>3, <2>2
    <3>3. Follows(k, w.rec, w.gen, w.id)'
      BY <1>9, <2>1, <3>1
    <3> QED BY <3>2, <3>3
  <2>3. CASE Accepts(c, k, f)
    <3>1. f.kind = "identity" /\ v.id = f.id
      BY <1>3, <2>3 DEF IsOutput
    <3>2. w.rec \notin dropped => (rec[w.rec].faulted => Tells(k, "fault", w.rec, w.gen)')
      BY <1>1, <2>1, <3>1 DEF Follows, Tells
    <3>3. rec[w.rec].key = f.id
      BY <1>w, <1>v, <1>1, <1>4, <2>1, <2>3, <3>1 DEF ToldBy, Follows, Ours
    <3> QED BY <1>3, <1>4, <2>1, <3>1, <3>2, <3>3 DEF Follows, Ours, Listed
  <2> QED BY <2>2, <2>3
<1>11. Given(k)' = Given(k)
  BY <1>1 DEF Given, IsOutput
<1>12. Valid(k)'
  <2> SUFFICES ASSUME k \notin stale, NEW g \in Given(k)
               PROVE  /\ Follows(k, g.rec, g.gen, g.id)'
                      /\ o.op = "reopen" => g.rec = v.rec /\ g.gen > v.gen
    BY <1>w, <1>v, <1>11 DEF Valid, o
  <2>1. /\ Follows(k, g.rec, g.gen, g.id) /\ (o.op = "reopen" => g.rec = w.rec /\ g.gen > w.gen)
        /\ g.rec \in Records /\ g.gen \in Nat /\ o.op \in Binding
    BY <1>w, <1>v, <1>5, BoundTypes DEF Chan, Valid, Given, o
  <2>2. f.rec = g.rec /\ f.gen = g.gen => g.rec \in dropped'
    <3>1. CASE ~Accepts(c, k, f)
      BY <1>4, <3>1
    <3>2. CASE Accepts(c, k, f)
      <4>1. o.op = "reopen"
        BY <1>w, <1>v, <1>1, <1>4, <1>5, <2>1, <3>2, FrameKinds DEF Fits, Binding
      <4>2. g.gen # f.gen
        BY <1>4, <2>1, <3>2, <4>1
      <4> QED BY <4>2
    <3> QED BY <3>1, <3>2
  <2> QED BY <1>3, <1>9, <2>1, <2>2
<1>13. Remembered(k)'
  <2> SUFFICES ASSUME k \notin stale, NEW r \in Records, Ours(k, r) PROVE Known(k, r)'
    BY <1>w, <1>v DEF Remembered, Ours, Listed
  <2>1. Known(k, r)
    BY <1>w, <1>v, <1>5 DEF Chan, Remembered
  <2> QED BY <1>w, <1>v, <1>3, <1>11, <2>1 DEF Known, Closes
<1>14. Chan(k)'
  BY <1>w, <1>v, <1>7, <1>8, <1>10, <1>12, <1>13 DEF Chan
<1>15. \A j \in up : owner[j] = c => Chan(j)'
  BY <1>14, OneOfClient
<1>16. \A j \in Connections : owner[j] # c => toClient'[j] = toClient[j]
  BY <1>1
<1>17. wrapper'[c].rec = wrapper[c].rec /\ wrapper'[c].conn = wrapper[c].conn
  BY <1>w, <1>v, <1>3
<1> QED BY <1>w, <1>v, <1>1, <1>3, <1>4, <1>6, <1>15, <1>16, <1>17, ClientStays

LEMMA ReceiveWays == ASSUME WInv, IInv', NEW k \in Connections, Receive(k) PROVE Ways'
<1>1. PICK f, c : f = Head(toClient[k]) /\ c = owner[k]
  OBVIOUS
<1>2. /\ k \in up /\ toClient[k] # <<>>
      /\ UNCHANGED <<rec, serving, open, owner, toServer>> /\ dropped \subseteq dropped'
  BY DEF Receive, serverVars
<1>3. CASE FailClient(k)
  BY <1>2, <1>3, FailWays
<1>4. CASE /\ IsOutput(f) /\ Accepts(c, k, f) /\ toClient' = [toClient EXCEPT ![k] = Tail(@)]
           /\ wrapper' = [wrapper EXCEPT ![c] = IF f.kind = "fault" THEN [@ EXCEPT !.faulted = TRUE]
                                                ELSE [@ EXCEPT !.id = f.id]]
           /\ UNCHANGED <<call, link, stale, up, dropped>>
  BY <1>1, <1>2, <1>4, OutputReceived
<1>5. CASE /\ IsOutput(f) /\ ~Accepts(c, k, f) /\ toClient' = [toClient EXCEPT ![k] = Tail(@)]
           /\ dropped' = dropped \cup {f.rec}
           /\ UNCHANGED <<clientVars, up>>
  BY <1>1, <1>2, <1>5, OutputReceived DEF clientVars
<1>6. CASE /\ ~IsOutput(f) /\ k \notin stale /\ call[c].conn = k /\ toClient' = [toClient EXCEPT ![k] = Tail(@)]
           /\ call' = [call EXCEPT ![c] = IF @.op \in {"open", "reopen", "resume"} THEN [@ EXCEPT !.frame = f] ELSE NoCall]
           /\ wrapper' = [wrapper EXCEPT ![c] = IF call[c].op = "close" THEN NoWrapper ELSE @]
           /\ UNCHANGED <<link, stale, up, dropped>>
  BY <1>1, <1>2, <1>6, AnswerReceived
<1> QED BY <1>1, <1>3, <1>4, <1>5, <1>6, Zenon DEF Receive, IsOutput

LEMMA AppendOne == \A x : Append(<<>>, x) = <<x>>
OBVIOUS

\* A request is sent on a connection on which nothing is awaited.
LEMMA AskedChan ==
  ASSUME WInv, NEW c \in Clients, NEW k \in Connections, NEW op \in CallOps \ {"none"}, NEW q \in Requests,
         q.op \in Asks(op), owner'[k] = c, call'[c].op = op, call'[c].conn = k, call'[c].frame = NoFrame,
         toServer'[k] = Append(toServer[k], q),
         UNCHANGED <<rec, serving, wrapper, stale, toClient, dropped>>,
         k \in stale \/ (toServer[k] = <<>> /\ serving[k].op = "none" /\ Silent(toClient[k])),
         \A f \in On(toClient[k]) : ToldBy(k, f),
         NEW w, w = wrapper[c],
         w.conn = k /\ w.faulted => AnyFault(w.rec, w.gen),
         w.conn = k /\ ~w.faulted /\ ~w.closed =>
           /\ op = "execute" /\ Follows(k, w.rec, w.gen, w.id)
           /\ serving[k].op = "none" /\ \A e \in On(toServer[k]) : e.op = "execute",
         op = "reopen" => q.rec = w.rec /\ q.gen = w.gen,
         k \notin stale => \A r \in Records : Ours(k, r) =>
           \/ q.op = "close" /\ q.rec = r /\ q.gen = rec[r].gen
           \/ w.conn = k /\ w.rec = r /\ w.gen = rec[r].gen /\ op # "close"
  PROVE  Chan(k)'
<1>1. toServer[k] \in Seq(Requests) /\ wrapper'[c] = w /\ rec' = rec /\ serving' = serving /\ toClient' = toClient
      /\ stale' = stale
  BY DEF WInv, IInv, Inv, Queues
<1>2. On(toServer'[k]) = On(toServer[k]) \cup {q}
  BY <1>1, OnAppend
<1>3. InOrder(k)'
  <2> SUFFICES ASSUME k \notin stale PROVE Asked(k)'
    BY <1>1 DEF InOrder
  <2>0. toServer[k] = <<>>
    OBVIOUS
  <2>1. toServer'[k] = <<q>>
    BY <2>0, AppendOne
  <2>2. toServer'[k] # <<>> /\ Head(toServer'[k]) = q
    BY <2>1, OnlyOne
  <2> QED BY <1>1, <2>1, <2>2 DEF Asked, Awaits, Request
<1>4. Told(k)'
  BY <1>1 DEF Told, ToldBy, AnyFault, Past, Listed
<1>5. \A r, g, x : Follows(k, r, g, x) => Follows(k, r, g, x)'
  BY <1>1 DEF Follows, Ours, Listed, Tells
<1>6. Bound(k)'
  <2>1. q.op = "execute" \/ op # "execute"
    BY DEF Asks, Sent
  <2> QED BY <1>1, <1>2, <1>5, <2>1 DEF Bound
<1>7. k \in stale \/ Given(k)' = {}
  BY <1>1, FrameKinds DEF Given, Silent, IsOutput
<1>8. Valid(k)'
  BY <1>1, <1>7 DEF Valid
<1>9. Remembered(k)'
  <2> SUFFICES ASSUME k \notin stale, NEW r \in Records, Ours(k, r) PROVE Known(k, r)'
    BY <1>1 DEF Remembered, Ours, Listed
  <2>1. CASE q.op = "close" /\ q.rec = r /\ q.gen = rec[r].gen
    BY <1>1, <1>2, <2>1 DEF Known, Closes
  <2>2. CASE w.conn = k /\ w.rec = r /\ w.gen = rec[r].gen /\ op # "close"
    BY <1>1, <2>2 DEF Known
  <2> QED BY <2>1, <2>2
<1> QED BY <1>3, <1>4, <1>6, <1>8, <1>9 DEF Chan

\* What a client asks fits its wrapper: it is idle, or it closes what it was given.
MayAsk(c, k, op, r, g, w) ==
  /\ op = "open" => w = NoWrapper
  /\ op = "execute" => ~w.closed /\ w.conn = k
  /\ op = "reopen" => w.conn = k /\ w.faulted /\ r = w.rec /\ g = w.gen
  /\ op = "resume" => w.conn \notin up /\ w.faulted
  /\ op = "close" => w.conn = k /\ w.closed /\ r = w.rec /\ g = w.gen
  /\ op = "discard" => w.closed \/ w.faulted
  /\ \/ Idle(c) /\ op # "discard"
     \/ /\ k \in up /\ op = "discard" /\ call[c].op \in Binding /\ call[c].conn = k /\ call[c].frame.kind = "ok"
        /\ r = call[c].frame.rec /\ g = call[c].frame.gen

\* A request is sent on the connection of the adapter, or on a new one.
LEMMA AskWays ==
  ASSUME WInv, IInv', NEW c \in Clients, NEW k \in Connections, NEW op \in CallOps \ {"none"},
         NEW r \in {0} \cup Records, NEW g \in Nat, NEW id \in AnyIdentity, Ask(c, k, op, r, g, id),
         (k \in up /\ owner[k] = c /\ UNCHANGED <<owner, link, up, open>>) \/ Connect(c, k),
         UNCHANGED <<rec, serving, wrapper, stale, toClient, dropped>>,
         NEW w, w = wrapper[c],
         MayAsk(c, k, op, r, g, w)
  PROVE  Ways'
<1>m. /\ op = "open" => w = NoWrapper
      /\ op = "execute" => ~w.closed /\ w.conn = k
      /\ op = "reopen" => w.conn = k /\ w.faulted /\ r = w.rec /\ g = w.gen
      /\ op = "resume" => w.conn \notin up /\ w.faulted
      /\ op = "close" => w.conn = k /\ w.closed /\ r = w.rec /\ g = w.gen
      /\ op = "discard" => w.closed \/ w.faulted
      /\ \/ Idle(c) /\ op # "discard"
         \/ /\ k \in up /\ op = "discard" /\ call[c].op \in Binding /\ call[c].conn = k /\ call[c].frame.kind = "ok"
            /\ r = call[c].frame.rec /\ g = call[c].frame.gen
  BY DEF MayAsk
<1> USE <1>m
<1>0. PICK sent \in Sends(op, id) :
        toServer' = [toServer EXCEPT ![k] = Append(@, [op |-> sent, rec |-> r, gen |-> g, id |-> id])]
  BY DEF Ask
<1> DEFINE q == [op |-> sent, rec |-> r, gen |-> g, id |-> id]
           o == call[c]
<1>1. q \in Requests /\ q.op \in Asks(op) /\ q.rec = r /\ q.gen = g /\ (op \in {"close", "discard"} => q.op = "close")
  <2>1. sent \in {"open", "fork", "execute", "reopen", "close"} /\ sent \in Asks(op)
    BY DEF Sends, CallOps, Asks, Sent
  <2>2. op \in {"close", "discard"} => sent = "close"
    BY DEF Sends
  <2> QED BY <2>1, <2>2 DEF Requests
<1>2. /\ call \in [Clients -> [op : CallOps, conn : {0} \cup Connections, frame : Frames]]
      /\ toServer \in [Connections -> Seq(Requests)] /\ w \in Wrappers /\ k # 0 /\ 0 \notin Clients
  BY WrapperFacts, ConstantFacts, BrokerAssumption DEF WInv, IInv, Inv, Queues
<1>3. /\ call'[c].op = op /\ call'[c].conn = k /\ call'[c].frame = NoFrame
      /\ \A d \in Clients : d # c => call'[d] = call[d]
  BY <1>2 DEF Ask
<1>4. toServer'[k] = Append(toServer[k], q) /\ \A j \in Connections : j # k => toServer'[j] = toServer[j]
  BY <1>0, <1>2
<1> HIDE DEF q, o
<1>5. \/ k \in up /\ owner[k] = c /\ UNCHANGED <<owner, link, up, open>>
      \/ link[c] = 0 /\ owner[k] = 0 /\ owner' = [owner EXCEPT ![k] = c] /\ link' = [link EXCEPT ![c] = k]
         /\ up' = up \cup {k} /\ open' = open \cup {k} /\ Idle(c)
  BY <1>2 DEF Connect, WInv, IInv, Inv, Linked, TypeOK
<1>6. /\ owner'[k] = c /\ link'[c] = k
      /\ open' \subseteq open \cup {j \in Connections : owner[j] = 0}
      /\ \A d \in Clients : d # c => link'[d] = link[d]
      /\ \A j \in Connections : (owner[j] # 0 => owner'[j] = owner[j]) /\ owner'[j] \in {owner[j], c}
      /\ \A j \in Connections : j # k => owner'[j] = owner[j] /\ (j \in up' <=> j \in up)
      /\ \A j \in up' : owner'[j] = c => j = k
  <2>1. /\ owner \in [Connections -> {0} \cup Clients] /\ link \in [Clients -> {0} \cup up] /\ up \subseteq Connections
    BY DEF WInv, IInv, TypeOK
  <2>2. \A j \in up : link[owner[j]] = j
    BY DEF WInv, Ways, Links
  <2>3. CASE k \in up /\ owner[k] = c /\ UNCHANGED <<owner, link, up, open>>
    BY <2>1, <2>2, <2>3
  <2>4. CASE link[c] = 0 /\ owner[k] = 0 /\ owner' = [owner EXCEPT ![k] = c] /\ link' = [link EXCEPT ![c] = k]
             /\ up' = up \cup {k} /\ open' = open \cup {k}
    <3>1. \A j \in up : owner[j] # c
      BY <1>2, <2>1, <2>2, <2>4, ConstantFacts
    <3> QED BY <2>1, <2>4, <3>1
  <2> QED BY <1>5, <2>3, <2>4
<1>7. w.conn = k => k \in up
  <2>1. w.conn # 0 => owner[w.conn] = c
    BY WrapperFacts DEF WInv
  <2> QED BY <1>2, <1>5, <2>1
<1>8. Fits(call[c], wrapper[c])'
  <2>1. op = "resume" => w.conn \notin up'
    BY <1>2, <1>5, <1>7
  <2> QED BY <1>3, <2>1 DEF Fits
<1>9. Chan(k)'
  <2>1. CASE owner[k] = 0
    <3>1. /\ toServer[k] = <<>> /\ toClient[k] = <<>> /\ serving[k].op = "none"
      BY <2>1 DEF WInv, Ways, Links
    <3>2. w.conn # k /\ \A x \in Records : ~Ours(k, x)
      <4>1. k \notin up /\ k \notin open
        BY <1>2, <2>1 DEF WInv, IInv, TypeOK
      <4>2. \A x \in Records : Listed(x) => rec[x].conn \in open
        BY DEF WInv, IInv, Inv, Holds
      <4> QED BY <1>7, <4>1, <4>2 DEF Ours
    <3>3. Silent(toClient[k]) /\ \A f \in On(toClient[k]) : ToldBy(k, f)
      BY <3>1, OnEmpty
    <3>4. op = "reopen" => q.rec = w.rec /\ q.gen = w.gen
      BY <1>1
    <3>5. /\ w.conn = k /\ w.faulted => AnyFault(w.rec, w.gen)
          /\ w.conn = k /\ ~w.faulted /\ ~w.closed =>
               /\ op = "execute" /\ Follows(k, w.rec, w.gen, w.id)
               /\ serving[k].op = "none" /\ \A e \in On(toServer[k]) : e.op = "execute"
      BY <3>2
    <3>6. k \notin stale => \A x \in Records : Ours(k, x) =>
            \/ q.op = "close" /\ q.rec = x /\ q.gen = rec[x].gen
            \/ w.conn = k /\ w.rec = x /\ w.gen = rec[x].gen /\ op # "close"
      BY <3>2
    <3>7. k \in stale \/ (toServer[k] = <<>> /\ serving[k].op = "none" /\ Silent(toClient[k]))
      BY <3>1, <3>3
    <3> QED BY <1>1, <1>3, <1>4, <1>6, <3>3, <3>4, <3>5, <3>6, <3>7, AskedChan
  <2>2. CASE k \in up /\ owner[k] = c
    <3>1. Chan(k) /\ Fits(o, w)
      BY <2>2 DEF WInv, Ways, Calls, o
    <3>2. ~Awaits(k)
      <4>1. CASE Idle(c)
        BY <1>2, <2>2, <4>1, FrameKinds DEF Awaits, Idle
      <4>2. CASE call[c].frame.kind = "ok"
        BY <2>2, <4>2, FrameKinds DEF Awaits
      <4> QED BY <4>1, <4>2
    <3>3. k \in stale \/ Quiet(k)
      BY <3>1, <3>2 DEF Chan, InOrder, Replied, Worked, Asked
    <3>4. /\ \A f \in On(toClient[k]) : ToldBy(k, f)
          /\ w.conn = k /\ w.faulted => AnyFault(w.rec, w.gen)
      BY <2>2, <3>1 DEF Chan, Told
    <3>5. w.conn = k /\ ~w.faulted /\ ~w.closed =>
            /\ op = "execute" /\ Follows(k, w.rec, w.gen, w.id)
            /\ serving[k].op = "none" /\ \A e \in On(toServer[k]) : e.op = "execute"
      <4>1. w.conn = k /\ ~w.faulted /\ ~w.closed => op = "execute"
        BY <1>2, <2>2, FrameKinds DEF CallOps
      <4> QED BY <2>2, <3>1, <4>1 DEF Chan, Bound
    <3>6. ASSUME k \notin stale, NEW x \in Records, Ours(k, x)
          PROVE  \/ q.op = "close" /\ q.rec = x /\ q.gen = rec[x].gen
                 \/ w.conn = k /\ w.rec = x /\ w.gen = rec[x].gen /\ op # "close"
      <4>1. Known(k, x) /\ ~Closes(k, x)
        BY <3>1, <3>3, <3>6, OnEmpty DEF Chan, Remembered, Quiet, Closes
      <4>2. CASE Idle(c)
        <5>1. Given(k) = {}
          BY <1>2, <2>2, <4>2, FrameKinds DEF Given, Idle
        <5>2. w.conn = k /\ w.rec = x /\ w.gen = rec[x].gen
          BY <2>2, <4>1, <5>1 DEF Known
        <5>3. op = "close" => q.op = "close" /\ q.rec = w.rec /\ q.gen = w.gen
          BY <1>1
        <5> QED BY <5>2, <5>3
      <4>3. CASE op = "discard" /\ call[c].op \in Binding /\ r = call[c].frame.rec /\ g = call[c].frame.gen
        <5>1. \A f \in Given(k) : f = call[c].frame
          BY <2>2, <3>3, <3>6 DEF Given, Quiet, Silent, IsOutput
        <5>2. CASE \E f \in Given(k) : f.rec = x
          <6>1. Follows(k, call[c].frame.rec, call[c].frame.gen, call[c].frame.id) /\ call[c].frame.rec = x
            BY <3>1, <3>6, <5>1, <5>2 DEF Chan, Valid
          <6> QED BY <1>1, <4>3, <6>1 DEF Follows
        <5>3. CASE w.conn = k /\ w.rec = x /\ w.gen = rec[x].gen
          BY <4>3, <5>3
        <5> QED BY <2>2, <4>1, <5>2, <5>3 DEF Known
      <4> QED BY <4>2, <4>3
    <3> QED BY <1>1, <1>3, <1>4, <1>6, <3>3, <3>4, <3>5, <3>6, AskedChan DEF Quiet
  <2> QED BY <1>5, <2>1, <2>2
<1>10. /\ wrapper'[c].rec # 0 =>
            Past(wrapper'[c].rec) /\ (Listed(wrapper'[c].rec) => rec[wrapper'[c].rec].conn = wrapper'[c].conn)
       /\ wrapper'[c].rec = 0 => wrapper'[c].conn = 0
  BY DEF WInv, Ways, Links
<1>11. \A j \in up' : owner'[j] = c => link'[c] = j /\ Chan(j)'
  BY <1>6, <1>9
<1>12. \A j \in Connections : owner'[j] # c =>
         /\ toServer'[j] = toServer[j] /\ toClient'[j] = toClient[j]
         /\ j \in up' <=> j \in up
         /\ j \in stale' <=> j \in stale
  BY <1>4, <1>6
<1>13. wrapper'[c] = w /\ UNCHANGED <<rec, serving>> /\ dropped' = dropped /\ \A d \in Clients : wrapper'[d] = wrapper[d]
  OBVIOUS
<1> QED BY <1>3, <1>6, <1>8, <1>10, <1>11, <1>12, <1>13, ClientKeeps

LEMMA OpenCallWays == ASSUME WInv, IInv', NEW c \in Clients, OpenCall(c) PROVE Ways'
<1>1. PICK k \in Connections, id \in AnyIdentity : Connect(c, k) /\ Ask(c, k, "open", 0, 0, id)
  BY DEF OpenCall
<1>2. PICK w : w = wrapper[c]
  OBVIOUS
<1>3. id \in AnyIdentity /\ "open" \in CallOps \ {"none"} /\ 0 \in {0} \cup Records /\ 0 \in Nat
  BY DEF CallOps
<1>4. UNCHANGED <<rec, serving, wrapper, stale, toClient, dropped>> /\ MayAsk(c, k, "open", 0, 0, w)
  BY <1>2 DEF OpenCall, history, MayAsk
<1> QED BY <1>1, <1>2, <1>3, <1>4, AskWays

LEMMA ExecuteCallWays == ASSUME WInv, IInv', NEW c \in Clients, ExecuteCall(c) PROVE Ways'
<1>1. PICK w, k, r, g : w = wrapper[c] /\ k = w.conn /\ r = w.rec /\ g = w.gen
  OBVIOUS
<1>2. k \in up /\ Ask(c, k, "execute", r, g, NoIdentity) /\ Idle(c) /\ ~w.closed
  BY <1>1 DEF ExecuteCall
<1>3. k \in Connections /\ owner[k] = c /\ r \in {0} \cup Records /\ g \in Nat
  BY <1>1, <1>2, WrapperFacts DEF WInv
<1>4. UNCHANGED <<owner, link, up, open>> /\ UNCHANGED <<rec, serving, wrapper, stale, toClient, dropped>>
  BY DEF ExecuteCall, serverVars, history
<1>5. NoIdentity \in AnyIdentity /\ "execute" \in CallOps \ {"none"}
  BY DEF AnyIdentity, CallOps
<1>6. /\ (k \in up /\ owner[k] = c /\ UNCHANGED <<owner, link, up, open>>) \/ Connect(c, k)
      /\ MayAsk(c, k, "execute", r, g, w)
  BY <1>1, <1>2, <1>3, <1>4 DEF MayAsk
<1>7. Ask(c, k, "execute", r, g, NoIdentity)
  BY <1>2
<1> QED BY <1>1, <1>3, <1>4, <1>5, <1>6, <1>7, AskWays

LEMMA RecoverCallWays == ASSUME WInv, IInv', NEW c \in Clients, RecoverCall(c) PROVE Ways'
<1>1. PICK w : w = wrapper[c]
  OBVIOUS
<1>2. w.faulted /\ Idle(c) /\ UNCHANGED <<rec, serving, wrapper, stale, toClient, dropped>>
  BY <1>1 DEF RecoverCall, history
<1>3. CASE /\ w.conn \in up /\ Ask(c, w.conn, "reopen", w.rec, w.gen, NoIdentity)
           /\ UNCHANGED <<owner, link, up, open>>
  <2>1. PICK k, r, g : k = w.conn /\ r = w.rec /\ g = w.gen
    OBVIOUS
  <2>2. k \in Connections /\ owner[k] = c /\ r \in {0} \cup Records /\ g \in Nat
    BY <1>1, <1>3, <2>1, WrapperFacts DEF WInv
  <2>3. NoIdentity \in AnyIdentity /\ "reopen" \in CallOps \ {"none"}
    BY DEF AnyIdentity, CallOps
  <2>4. Ask(c, k, "reopen", r, g, NoIdentity)
    BY <1>3, <2>1
  <2>5. /\ (k \in up /\ owner[k] = c /\ UNCHANGED <<owner, link, up, open>>) \/ Connect(c, k)
        /\ w.conn = k /\ w.faulted /\ r = w.rec /\ g = w.gen /\ Idle(c)
    BY <1>2, <1>3, <2>1, <2>2
  <2>6. PICK op \in CallOps \ {"none"} : op = "reopen"
    BY <2>3
  <2>7. /\ Ask(c, k, op, r, g, NoIdentity) /\ NoIdentity \in AnyIdentity
        /\ (k \in up /\ owner[k] = c /\ UNCHANGED <<owner, link, up, open>>) \/ Connect(c, k)
    BY <2>3, <2>4, <2>5, <2>6
  <2>8. MayAsk(c, k, op, r, g, w)
    BY <2>5, <2>6 DEF MayAsk
  <2> QED BY <1>1, <1>2, <2>2, <2>6, <2>7, <2>8, AskWays
<1>4. CASE w.conn \notin up /\ \E k \in Connections : Connect(c, k) /\ Ask(c, k, "resume", 0, 0, w.id)
  <2>1. PICK k \in Connections : Connect(c, k) /\ Ask(c, k, "resume", 0, 0, w.id)
    BY <1>4
  <2>2. PICK id : id = w.id
    OBVIOUS
  <2>3. id \in AnyIdentity /\ "resume" \in CallOps \ {"none"} /\ 0 \in {0} \cup Records /\ 0 \in Nat
    BY <1>1, <2>2, WrapperFacts DEF WInv, CallOps
  <2>4. Ask(c, k, "resume", 0, 0, id) /\ MayAsk(c, k, "resume", 0, 0, w)
    BY <1>2, <1>4, <2>1, <2>2 DEF MayAsk
  <2> QED BY <1>1, <1>2, <1>4, <2>1, <2>3, <2>4, AskWays
<1> QED BY <1>1, <1>3, <1>4 DEF RecoverCall

LEMMA SendCloseWays == ASSUME WInv, IInv', NEW c \in Clients, SendClose(c) PROVE Ways'
<1>1. PICK w, k, r, g : w = wrapper[c] /\ k = w.conn /\ r = w.rec /\ g = w.gen
  OBVIOUS
<1>2. w.closed /\ Idle(c) /\ UNCHANGED <<owner, link, up, open>> /\ UNCHANGED <<rec, serving, stale, toClient, dropped>>
  BY <1>1 DEF SendClose, serverVars, history
<1>3. CASE k \in up /\ Ask(c, k, "close", r, g, NoIdentity) /\ UNCHANGED wrapper
  <2>1. k \in Connections /\ owner[k] = c /\ r \in {0} \cup Records /\ g \in Nat
    BY <1>1, <1>3, WrapperFacts DEF WInv
  <2>2. NoIdentity \in AnyIdentity /\ "close" \in CallOps \ {"none"}
    BY DEF AnyIdentity, CallOps
  <2>3. UNCHANGED <<rec, serving, wrapper, stale, toClient, dropped>>
    BY <1>2, <1>3
  <2>4. Ask(c, k, "close", r, g, NoIdentity)
    BY <1>3
  <2>5. /\ (k \in up /\ owner[k] = c /\ UNCHANGED <<owner, link, up, open>>) \/ Connect(c, k)
        /\ w.conn = k /\ w.closed /\ r = w.rec /\ g = w.gen /\ Idle(c)
    BY <1>1, <1>2, <1>3, <2>1
  <2>6. PICK op \in CallOps \ {"none"} : op = "close"
    BY <2>2
  <2>7. /\ Ask(c, k, op, r, g, NoIdentity) /\ NoIdentity \in AnyIdentity
        /\ (k \in up /\ owner[k] = c /\ UNCHANGED <<owner, link, up, open>>) \/ Connect(c, k)
    BY <2>2, <2>4, <2>5, <2>6
  <2>8. MayAsk(c, k, op, r, g, w)
    BY <2>5, <2>6 DEF MayAsk
  <2>9. w = wrapper[c] /\ r \in {0} \cup Records /\ g \in Nat /\ k \in Connections
    BY <1>1, <2>1
  <2> QED BY <2>3, <2>7, <2>8, <2>9, AskWays
<1>4. CASE k \notin up /\ wrapper' = [wrapper EXCEPT ![c] = NoWrapper] /\ UNCHANGED <<call, toServer>>
  <2>1. wrapper'[c] = NoWrapper /\ (\A d \in Clients : d # c => wrapper'[d] = wrapper[d]) /\ call' = call
    BY <1>4, WrapperFacts DEF WInv
  <2>2. Fits(call[c], wrapper[c])'
    BY <1>2, <2>1, FrameKinds DEF Fits, Idle
  <2>3. ASSUME NEW j \in up, owner[j] = c PROVE Chan(j)'
    <3>1. Chan(j) /\ j # k /\ j # 0 /\ call[c].conn # j /\ call[c].op = "none"
      BY <1>2, <1>4, <2>3, ChanTypes, FrameKinds DEF Idle, WInv, Ways
    <3>2. InOrder(j)'
      BY <1>2, <1>4, <2>3, <3>1 DEF Chan, InOrder, Quiet, Replied, Worked, Asked, Awaits
    <3>3. Told(j)'
      BY <1>2, <2>1, <2>3, <3>1, FrameKinds DEF Chan, Told, ToldBy, AnyFault, Past, Listed
    <3>4. Bound(j)'
      BY <1>2, <2>1, <2>3, <3>1, FrameKinds DEF Bound
    <3>5. Given(j) = {} /\ Given(j)' = {}
      BY <1>2, <1>4, <2>3, <3>1 DEF Given
    <3>6. Valid(j)'
      BY <3>5 DEF Valid
    <3>7. Remembered(j)'
      <4> SUFFICES ASSUME j \notin stale, NEW q \in Records, Ours(j, q) PROVE Known(j, q)'
        BY <1>2 DEF Remembered, Ours, Listed
      <4> QED BY <1>1, <1>2, <1>4, <2>3, <3>1, <3>5 DEF Chan, Remembered, Known, Closes
    <3> QED BY <3>2, <3>3, <3>4, <3>6, <3>7 DEF Chan
  <2> QED BY <1>2, <1>4, <2>1, <2>2, <2>3, ClientStays
<1> QED BY <1>1, <1>3, <1>4 DEF SendClose

\* What an answered call says about its connection.
LEMMA AnsweredFacts ==
  ASSUME WInv, NEW c \in Clients, Answered(c), NEW k, k = call[c].conn, NEW f, f = call[c].frame
  PROVE  /\ k \in up /\ k \in Connections /\ k # 0 /\ owner[k] = c /\ k \notin stale /\ Chan(k) /\ Quiet(k)
         /\ call[c].op \in Binding /\ f.kind \in {"ok", "error", "thrown"} /\ f \in Frames
         /\ Fits(call[c], wrapper[c])
         /\ Given(k) = IF f.kind = "ok" THEN {f} ELSE {}
<1>1. k \in up /\ k \in Connections /\ owner[k] = c /\ f \in Frames /\ k # 0
  BY WrapperFacts, ChanTypes DEF WInv, Answered
<1>2. /\ call[c].op \in Binding /\ f.kind \in {"ok", "error", "thrown"} /\ k \notin stale
      /\ Fits(call[c], wrapper[c])
  BY DEF WInv, Ways, Calls, Fits, Answered
<1>3. Chan(k) /\ ~Awaits(k)
  BY <1>1 DEF WInv, Ways, Awaits, Answered
<1>4. Quiet(k)
  BY <1>2, <1>3 DEF Chan, InOrder, Replied, Worked, Asked
<1>5. Given(k) = IF f.kind = "ok" THEN {f} ELSE {}
  BY <1>1, <1>2, <1>4 DEF Given, Quiet, Silent, IsOutput
<1> QED BY <1>1, <1>2, <1>3, <1>4, <1>5

\* The wrapper is bound to the Session that it was given.
LEMMA BindWays ==
  ASSUME WInv, IInv', NEW c \in Clients, Answered(c), NEW k, k = call[c].conn, NEW f, f = call[c].frame,
         f.kind = "ok", ~wrapper[c].closed, \A d \in Clients : d # c => wrapper'[d] = wrapper[d],
         wrapper'[c].conn = k, wrapper'[c].rec = f.rec, wrapper'[c].gen = f.gen, wrapper'[c].id = f.id,
         ~wrapper'[c].faulted, call' = [call EXCEPT ![c] = NoCall],
         UNCHANGED <<rec, serving, open, link, stale, owner, up, toServer, toClient, dropped>>
  PROVE  Ways'
<1>1. PICK w : w = wrapper[c]
  OBVIOUS
<1>2. /\ call'[c] = NoCall /\ \A d \in Clients : d # c => call'[d] = call[d] /\ wrapper'[d] = wrapper[d]
  BY WrapperFacts DEF WInv, IInv, Inv, Queues
<1>a. /\ k \in up /\ k # 0 /\ owner[k] = c /\ k \notin stale /\ Chan(k) /\ Quiet(k) /\ Given(k) = {f}
  BY AnsweredFacts
<1>b. f \in Frames /\ call[c].op \in Binding /\ Fits(call[c], wrapper[c])
  BY AnsweredFacts
<1>3. /\ k \in up /\ k # 0 /\ owner[k] = c /\ k \notin stale /\ Chan(k) /\ Quiet(k) /\ f \in Frames
      /\ call[c].op \in Binding /\ Fits(call[c], wrapper[c]) /\ Given(k) = {f}
  BY <1>a, <1>b
<1>4. Follows(k, f.rec, f.gen, f.id) /\ (call[c].op = "reopen" => f.rec = w.rec)
  BY <1>1, <1>3 DEF Chan, Valid
<1>5. Fits(call[c], wrapper[c])'
  BY <1>2, FrameKinds DEF Fits
<1>6. InOrder(k)'
  BY <1>2, <1>3, FrameKinds DEF InOrder, Quiet, Awaits
<1>7. Told(k)'
  BY <1>3 DEF Chan, Told, ToldBy, AnyFault, Past, Listed
<1>8. Bound(k)'
  <2>1. Follows(k, f.rec, f.gen, f.id)'
    BY <1>4 DEF Follows, Ours, Listed, Tells
  <2>2. serving'[k].op = "none" /\ On(toServer'[k]) = {}
    BY <1>3, OnEmpty DEF Quiet
  <2> QED BY <1>3, <2>1, <2>2 DEF Bound
<1>9. Given(k)' = {}
  BY <1>2, <1>3, FrameKinds DEF Given
<1>10. Valid(k)'
  BY <1>9 DEF Valid
<1>11. Remembered(k)'
  <2> SUFFICES ASSUME NEW r \in Records, Ours(k, r) PROVE Known(k, r)'
    BY DEF Remembered, Ours, Listed
  <2>1. Known(k, r) /\ ~Closes(k, r)
    BY <1>3, OnEmpty DEF Chan, Remembered, Quiet, Closes
  <2>2. ASSUME w.conn = k, w.rec = r PROVE f.rec = r
    BY <1>1, <1>3, <1>4, <2>2, FrameKinds DEF Fits, Binding
  <2>3. f.rec = r
    BY <1>1, <1>3, <2>1, <2>2 DEF Known
  <2>4. rec'[r].gen = f.gen
    BY <1>4, <2>3 DEF Follows
  <2> QED BY <1>2, <1>3, <2>3, <2>4, FrameKinds DEF Known
<1>12. Chan(k)'
  BY <1>6, <1>7, <1>8, <1>10, <1>11 DEF Chan
<1>13. \A j \in up : owner[j] = c => Chan(j)'
  BY <1>3, <1>12, OneOfClient
<1>14. wrapper'[c].rec \in Records /\ Ours(wrapper'[c].conn, wrapper'[c].rec)
  BY <1>3, <1>4, OutputTypes DEF Follows
<1> QED BY <1>2, <1>5, <1>13, <1>14, ClientStays

\* Or it is not.
LEMMA UnboundWays ==
  ASSUME WInv, IInv', NEW c \in Clients, Answered(c), NEW k, k = call[c].conn, NEW f, f = call[c].frame,
         f.kind # "ok", call' = [call EXCEPT ![c] = NoCall],
         UNCHANGED <<rec, serving, open, wrapper, link, stale, owner, up, toServer, toClient, dropped>>
  PROVE  Ways'
<1>1. /\ call'[c] = NoCall /\ \A d \in Clients : d # c => call'[d] = call[d]
  BY DEF WInv, IInv, Inv, Queues
<1>2. /\ k \in up /\ k # 0 /\ owner[k] = c /\ k \notin stale /\ Chan(k) /\ Quiet(k) /\ Given(k) = {}
  BY AnsweredFacts
<1>3. Fits(call[c], wrapper[c])'
  BY <1>1, FrameKinds DEF Fits
<1>4. InOrder(k)'
  BY <1>1, <1>2, FrameKinds DEF InOrder, Quiet, Awaits
<1>5. Told(k)'
  BY <1>2 DEF Chan, Told, ToldBy, AnyFault, Past, Listed
<1>6. Bound(k)'
  <2>1. \A r, g, x : Follows(k, r, g, x) => Follows(k, r, g, x)'
    BY DEF Follows, Ours, Listed, Tells
  <2> QED BY <1>2, <2>1 DEF Chan, Bound
<1>7. Given(k)' = {}
  BY <1>1, <1>2, FrameKinds DEF Given
<1>8. Valid(k)'
  BY <1>7 DEF Valid
<1>9. Remembered(k)'
  <2> SUFFICES ASSUME NEW r \in Records, Ours(k, r) PROVE Known(k, r)'
    BY DEF Remembered, Ours, Listed
  <2> QED BY <1>1, <1>2, FrameKinds DEF Chan, Remembered, Known, Closes
<1>10. Chan(k)'
  BY <1>4, <1>5, <1>6, <1>8, <1>9 DEF Chan
<1>11. \A j \in up : owner[j] = c => Chan(j)'
  BY <1>2, <1>10, OneOfClient
<1> QED BY <1>1, <1>3, <1>11, ClientStays

LEMMA OpenedWays == ASSUME WInv, IInv', NEW c \in Clients, Opened(c) PROVE Ways'
<1>1. PICK k, f, w : /\ k = call[c].conn /\ f = call[c].frame
                     /\ w = [conn |-> k, rec |-> f.rec, gen |-> f.gen, id |-> f.id, faulted |-> FALSE, closed |-> FALSE]
  OBVIOUS
<1>2. /\ Answered(c) /\ call[c].op = "open"
      /\ UNCHANGED <<rec, serving, open, owner, toServer, dropped>>
  BY DEF Opened, serverVars, history
<1>3. k \in up /\ f.kind \in {"ok", "error", "thrown"} /\ Fits(call[c], wrapper[c])
  BY <1>1, <1>2, AnsweredFacts
<1>a. k = call[c].conn /\ f = call[c].frame
  BY <1>1
<1>4. ~wrapper[c].closed
  BY <1>2, <1>3 DEF Fits, NoWrapper
<1>5. CASE FailClient(k)
  BY <1>2, <1>3, <1>5, FailWays
<1>6. CASE /\ f.kind = "error" /\ UNCHANGED wrapper /\ call' = [call EXCEPT ![c] = NoCall]
           /\ UNCHANGED <<link, stale, up, toClient>>
  BY <1>1, <1>2, <1>6, UnboundWays
<1>7. CASE /\ f.kind = "ok" /\ wrapper' = [wrapper EXCEPT ![c] = w] /\ call' = [call EXCEPT ![c] = NoCall]
           /\ UNCHANGED <<link, stale, up, toClient>>
  <2>1. wrapper'[c] = w /\ \A d \in Clients : d # c => wrapper'[d] = wrapper[d]
    BY <1>7, WrapperFacts DEF WInv
  <2>2. /\ wrapper'[c].conn = k /\ wrapper'[c].rec = f.rec /\ wrapper'[c].gen = f.gen /\ wrapper'[c].id = f.id
        /\ ~wrapper'[c].faulted
    BY <1>1, <2>1
  <2>3. UNCHANGED <<rec, serving, open, link, stale, owner, up, toServer, toClient, dropped>>
    BY <1>2, <1>7
  <2>4. f.kind = "ok" /\ call' = [call EXCEPT ![c] = NoCall] /\ Answered(c)
    BY <1>2, <1>7
  <2> QED BY <1>a, <1>4, <2>1, <2>2, <2>3, <2>4, BindWays
<1> QED BY <1>1, <1>3, <1>5, <1>6, <1>7 DEF Opened

LEMMA RecoveredWays == ASSUME WInv, IInv', NEW c \in Clients, Recovered(c) PROVE Ways'
<1>1. PICK k, f, w : /\ k = call[c].conn /\ f = call[c].frame
                     /\ w = [wrapper[c] EXCEPT !.conn = k, !.rec = f.rec, !.gen = f.gen, !.id = f.id, !.faulted = FALSE]
  OBVIOUS
<1>a. k = call[c].conn /\ f = call[c].frame
  BY <1>1
<1>2. Answered(c) /\ UNCHANGED <<rec, serving, open, link, stale, owner, up, toClient, dropped>>
  BY DEF Recovered, serverVars, history
<1>3. CASE f.kind # "ok" /\ call' = [call EXCEPT ![c] = NoCall] /\ UNCHANGED <<wrapper, toServer>>
  BY <1>1, <1>2, <1>3, UnboundWays
<1>4. CASE /\ f.kind = "ok" /\ ~wrapper[c].closed /\ wrapper' = [wrapper EXCEPT ![c] = w]
           /\ call' = [call EXCEPT ![c] = NoCall] /\ UNCHANGED toServer
  <2>1. wrapper'[c] = w /\ \A d \in Clients : d # c => wrapper'[d] = wrapper[d]
    BY <1>4, WrapperFacts DEF WInv
  <2>2. w.conn = k /\ w.rec = f.rec /\ w.gen = f.gen /\ w.id = f.id /\ ~w.faulted
    BY <1>1, WrapperFacts DEF WInv, Wrappers
  <2>3. /\ wrapper'[c].conn = k /\ wrapper'[c].rec = f.rec /\ wrapper'[c].gen = f.gen /\ wrapper'[c].id = f.id
        /\ ~wrapper'[c].faulted
    BY <2>1, <2>2
  <2>4. UNCHANGED <<rec, serving, open, link, stale, owner, up, toServer, toClient, dropped>>
    BY <1>2, <1>4
  <2>5. f.kind = "ok" /\ call' = [call EXCEPT ![c] = NoCall] /\ Answered(c) /\ ~wrapper[c].closed
    BY <1>2, <1>4
  <2> QED BY <1>a, <2>1, <2>3, <2>4, <2>5, BindWays
<1>b. wrapper[c].faulted
  <2>1. call[c].op \in {"reopen", "resume"} /\ Fits(call[c], wrapper[c])
    BY <1>1, <1>2, AnsweredFacts DEF Recovered
  <2> QED BY <2>1 DEF Fits
<1>5. CASE f.kind = "ok" /\ Ask(c, k, "discard", f.rec, f.gen, NoIdentity) /\ UNCHANGED wrapper
  <2>1. /\ k \in up /\ k \in Connections /\ owner[k] = c /\ call[c].op \in Binding /\ f \in Frames
        /\ (k \in up /\ owner[k] = c /\ UNCHANGED <<owner, link, up, open>>) \/ Connect(c, k)
    BY <1>1, <1>2, AnsweredFacts
  <2>2. PICK op, r, g, v : op = "discard" /\ r = f.rec /\ g = f.gen /\ v = wrapper[c]
    OBVIOUS
  <2>3. /\ op \in CallOps \ {"none"} /\ r \in {0} \cup Records /\ g \in Nat /\ NoIdentity \in AnyIdentity
        /\ Ask(c, k, op, r, g, NoIdentity)
    BY <1>5, <2>1, <2>2 DEF CallOps, AnyIdentity, Frames, AnyFrame
  <2>4. \/ Idle(c) /\ op # "discard"
        \/ /\ k \in up /\ op = "discard" /\ call[c].op \in Binding /\ call[c].conn = k /\ call[c].frame.kind = "ok"
           /\ r = call[c].frame.rec /\ g = call[c].frame.gen
    BY <1>1, <1>5, <2>1, <2>2
  <2>5. MayAsk(c, k, op, r, g, v)
    BY <1>b, <2>2, <2>4 DEF MayAsk
  <2>6. UNCHANGED <<rec, serving, wrapper, stale, toClient, dropped>> /\ v = wrapper[c]
    BY <1>2, <1>5, <2>2
  <2>7. k \in Connections /\ ((k \in up /\ owner[k] = c /\ UNCHANGED <<owner, link, up, open>>) \/ Connect(c, k))
    BY <2>1
  <2> QED BY <2>3, <2>5, <2>6, <2>7, AskWays
<1> QED BY <1>1, <1>3, <1>4, <1>5 DEF Recovered

LEMMA InitWays == Init => Ways
<1> SUFFICES ASSUME Init PROVE Ways
  OBVIOUS
<1>1. up = {} /\ open = {}
  BY DEF Init
<1>2. Links
  BY <1>1, FrameKinds DEF Init, Links, NoWork, Work, NoRecord, NoWrapper
<1>3. Calls
  BY FrameKinds DEF Init, Calls, Fits
<1> QED BY <1>1, <1>2, <1>3 DEF Ways

LEMMA StutterWays == ASSUME WInv, UNCHANGED vars PROVE Ways'
<1>1. UNCHANGED <<rec, serving, open, owner, up, toServer, toClient, dropped>> /\ UNCHANGED clientVars
  BY DEF vars, serverVars, history
<1>2. Ages /\ \A r \in Records : Alike(r)
  BY <1>1 DEF Ages, Alike, Past, Listed
<1>3. 0 \notin Connections /\ 0 \notin open /\ 0 \notin up
  BY ConstantFacts DEF WInv, IInv, TypeOK
<1>4. \A r \in Records : rec'[r].st \in {"free", "opening"} => rec'[r].gen = 1 /\ ~rec'[r].faulted
  BY <1>1 DEF WInv, Ways, Links
<1> QED BY <1>1, <1>2, <1>3, <1>4, ServerKeeps

LEMMA NextWays == ASSUME WInv, [Next]_vars PROVE WInv'
<1>1. IInv'
  BY NextKeeps DEF WInv
<1>2. ASSUME NEW k \in Connections,
             \/ TakeOpen(k) \/ OpenFails(k) \/ OpenDrops(k) \/ DropDone(k) \/ OpenDone(k) \/ TakeExecute(k)
             \/ TakeReopen(k) \/ ReopenDone(k) \/ ReopenDrops(k) \/ TakeClose(k) \/ SocketClosed(k) \/ Receive(k) \/ Lost(k)
      PROVE  Ways'
  BY <1>1, <1>2, TakeOpenWays, OpenFailsWays, OpenDropsWays, DropDoneWays, OpenDoneWays, TakeExecuteWays, TakeReopenWays,
     ReopenDoneWays, ReopenDropsWays, TakeCloseWays, SocketClosedWays, ReceiveWays, LostWays
<1>3. ASSUME NEW r \in Records, CloseDone(r) \/ Faults(r) \/ OutputsThrow(r) \/ Identifies(r) \/ Misidentifies(r)
      PROVE  Ways'
  BY <1>1, <1>3, CloseDoneWays, FaultsWays, OutputsThrowWays, IdentifiesWays, MisidentifiesWays
<1>4. ASSUME NEW c \in Clients,
             \/ Opened(c) \/ Recovered(c) \/ SendClose(c) \/ OpenCall(c) \/ ExecuteCall(c)
             \/ RecoverCall(c) \/ CloseCall(c) \/ Timeout(c)
      PROVE  Ways'
  BY <1>1, <1>4, OpenedWays, RecoveredWays, SendCloseWays, OpenCallWays, ExecuteCallWays,
     RecoverCallWays, CloseCallWays, TimeoutWays
<1> QED BY <1>1, <1>2, <1>3, <1>4, NativeClosesWays, StutterWays DEF Next, WInv

\* What is on the way between a client and the server accounts for the difference
\* between what the two of them know.
THEOREM OnTheWay == Spec => []WInv
BY InitKeeps, InitWays, NextWays, PTL DEF Spec, WInv

\* A BrokeredHarnessSession that thinks it is usable, with nothing left to read, is bound
\* to a Session the server lists for its connection, of the present generation and not
\* faulted, and knows its identity; but for a Session an output of which it dropped.
THEOREM WrappersFollow == Spec => []WrapperFollowsRecord
<1>1. ASSUME WInv PROVE WrapperFollowsRecord
  <2> SUFFICES ASSUME NEW c \in Clients, NEW w, w = wrapper[c], NEW k, k = w.conn,
                      k \in up, ~w.faulted, ~w.closed, toClient[k] = <<>>, w.rec \notin dropped
               PROVE  /\ Listed(w.rec) /\ rec[w.rec].conn = k /\ rec[w.rec].gen = w.gen
                      /\ ~rec[w.rec].faulted /\ rec[w.rec].key = w.id
    BY DEF WrapperFollowsRecord
  <2>1. owner[k] = c
    BY <1>1, WrapperFacts DEF WInv
  <2>2. Follows(k, w.rec, w.gen, w.id)
    BY <1>1, <2>1 DEF WInv, Ways, Chan, Bound
  <2>3. \A kind : ~Tells(k, kind, w.rec, w.gen)
    BY OnEmpty DEF Tells
  <2> QED BY <2>2, <2>3 DEF Follows, Ours
<1> QED BY <1>1, OnTheWay, PTL

\* When nothing is under way on a connection, each Session that the server lists for it is
\* the one its wrapper is bound to: what a timed-out or an overtaken recovery opened has
\* been closed, and a Session goes with its socket.
THEOREM NothingForgotten == Spec => []NoSessionIsForgotten
<1>1. ASSUME WInv PROVE NoSessionIsForgotten
  <2>1. ASSUME NEW r \in Records, Listed(r) PROVE rec[r].conn \in open
    BY <1>1, <2>1 DEF WInv, IInv, Inv, Holds
  <2>2. ASSUME NEW r \in Records, NEW k, k = rec[r].conn, NEW c, c = owner[k], Listed(r), k \in up \ stale, Idle(c),
               toServer[k] = <<>>, toClient[k] = <<>>
        PROVE  wrapper[c].rec = r /\ wrapper[c].conn = k
    <3>1. Known(k, r)
      BY <1>1, <2>2 DEF WInv, Ways, Chan, Remembered, Ours
    <3>2. Given(k) = {}
      <4>1. k # 0
        BY <1>1, <2>2, ConstantFacts DEF WInv, IInv, TypeOK
      <4> QED BY <2>2, <4>1, OnEmpty, FrameKinds DEF Given, Idle
    <3>3. ~Closes(k, r)
      BY <2>2, OnEmpty DEF Closes
    <3> QED BY <2>2, <3>1, <3>2, <3>3 DEF Known
  <2> QED BY <2>1, <2>2 DEF NoSessionIsForgotten
<1> QED BY <1>1, OnTheWay, PTL
=============================================================================
