----------------------------- MODULE TurnSteering -----------------------------
(***************************************************************************)
(* The Turns of one external Thread in AppServerHost: plain starts, starts  *)
(* through the delegation API, and ExternalTurnSteering, which replaces the *)
(* active Turn by cancelling it, waiting until its end has been projected,  *)
(* and starting a new one.                                                  *)
(*                                                                         *)
(* `active' is both running and activeTurnId, which change together.  The   *)
(* Harness accepts or refuses what it is asked, ends its Turn when it likes,*)
(* may begin one of its own, and publishes what happens in `outputs', which *)
(* #consumeHarnessOutputs projects one event at a time.  An input that may  *)
(* name a Harness command is resolved first, which awaits the catalog.      *)
(*                                                                         *)
(* The input of a message is identified with the message ID, so two calls   *)
(* that reuse one differ, if at all, in the Turn they expect.  Model and    *)
(* permission checks, items, interactions and usage are left out, and so is *)
(* the refusal of a start once the Host is closing or the Thread replaced.  *)
(***************************************************************************)
EXTENDS Naturals, Sequences, FiniteSets, SequencesExt

CONSTANTS
  Steers,         \* turn/steer requests
  Starts,         \* turn/start requests
  Sends,          \* starts through the delegation API
  Messages,       \* clientUserMessageIds
  None,
  Commands,       \* TRUE: an input may have to be resolved as a Harness command
  MaxReceipts,    \* receipts kept once they are settled (128 in the code)
  MaxOthers       \* bound: delegated starts, and Turns the Harness begins by itself

ASSUME SteeringAssumption ==
  /\ Commands \in BOOLEAN /\ {MaxReceipts, MaxOthers} \subseteq Nat
  /\ IsFiniteSet(Steers) /\ IsFiniteSet(Starts) /\ IsFiniteSet(Sends)
  /\ Steers \cap Starts = {} /\ Steers \cap Sends = {} /\ Starts \cap Sends = {}
  /\ "harness" \notin Steers \cup Starts \cup Sends
  /\ None \notin Nat \cup {"ended", "failed"}
  /\ None \notin [steer : Steers, turn : Nat, outcome : {None, "ended", "failed"},
                  rejected : BOOLEAN]

Callers == Steers \cup Starts \cup Sends
Turns == 1..Cardinality(Callers) + MaxOthers   \* a caller starts one at most

VARIABLES
  active,     \* running and activeTurnId
  starter,    \* the Turns begun so far, and who began each: a caller, or "harness"
  native,     \* the Turn the Harness is running
  outputs,    \* events published and not yet projected
  projecting, \* the event at the head has cleared `active' and is not announced yet
  announced,  \* Turns whose end has been written to the Desktop
  stream,     \* FALSE: #consumeHarnessOutputs has ended
  unsaved,    \* persistenceError
  pending,    \* ExternalTurnSteering.#pending of the Thread
  command,    \* #pendingExternalCommandRequests has the Thread
  receipts,   \* #receipts, oldest first
  closed,     \* ExternalTurnSteering.#closed
  pc,         \* where each caller is
  expected,   \* the Turn each steer expects
  message,    \* its message ID, or None
  turnOf      \* the Turn each caller began, or was told of

host == <<active, starter>>
harness == <<native, outputs>>
consumer == <<projecting, announced, stream, unsaved>>
steering == <<pending, receipts, closed>>
callers == <<pc, expected, message, turnOf>>
vars == <<host, harness, consumer, steering, command, callers>>

Goto(c, to) == pc' = [pc EXCEPT ![c] = to]

-----------------------------------------------------------------------------
Init ==
  /\ active = None /\ starter = <<>> /\ native = None /\ outputs = <<>>
  /\ projecting = FALSE /\ announced = {} /\ stream = TRUE /\ unsaved = FALSE
  /\ pending = None /\ command = FALSE /\ receipts = <<>> /\ closed = FALSE
  /\ pc = [c \in Callers |-> "idle"]
  /\ expected = [s \in Steers |-> None] /\ message \in [Steers -> Messages \cup {None}]
  /\ turnOf = [c \in Callers |-> None]

\* #beginExternalTurn and #beginExternalCommand, up to the call of the Session.
Begin(c) ==
  /\ starter' = Append(starter, c)
  /\ active' = Len(starter')
  /\ turnOf' = [turnOf EXCEPT ![c] = active']
  /\ Goto(c, "executing")

Refuse(c) == Goto(c, "failed") /\ UNCHANGED <<host, turnOf>>

\* Resolving an input that may be a command takes the Thread's command flag.
Resolve(c) == Commands /\ command' = TRUE /\ Goto(c, "resolving") /\ UNCHANGED <<host, turnOf>>

\* turn/start.
Start(c) ==
  /\ pc[c] = "idle"
  /\ IF active # None \/ pending # None \/ command
     THEN Refuse(c) /\ UNCHANGED command
     ELSE (Begin(c) /\ UNCHANGED command) \/ Resolve(c)
  /\ UNCHANGED <<harness, consumer, steering, expected, message>>

Others == Cardinality({d \in Sends : pc[d] # "idle"}) + Cardinality({t \in DOMAIN starter : starter[t] = "harness"})

\* #startDelegatedExternalTurn.
Send(c) ==
  /\ pc[c] = "idle" /\ Others < MaxOthers
  /\ IF active # None \/ pending # None THEN Refuse(c) ELSE Begin(c)
  /\ UNCHANGED <<harness, consumer, steering, command, expected, message>>

\* The catalog has been read for a turn/start, or could not be: only `active' is
\* looked at again.
ResumeStart(c) ==
  /\ pc[c] = "resolving" /\ command' = FALSE
  /\ Refuse(c) \/ (active = None /\ Begin(c))
  /\ UNCHANGED <<harness, consumer, steering, expected, message>>

-----------------------------------------------------------------------------
(* ExternalTurnSteering *)

Receipt(m) == {i \in DOMAIN receipts : m # None /\ receipts[i].message = m}

\* A receipt of the same message shares its result, or conflicts with it.
\* Otherwise the expected Turn must be the active one and not be being replaced.
Steer(s, t) ==
  /\ pc[s] = "idle" /\ t \in DOMAIN starter
  /\ expected' = [expected EXCEPT ![s] = t]
  /\ IF closed THEN Goto(s, "failed") /\ UNCHANGED <<pending, receipts>>
     ELSE IF Receipt(message[s]) # {}
     THEN /\ \E i \in Receipt(message[s]) :
               Goto(s, IF receipts[i].turn = t THEN "sharing" ELSE "failed")
          /\ UNCHANGED <<pending, receipts>>
     ELSE IF pending # None \/ active # t
     THEN Goto(s, "failed") /\ UNCHANGED <<pending, receipts>>
     ELSE /\ Goto(s, "cancelling")
          /\ pending' = [steer |-> s, turn |-> t, outcome |-> None, rejected |-> FALSE]
          /\ receipts' = IF message[s] = None THEN receipts
                         ELSE Append(receipts, [message |-> message[s], steer |-> s,
                                                turn |-> t, settled |-> FALSE])
  /\ UNCHANGED <<host, harness, consumer, command, closed, message, turnOf>>

\* Mutant: a repeated delivery waits for the first and is then delivered.
ShareByStarting(s) ==
  /\ pc[s] = "sharing" /\ active = None /\ Begin(s)
  /\ UNCHANGED <<harness, consumer, steering, command, expected, message>>

\* The result of the first delivery is the result of each.
Share(s) ==
  /\ pc[s] = "sharing"
  /\ \E o \in Steers \ {s} :
        /\ message[o] = message[s] /\ expected[o] = expected[s]
        /\ pc[o] \in {"accepted", "done", "failed"}
        /\ turnOf' = [turnOf EXCEPT ![s] = turnOf[o]]
        /\ Goto(s, IF pc[o] = "failed" THEN "failed" ELSE "done")
  /\ UNCHANGED <<host, harness, consumer, steering, command, expected, message>>

Release(s) ==
  pending' = IF pending # None /\ pending.steer = s THEN None ELSE pending

\* The replacement is over: the reservation and, if it failed, the receipt go.
GiveUp(s) ==
  /\ Goto(s, "failed") /\ Release(s)
  /\ receipts' = SelectSeq(receipts, LAMBDA r : r.steer # s)

\* The answer to turn.cancel, which the Harness may give before or after the end.
AnswerCancel(s) ==
  /\ pc[s] = "cancelling" /\ ~pending.rejected
  /\ (Goto(s, "waiting") /\ UNCHANGED <<pending, receipts>>) \/ GiveUp(s)
  /\ UNCHANGED <<host, harness, consumer, command, closed, expected, message, turnOf>>

\* A stop, fault, close or timeout wins over a Turn that has ended meanwhile.
AbandonSteer(s) ==
  /\ pc[s] \in {"cancelling", "waiting"} /\ pending.rejected
  /\ GiveUp(s)
  /\ UNCHANGED <<host, harness, consumer, command, closed, expected, message, turnOf>>

\* Mutant: the answer to turn.cancel is taken for the end of the Turn.
WakeOnAnswer(s) ==
  /\ pc[s] = "waiting" /\ ~pending.rejected
  /\ Begin(s)
  /\ UNCHANGED <<harness, consumer, pending, receipts, command, closed, expected, message>>

\* The old Turn has ended and nothing has gone wrong: the new one begins.
Wake(s) ==
  /\ pc[s] = "waiting" /\ ~pending.rejected /\ pending.outcome # None
  /\ IF pending.outcome = "failed" \/ closed \/ unsaved \/ active # None
     THEN GiveUp(s) /\ UNCHANGED <<host, turnOf, command>>
     ELSE \/ /\ command
             /\ GiveUp(s) /\ UNCHANGED <<host, turnOf, command>>
          \/ /\ ~command
             /\ Begin(s) /\ UNCHANGED <<pending, receipts, command>>
          \/ Resolve(s) /\ UNCHANGED <<pending, receipts>>
  /\ UNCHANGED <<harness, consumer, closed, expected, message>>

\* The catalog has been read for a steer, or could not be: assertActive again, then
\* the start.
ResumeSteer(s) ==
  /\ pc[s] = "resolving" /\ command' = FALSE
  /\ \/ GiveUp(s) /\ UNCHANGED <<host, turnOf>>
     \/ /\ ~pending.rejected /\ ~closed /\ active = None
        /\ Begin(s) /\ UNCHANGED <<pending, receipts>>
  /\ UNCHANGED <<harness, consumer, closed, expected, message>>

RejectPending ==
  IF pending = None THEN UNCHANGED pending
  ELSE pending' = [pending EXCEPT !.rejected = TRUE]

\* Mutant: the timer covers the cancel only.
TimeoutOfCancel(s) ==
  /\ pc[s] = "cancelling" /\ ~pending.rejected /\ RejectPending
  /\ UNCHANGED <<host, harness, consumer, receipts, closed, command, callers>>

\* Twenty seconds have passed; the timer is cleared when the wait is over.
Timeout(s) ==
  /\ pc[s] \in {"cancelling", "waiting"} /\ ~pending.rejected /\ RejectPending
  /\ UNCHANGED <<host, harness, consumer, receipts, closed, command, callers>>

\* turn/interrupt of the Turn being replaced, or session.faulted.  The turn.cancel
\* that a stop also sends leaves the Harness to end its Turn when it likes.
StopOrFault ==
  /\ pending # None /\ RejectPending
  /\ UNCHANGED <<host, harness, consumer, receipts, closed, command, callers>>

Close ==
  /\ ~closed /\ closed' = TRUE
  /\ RejectPending /\ receipts' = <<>>
  /\ UNCHANGED <<host, harness, consumer, command, callers>>

-----------------------------------------------------------------------------
(* The Harness (external) *)

\* While receipts are too many, the oldest settled one is dropped.
Kept(list) ==
  LET settled == {i \in DOMAIN list : list[i].settled}
      excess == {i \in settled : Len(list) - Cardinality({j \in settled : j < i}) > MaxReceipts}
  IN  [i \in 1..Len(list) - Cardinality(excess) |->
         LET kept == SetToSortSeq(DOMAIN list \ excess, LAMBDA a, b : a < b) IN list[kept[i]]]

Settle(s) ==
  /\ Release(s)
  /\ receipts' = Kept([i \in DOMAIN receipts |->
                   IF receipts[i].steer = s THEN [receipts[i] EXCEPT !.settled = TRUE]
                   ELSE receipts[i]])

\* turn.start is accepted by a Harness that is idle.
Accept(c) ==
  /\ pc[c] = "executing" /\ native = None
  /\ native' = turnOf[c]
  /\ Goto(c, "accepted")
  /\ IF c \in Steers THEN Settle(c) ELSE UNCHANGED <<pending, receipts>>
  /\ UNCHANGED <<host, outputs, consumer, closed, command, expected, message, turnOf>>

\* turn.start is refused: the Host takes back what #begin wrote.
Decline(c) ==
  /\ pc[c] = "executing"
  /\ active' = None
  /\ IF c \in Steers THEN GiveUp(c) ELSE Goto(c, "failed") /\ UNCHANGED <<pending, receipts>>
  /\ turnOf' = [turnOf EXCEPT ![c] = None]
  /\ UNCHANGED <<starter, harness, consumer, closed, command, expected, message>>

\* The response names the new Turn; the events of the Turn wait for it.
Respond(c) ==
  /\ pc[c] = "accepted" /\ Goto(c, "done")
  /\ UNCHANGED <<host, harness, consumer, steering, command, expected, message, turnOf>>

EndNative ==
  /\ native # None /\ native' = None
  /\ \E outcome \in {"ended", "failed"} :
        outputs' = Append(outputs, [turn |-> native, outcome |-> outcome])
  /\ UNCHANGED <<host, consumer, steering, command, callers>>

BeginAutonomous ==
  /\ native = None
  /\ Others < MaxOthers
  /\ starter' = Append(starter, "harness") /\ native' = Len(starter')
  /\ outputs' = Append(outputs, [turn |-> native', outcome |-> "begun"])
  /\ UNCHANGED <<active, consumer, steering, command, callers>>

-----------------------------------------------------------------------------
(* #consumeHarnessOutputs and #projectHarnessOutput *)

\* The events of a Turn wait for the response that names it.
Answered(t) == starter[t] \in Starts \cup Steers => pc[starter[t]] = "done"

\* Mutant: the waiter is told before the Desktop is.
ProjectEndEagerly ==
  LET event == Head(outputs)
  IN  /\ stream /\ ~projecting /\ outputs # <<>> /\ event.outcome # "begun"
      /\ Answered(event.turn)
      /\ projecting' = TRUE /\ active' = None
      /\ IF pending = None \/ pending.turn # event.turn THEN UNCHANGED pending
         ELSE pending' = [pending EXCEPT !.outcome = event.outcome]
      /\ UNCHANGED <<starter, native, outputs, announced, stream, unsaved, receipts, closed,
                     command, callers>>

\* The end of a Turn waits for its response gate, its identity is persisted, and
\* the Thread is idle.
ProjectEnd ==
  LET event == Head(outputs)
  IN  /\ stream /\ ~projecting /\ outputs # <<>> /\ event.outcome # "begun"
      /\ Answered(event.turn)
      /\ projecting' = TRUE /\ active' = None
      /\ \/ UNCHANGED <<unsaved, outputs>>
         \/ unsaved' = TRUE /\ outputs' = [outputs EXCEPT ![1].outcome = "failed"]
      /\ UNCHANGED <<starter, native, announced, stream, steering, command, callers>>

\* The end is written to the Desktop, then a replacement that waits for it is told.
Announce ==
  LET event == Head(outputs)
  IN  /\ stream /\ projecting /\ projecting' = FALSE
      /\ announced' = announced \cup {event.turn}
      /\ outputs' = Tail(outputs)
      /\ IF pending = None \/ pending.turn # event.turn \/ pending.outcome # None
         THEN UNCHANGED pending
         ELSE pending' = [pending EXCEPT !.outcome = event.outcome]
      /\ UNCHANGED <<host, native, stream, unsaved, receipts, closed, command, callers>>

\* Mutant: it becomes active in any case.
ProjectBeginAnyway ==
  LET event == Head(outputs)
  IN  /\ stream /\ ~projecting /\ outputs # <<>> /\ event.outcome = "begun"
      /\ outputs' = Tail(outputs) /\ active' = event.turn
      /\ UNCHANGED <<starter, native, projecting, announced, stream, unsaved, steering, command,
                     callers>>

\* A Turn the Harness began by itself becomes active; if another one is, the
\* consumer throws and no output of the Session is read any more.
ProjectBegin ==
  LET event == Head(outputs)
  IN  /\ stream /\ ~projecting /\ outputs # <<>> /\ event.outcome = "begun"
      /\ outputs' = Tail(outputs)
      /\ IF active = None
         THEN active' = event.turn /\ UNCHANGED <<stream, pending>>
         ELSE stream' = FALSE /\ RejectPending /\ UNCHANGED active
      /\ UNCHANGED <<starter, native, projecting, announced, unsaved, receipts, closed, command,
                     callers>>

\* The outputs end, or one of them cannot be projected.
EndStream ==
  /\ stream /\ stream' = FALSE /\ RejectPending
  /\ UNCHANGED <<host, harness, projecting, announced, unsaved, receipts, closed, command,
                 callers>>

-----------------------------------------------------------------------------
SteerStep(s) ==
  \/ \E t \in Turns : Steer(s, t)
  \/ Share(s) \/ AnswerCancel(s) \/ AbandonSteer(s) \/ Wake(s) \/ ResumeSteer(s) \/ Timeout(s)

Next ==
  \/ \E c \in Starts : Start(c) \/ ResumeStart(c)
  \/ \E c \in Sends : Send(c)
  \/ \E s \in Steers : SteerStep(s)
  \/ \E c \in Callers : Accept(c) \/ Decline(c) \/ Respond(c)
  \/ StopOrFault \/ Close
  \/ EndNative \/ BeginAutonomous
  \/ ProjectEnd \/ Announce \/ ProjectBegin \/ EndStream

Spec == Init /\ [][Next]_vars

\* Continuations run, the timer fires, a Session answers turn.start and reads its
\* command catalog.  Nothing obliges it to answer turn.cancel or to end a Turn.
Fairness ==
  /\ \A s \in Steers :
        /\ WF_vars(Share(s)) /\ WF_vars(AbandonSteer(s)) /\ WF_vars(Wake(s))
        /\ WF_vars(ResumeSteer(s)) /\ WF_vars(Timeout(s))
        /\ WF_vars(Accept(s) \/ Decline(s)) /\ WF_vars(Respond(s))

FairSpec == Spec /\ Fairness

-----------------------------------------------------------------------------
Event == [turn : Turns, outcome : {"begun", "ended", "failed"}]
PendingSteer == [steer : Steers, turn : Turns, outcome : {None, "ended", "failed"},
                 rejected : BOOLEAN]

TypeOK ==
  /\ active \in Turns \cup {None} /\ native \in Turns \cup {None}
  /\ starter \in Seq(Callers \cup {"harness"}) /\ Len(starter) <= Cardinality(Turns)
  /\ outputs \in Seq(Event) /\ announced \subseteq Turns
  /\ {projecting, stream, unsaved, command, closed} \subseteq BOOLEAN
  /\ pending \in PendingSteer \cup {None}
  /\ receipts \in Seq([message : Messages, steer : Steers, turn : Turns, settled : BOOLEAN])
  /\ turnOf \in [Callers -> Turns \cup {None}]
  /\ \A s \in Steers : pc[s] \in {"cancelling", "waiting", "resolving", "executing"}
                         <=> pending # None /\ pending.steer = s

\* However deliveries are repeated and receipts are dropped, a Turn is replaced by
\* at most one new Turn: steering.md, identical requests are merged.
ReplacedOnce ==
  \A r, s \in Steers :
     turnOf[r] # None /\ turnOf[s] # None /\ expected[r] = expected[s] => turnOf[r] = turnOf[s]

\* A Session is never asked to start a Turn while one it was asked to start is
\* still running in the Harness.
NoOverlappingTurns ==
  \A c \in Callers :
     pc[c] = "executing" /\ native # None => starter[native] = "harness"

EndDue(t) == \E i \in DOMAIN outputs : outputs[i].turn = t /\ outputs[i].outcome # "begun"
BeginDue(t) == \E i \in DOMAIN outputs : outputs[i].turn = t /\ outputs[i].outcome = "begun"

\* As long as the outputs are read, Host and Harness agree on what runs, although the
\* projection of an end clears whatever Turn is active: the active Turn is being started,
\* runs, or has an end yet to be read, so that the Thread does not stay busy; and the Turn
\* of the Harness is active, or its begin is yet to be read.
ActiveMatchesHarness ==
  stream =>
    /\ active # None =>
         \/ active = native \/ EndDue(active)
         \/ starter[active] \in Callers /\ pc[starter[active]] = "executing"
    /\ native # None => active = native \/ BeginDue(native)

\* A replacement begins only after the end of the Turn it replaces was announced, and
\* never once a stop, a fault, a timeout or a close has been noted.
ReplacementFollowsEnd ==
  [][\A s \in Steers :
       pc[s] # "executing" /\ pc'[s] = "executing" =>
         expected[s] \in announced /\ ~pending.rejected /\ ~closed /\ stream]_vars

\* While a Turn is being replaced, no other caller begins one: steering.md, "other
\* starts of the Thread, Harness commands and delegated starts cannot preempt".
ReplacementNotPreempted ==
  [][\A c \in Starts \cup Sends :
       pc[c] # "executing" /\ pc'[c] = "executing" => pending = None]_vars

\* Every steering request is answered, whatever the Harness does with the cancel.
SteerSettles == \A s \in Steers : pc[s] # "idle" ~> pc[s] \in {"done", "failed"}
=============================================================================
