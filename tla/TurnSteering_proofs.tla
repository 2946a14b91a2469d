-------------------------- MODULE TurnSteering_proofs --------------------------
(***************************************************************************)
(* What the Host keeps about the Turns of a Thread, for any requests and    *)
(* messages: a Turn is replaced once, after its end was announced, no Turn  *)
(* is started over another, and Host and Harness agree on which Turn runs.  *)
(* The receipts play no part in any of it: dropping one never lets a Turn   *)
(* be replaced twice.                                                       *)
(***************************************************************************)
EXTENDS TurnSteering, SequenceTheorems, TLAPS

States == {"idle", "sharing", "cancelling", "waiting", "resolving", "executing",
           "accepted", "done", "failed"}
Replacing == {"cancelling", "waiting", "resolving", "executing"}
Outcomes == {"begun", "ended", "failed"}
Waiter == [steer : Steers, turn : Nat, outcome : {None, "ended", "failed"},
           rejected : BOOLEAN]

Typed ==
  /\ starter \in Seq(Callers \cup {"harness"})
  /\ active \in DOMAIN starter \cup {None} /\ native \in DOMAIN starter \cup {None}
  /\ outputs \in Seq([turn : Nat, outcome : Outcomes])
  /\ announced \subseteq DOMAIN starter
  /\ pending \in Waiter \cup {None}
  /\ pc \in [Callers -> States] /\ turnOf \in [Callers -> Nat \cup {None}]
  /\ expected \in [Steers -> Nat \cup {None}]

-----------------------------------------------------------------------------
(* The Turns *)

\* The Harness has accepted t, or began it by itself.
Taken(t) == starter[t] # "harness" => pc[starter[t]] \in {"accepted", "done"}

\* A caller that waits for turn.start holds the active Turn, which it began.
Executing ==
  \A c \in Callers : pc[c] = "executing" =>
    turnOf[c] \in DOMAIN starter /\ active = turnOf[c] /\ starter[turnOf[c]] = c

\* The Turn of the Harness has published no end.  One the Host asked for is active;
\* any other is active or will be, unless its outputs are read no more.
NativeRuns ==
  native # None =>
    /\ Taken(native) /\ native \notin announced
    /\ \A i \in DOMAIN outputs : outputs[i].turn = native => outputs[i].outcome = "begun"
    /\ starter[native] # "harness" => active = native
    /\ stream => active = native \/ \E i \in DOMAIN outputs : outputs[i].turn = native

\* Nothing is published of a Turn that was not accepted, or whose end was announced.
Published ==
  \A i \in DOMAIN outputs :
    /\ outputs[i].turn \in DOMAIN starter /\ outputs[i].turn \notin announced
    /\ Taken(outputs[i].turn)

\* A Turn has one begin and one end, in that order.
Ordered ==
  \A i, j \in DOMAIN outputs : i < j /\ outputs[i].turn = outputs[j].turn =>
    outputs[i].outcome = "begun" /\ outputs[j].outcome # "begun"

\* An end not yet projected is that of the active Turn, or follows its begin.
EndsAreDue ==
  stream => \A i \in DOMAIN outputs :
    outputs[i].outcome # "begun" /\ ~(projecting /\ i = 1) =>
      \/ active = outputs[i].turn
      \/ \E j \in DOMAIN outputs : j < i /\ outputs[j].turn = outputs[i].turn

\* What is being projected is an end, whose Turn is answered and no longer active.
ProjectsAnEnd ==
  projecting =>
    /\ outputs # <<>> /\ outputs[1].outcome # "begun" /\ Answered(outputs[1].turn)
    /\ active # outputs[1].turn

ActiveIsOpen == active \notin announced

\* The active Turn is being started, runs or has an end to be read; so has a Turn whose
\* begin is to be read.
ActiveRuns ==
  /\ stream /\ active # None =>
       \/ active = native \/ EndDue(active)
       \/ starter[active] \in Callers /\ pc[starter[active]] = "executing"
  /\ \A i \in DOMAIN outputs :
       outputs[i].outcome = "begun" => native = outputs[i].turn \/ EndDue(outputs[i].turn)

TurnsInOrder ==
  /\ Executing /\ NativeRuns /\ Published /\ Ordered /\ EndsAreDue /\ ProjectsAnEnd
  /\ ActiveIsOpen /\ ActiveRuns

-----------------------------------------------------------------------------
(* The replacements *)

\* The reservation of the Thread belongs to the one steer that replaces its Turn.
Holder == \A s \in Steers : pc[s] \in Replacing <=> pending # None /\ pending.steer = s

\* An end the waiter was told of was announced, and the outputs are still read unless
\* it is rejected; no steer has a new Turn for the one that is being replaced.
Reserved ==
  pending # None =>
    /\ pending.turn = expected[pending.steer]
    /\ pending.outcome # None => pending.turn \in announced /\ (pending.rejected \/ stream)
    /\ pc[pending.steer] \in {"resolving", "executing"} => pending.outcome # None
    /\ pc[pending.steer] # "executing" =>
         \A r \in Steers : turnOf[r] # None => expected[r] # pending.turn

\* A steer that has a Turn is answered with it, and the Turn it expected has ended.
Replaced ==
  \A r \in Steers : turnOf[r] # None =>
    expected[r] \in announced /\ pc[r] \in {"executing", "accepted", "done"}

ReplacedInTurn == Holder /\ Reserved /\ Replaced /\ ReplacedOnce

IInv == Typed /\ TurnsInOrder /\ ReplacedInTurn

-----------------------------------------------------------------------------
(* What leaves the Turns alone, and what leaves the replacements alone. *)

\* A step of the callers that begins nothing and takes no acceptance back.
LEMMA TurnsKept ==
  ASSUME Typed, TurnsInOrder, UNCHANGED <<host, harness, projecting, announced>>,
         stream' => stream,
         \A c \in Callers : pc'[c] = "executing" => pc[c] = "executing" /\ turnOf'[c] = turnOf[c],
         \A c \in Callers : pc[c] = "executing" => pc'[c] = "executing",
         \A c \in Callers : /\ pc[c] = "accepted" => pc'[c] \in {"accepted", "done"}
                            /\ pc[c] = "done" => pc'[c] = "done"
  PROVE  TurnsInOrder'
<1> USE DEF Typed, TurnsInOrder, host, harness
<1>1. Executing'
  BY DEF Executing
<1>2. \A t \in DOMAIN starter : /\ starter[t] \in Callers \cup {"harness"}
                                /\ Taken(t) => Taken(t)'
                                /\ Answered(t) => Answered(t)'
  BY DEF Taken, Answered, Callers
<1>3. NativeRuns'
  BY <1>2 DEF NativeRuns
<1>4. Published'
  BY <1>2 DEF Published
<1>5. Ordered' /\ EndsAreDue' /\ ActiveIsOpen'
  BY DEF Ordered, EndsAreDue, ActiveIsOpen
<1>6. ProjectsAnEnd'
  <2> SUFFICES ASSUME projecting PROVE ProjectsAnEnd'
    BY DEF ProjectsAnEnd
  <2>1. 1 \in DOMAIN outputs
    BY DEF ProjectsAnEnd
  <2>2. Answered(outputs[1].turn)'
    BY <2>1, <1>2 DEF ProjectsAnEnd, Published
  <2> QED
    BY <2>2 DEF ProjectsAnEnd
<1>7. ActiveRuns'
  BY DEF ActiveRuns, EndDue
<1> QED
  BY <1>1, <1>3, <1>4, <1>5, <1>6, <1>7

\* A step of the others, which may announce an end.
LEMMA ReplacementsKept ==
  ASSUME Typed, ReplacedInTurn, UNCHANGED <<pending, expected>>, announced \subseteq announced',
         stream => stream',
         \A s \in Steers : turnOf'[s] = turnOf[s] /\ (pc'[s] # pc[s] => pc[s] = "accepted" /\ pc'[s] = "done")
  PROVE  ReplacedInTurn'
<1> USE DEF ReplacedInTurn
<1>1. Holder'
  BY DEF Holder, Replacing
<1>2. Replaced'
  BY DEF Replaced
<1>3. ReplacedOnce'
  BY DEF ReplacedOnce
<1>4. Reserved'
  <2>1. pending # None => pending.steer \in Steers
    BY DEF Typed, Waiter
  <2> QED
    BY <2>1 DEF Reserved
<1> QED
  BY <1>1, <1>2, <1>3, <1>4

\* What was accepted stays so, and what was answered stays answered.
LEMMA StaysTaken ==
  ASSUME Typed, \A t \in DOMAIN starter : starter'[t] = starter[t],
         \A c \in Callers : pc[c] \in {"accepted", "done"} => pc'[c] = pc[c]
  PROVE  \A t \in DOMAIN starter : (Taken(t) => Taken(t)') /\ (Answered(t) => Answered(t)')
<1> SUFFICES ASSUME NEW t \in DOMAIN starter
             PROVE  (Taken(t) => Taken(t)') /\ (Answered(t) => Answered(t)')
  OBVIOUS
<1>1. starter'[t] = starter[t] /\ starter[t] \in Callers \cup {"harness"}
  BY DEF Typed
<1>2. starter[t] \in Callers /\ pc[starter[t]] \in {"accepted", "done"}
        => pc'[starter[t]] = pc[starter[t]]
  OBVIOUS
<1>3. Starts \cup Steers \subseteq Callers
  BY DEF Callers
<1> QED
  BY <1>1, <1>2, <1>3 DEF Taken, Answered

\* A caller begins a Turn of the idle Thread: it is a new one.
LEMMA NewTurn ==
  ASSUME Typed, NEW c \in Callers \cup {"harness"}, starter' = Append(starter, c)
  PROVE  /\ starter' \in Seq(Callers \cup {"harness"}) /\ DOMAIN starter \subseteq DOMAIN starter'
         /\ Len(starter') \in DOMAIN starter' /\ Len(starter') \notin DOMAIN starter
         /\ Len(starter') \in Nat /\ starter'[Len(starter')] = c
         /\ \A t \in DOMAIN starter : starter'[t] = starter[t]
         /\ None \notin DOMAIN starter'
BY SteeringAssumption DEF Typed

LEMMA BeginTyped ==
  ASSUME Typed, NEW c \in Callers, Begin(c),
         UNCHANGED <<harness, announced, expected>>, pending' \in Waiter \cup {None}
  PROVE  Typed'
<1>1. starter' = Append(starter, c) /\ c \in Callers \cup {"harness"}
  BY DEF Begin
<1>2. active' = Len(starter') /\ turnOf' = [turnOf EXCEPT ![c] = active']
      /\ pc' = [pc EXCEPT ![c] = "executing"]
  BY DEF Begin, Goto
<1>3. Len(starter') \in Nat
  BY <1>1, NewTurn
<1>4. turnOf' \in [Callers -> Nat \cup {None}] /\ pc' \in [Callers -> States]
  BY <1>2, <1>3 DEF Typed, States
<1> QED
  BY <1>1, <1>2, <1>4, NewTurn DEF Typed, harness

LEMMA BeginInOrder ==
  ASSUME Typed, TurnsInOrder, NEW c \in Callers, pc[c] \notin {"executing", "accepted", "done"},
         active = None, Begin(c), UNCHANGED <<harness, projecting, announced, stream>>
  PROVE  TurnsInOrder'
<1> USE DEF TurnsInOrder, harness
<1>1. starter' = Append(starter, c) /\ c \in Callers \cup {"harness"}
  BY DEF Begin
<1>2. active' = Len(starter') /\ turnOf'[c] = active' /\ pc'[c] = "executing"
      /\ \A d \in Callers \ {c} : pc'[d] = pc[d] /\ turnOf'[d] = turnOf[d]
  BY DEF Begin, Goto, Typed
<1> DEFINE n == Len(starter')
<1>3. /\ n \in DOMAIN starter' /\ n \notin DOMAIN starter /\ starter'[n] = c
      /\ DOMAIN starter \subseteq DOMAIN starter'
      /\ \A t \in DOMAIN starter : starter'[t] = starter[t]
      /\ None \notin DOMAIN starter'
  BY <1>1, NewTurn
<1>4. active' = n
  BY <1>2
<1> HIDE DEF n
<1>5. \A t \in DOMAIN starter : (Taken(t) => Taken(t)') /\ (Answered(t) => Answered(t)')
  BY <1>2, <1>3, StaysTaken
<1>6. Executing'
  <2>1. \A d \in Callers \ {c} : pc[d] # "executing"
    BY <1>3 DEF Executing
  <2> QED
    BY <2>1, <1>2, <1>3, <1>4 DEF Executing
<1>7. native # None => native \in DOMAIN starter /\ starter[native] = "harness"
  BY DEF NativeRuns, Typed
<1>8. NativeRuns'
  BY <1>3, <1>5, <1>7 DEF NativeRuns
<1>9. Published'
  BY <1>3, <1>5 DEF Published
<1>10. Ordered'
  BY DEF Ordered
<1>11. EndsAreDue'
  <2> SUFFICES ASSUME stream, NEW i \in DOMAIN outputs, outputs[i].outcome # "begun",
                      ~(projecting /\ i = 1)
               PROVE  \E j \in DOMAIN outputs : j < i /\ outputs[j].turn = outputs[i].turn
    BY DEF EndsAreDue
  <2> QED
    BY <1>3 DEF EndsAreDue, Published
<1>12. ProjectsAnEnd'
  <2> SUFFICES ASSUME projecting PROVE ProjectsAnEnd'
    BY DEF ProjectsAnEnd
  <2>1. 1 \in DOMAIN outputs
    BY DEF ProjectsAnEnd, Typed
  <2>2. Answered(outputs[1].turn)' /\ outputs[1].turn \in DOMAIN starter
    BY <2>1, <1>5 DEF ProjectsAnEnd, Published
  <2> QED
    BY <2>2, <1>3, <1>4 DEF ProjectsAnEnd
<1>13. ActiveIsOpen'
  BY <1>3, <1>4 DEF ActiveIsOpen, Typed
<1>14. ActiveRuns'
  <2>1. \A t : EndDue(t)' <=> EndDue(t)
    BY DEF EndDue
  <2> QED
    BY <1>2, <1>3, <1>4, <2>1 DEF ActiveRuns
<1> QED
  BY <1>6, <1>8, <1>9, <1>10, <1>11, <1>12, <1>13, <1>14

\* The steer that holds the reservation gives it up.
LEMMA GivenUp ==
  ASSUME Typed, ReplacedInTurn, NEW s \in Steers, pc[s] \in Replacing,
         UNCHANGED <<announced, expected, stream>>, GiveUp(s),
         \/ turnOf' = turnOf /\ pc[s] # "executing"
         \/ turnOf' = [turnOf EXCEPT ![s] = None]
  PROVE  /\ pc' = [pc EXCEPT ![s] = "failed"] /\ pending' = None
         /\ turnOf' \in [Callers -> Nat \cup {None}]
         /\ ReplacedInTurn'
<1> USE DEF ReplacedInTurn
<1>1. pc' = [pc EXCEPT ![s] = "failed"] /\ pending' = None
  BY DEF GiveUp, Goto, Release, Holder
<1>2. s \in Callers /\ \A r \in Steers : r \in Callers
  BY DEF Callers
<1>3. turnOf' \in [Callers -> Nat \cup {None}]
  BY <1>2 DEF Typed
<1>4. \A r \in Steers \ {s} : turnOf'[r] = turnOf[r] /\ pc'[r] = pc[r]
  BY <1>1, <1>2 DEF Typed
<1>5. turnOf'[s] = None /\ pc'[s] = "failed"
  BY <1>1, <1>2 DEF Typed, Replaced, Replacing
<1>6. Holder'
  BY <1>1, <1>4, <1>5 DEF Holder, Replacing
<1>7. Reserved'
  BY <1>1 DEF Reserved
<1>8. Replaced' /\ ReplacedOnce'
  BY <1>4, <1>5 DEF Replaced, ReplacedOnce
<1> QED
  BY <1>1, <1>3, <1>6, <1>7, <1>8

\* A stop, a fault, a timeout, a close or the end of the outputs rejects the replacement.
LEMMA Rejected ==
  ASSUME Typed, ReplacedInTurn, RejectPending, UNCHANGED <<announced, expected, pc, turnOf>>
  PROVE  pending' \in Waiter \cup {None} /\ ReplacedInTurn'
<1> USE DEF ReplacedInTurn
<1>1. CASE pending = None
  BY <1>1 DEF RejectPending, Holder, Reserved, Replaced, ReplacedOnce
<1>2. CASE pending # None
  <2>1. pending \in Waiter /\ pending' = [pending EXCEPT !.rejected = TRUE]
    BY <1>2 DEF Typed, RejectPending
  <2>2. /\ pending' \in Waiter /\ pending'.rejected
        /\ pending'.steer = pending.steer /\ pending'.turn = pending.turn
        /\ pending'.outcome = pending.outcome /\ pending.steer \in Steers
    BY <2>1 DEF Waiter
  <2>3. pending' # None
    BY <2>2, SteeringAssumption DEF Waiter
  <2>4. Holder'
    BY <1>2, <2>2, <2>3 DEF Holder
  <2>5. Reserved'
    BY <1>2, <2>2 DEF Reserved
  <2>6. Replaced' /\ ReplacedOnce'
    BY DEF Replaced, ReplacedOnce
  <2> QED
    BY <2>2, <2>4, <2>5, <2>6
<1> QED
  BY <1>1, <1>2

\* The waiter goes on.
LEMMA WaiterMoves ==
  ASSUME Typed, ReplacedInTurn, NEW s \in Steers, pc[s] \in Replacing \ {"executing"},
         NEW to \in {"waiting", "resolving"}, to = "resolving" => pending.outcome # None,
         Goto(s, to), UNCHANGED <<pending, turnOf, expected, announced, stream>>
  PROVE  pc' \in [Callers -> States] /\ ReplacedInTurn'
<1> USE DEF ReplacedInTurn
<1>1. s \in Callers /\ \A r \in Steers : r \in Callers
  BY DEF Callers
<1>2. pc' = [pc EXCEPT ![s] = to] /\ pc' \in [Callers -> States]
  BY <1>1 DEF Goto, Typed, States
<1>3. pc'[s] = to /\ \A r \in Steers \ {s} : pc'[r] = pc[r]
  BY <1>1, <1>2 DEF Typed
<1>4. pending # None /\ pending.steer = s
  BY DEF Holder
<1>5. Holder'
  BY <1>3, <1>4 DEF Holder, Replacing
<1>6. Reserved'
  BY <1>3, <1>4 DEF Reserved
<1>7. Replaced' /\ ReplacedOnce'
  BY <1>3 DEF Replaced, ReplacedOnce, Replacing
<1> QED
  BY <1>2, <1>5, <1>6, <1>7

\* A steer that was told of the end of the Turn it replaces begins the new one.
LEMMA SteerBegins ==
  ASSUME Typed, ReplacedInTurn, NEW s \in Steers, pc[s] \in {"waiting", "resolving"},
         pending.outcome # None, Begin(s), UNCHANGED <<pending, expected, announced, stream>>
  PROVE  ReplacedInTurn' /\ expected[s] \in announced /\ (pending.rejected \/ stream)
<1> USE DEF ReplacedInTurn
<1>1. s \in Callers /\ \A r \in Steers : r \in Callers
  BY DEF Callers
<1>2. pc'[s] = "executing" /\ \A r \in Steers \ {s} : pc'[r] = pc[r] /\ turnOf'[r] = turnOf[r]
  BY <1>1 DEF Begin, Goto, Typed
<1>3. pending # None /\ pending.steer = s
  BY DEF Holder, Replacing
<1>4. /\ pending.turn = expected[s] /\ pending.turn \in announced /\ (pending.rejected \/ stream)
      /\ \A r \in Steers : turnOf[r] # None => expected[r] # expected[s]
  BY <1>3 DEF Reserved
<1>5. Holder'
  BY <1>2, <1>3 DEF Holder, Replacing
<1>6. Reserved'
  BY <1>2, <1>3, <1>4 DEF Reserved
<1>7. Replaced'
  BY <1>2, <1>4 DEF Replaced
<1>8. ReplacedOnce'
  BY <1>2, <1>4 DEF ReplacedOnce
<1> QED
  BY <1>4, <1>5, <1>6, <1>7, <1>8

-----------------------------------------------------------------------------
(* The requests *)

\* The step of a caller that begins no Turn keeps the types.
LEMMA CallersTyped ==
  ASSUME Typed, UNCHANGED <<host, harness, announced>>, pending' \in Waiter \cup {None},
         pc' \in [Callers -> States], turnOf' \in [Callers -> Nat \cup {None}],
         expected' \in [Steers -> Nat \cup {None}]
  PROVE  Typed'
BY DEF Typed, host, harness

\* A caller that is no steer is refused, or resolves its input.
LEMMA Aside ==
  ASSUME IInv, NEW c \in Starts \cup Sends, pc[c] \in {"idle", "resolving"},
         NEW to \in {"failed", "resolving"}, Goto(c, to),
         UNCHANGED <<host, harness, consumer, steering, expected, turnOf>>
  PROVE  IInv'
<1> USE DEF IInv
<1>1. c \in Callers /\ c \notin Steers
  BY SteeringAssumption DEF Callers
<1>2. pc' = [pc EXCEPT ![c] = to] /\ pc' \in [Callers -> States]
  BY <1>1 DEF Goto, Typed, States
<1>3. pc'[c] = to /\ \A d \in Callers \ {c} : pc'[d] = pc[d]
  BY <1>1, <1>2 DEF Typed
<1>4. Typed'
  BY <1>2, CallersTyped DEF Typed, consumer, steering
<1>5. TurnsInOrder'
  BY <1>3, TurnsKept DEF consumer
<1>6. ReplacedInTurn'
  BY <1>1, <1>3, ReplacementsKept DEF consumer, steering, Callers
<1> QED
  BY <1>4, <1>5, <1>6

\* A caller that is no steer begins a Turn.
LEMMA BegunAside ==
  ASSUME IInv, NEW c \in Starts \cup Sends, pc[c] \in {"idle", "resolving"}, active = None,
         Begin(c), UNCHANGED <<harness, consumer, steering, expected>>
  PROVE  IInv'
<1> USE DEF IInv
<1>1. c \in Callers /\ c \notin Steers
  BY SteeringAssumption DEF Callers
<1>2. \A s \in Steers : pc'[s] = pc[s] /\ turnOf'[s] = turnOf[s]
  BY <1>1 DEF Begin, Goto, Typed, Callers
<1>3. Typed'
  BY <1>1, BeginTyped DEF Typed, consumer, steering
<1>4. TurnsInOrder'
  BY <1>1, BeginInOrder DEF consumer
<1>5. ReplacedInTurn'
  BY <1>2, ReplacementsKept DEF consumer, steering
<1> QED
  BY <1>3, <1>4, <1>5

LEMMA StartKeeps ==
  ASSUME IInv, NEW c \in Starts, Start(c)
  PROVE  IInv'
<1>1. pc[c] = "idle" /\ UNCHANGED <<harness, consumer, steering, expected>>
  BY DEF Start
<1>2. CASE active # None \/ pending # None \/ command
  BY <1>1, <1>2, Aside DEF Start, Refuse
<1>3. CASE ~(active # None \/ pending # None \/ command)
  <2>1. CASE Begin(c)
    BY <1>1, <1>3, <2>1, BegunAside
  <2>2. CASE Resolve(c)
    BY <1>1, <2>2, Aside DEF Resolve
  <2> QED
    BY <1>3, <2>1, <2>2 DEF Start
<1> QED
  BY <1>2, <1>3

LEMMA ResumeStartKeeps ==
  ASSUME IInv, NEW c \in Starts, ResumeStart(c)
  PROVE  IInv'
<1>1. pc[c] = "resolving" /\ UNCHANGED <<harness, consumer, steering, expected>>
  BY DEF ResumeStart
<1>2. CASE Refuse(c)
  BY <1>1, <1>2, Aside DEF Refuse
<1>3. CASE active = None /\ Begin(c)
  BY <1>1, <1>3, BegunAside
<1> QED
  BY <1>2, <1>3 DEF ResumeStart

LEMMA SendKeeps ==
  ASSUME IInv, NEW c \in Sends, Send(c)
  PROVE  IInv'
<1>1. pc[c] = "idle" /\ UNCHANGED <<harness, consumer, steering, expected>>
  BY DEF Send
<1>2. CASE Refuse(c)
  BY <1>1, <1>2, Aside DEF Refuse
<1>3. CASE ~(active # None \/ pending # None) /\ Begin(c)
  BY <1>1, <1>3, BegunAside
<1> QED
  BY <1>2, <1>3 DEF Send

LEMMA SteerKeeps ==
  ASSUME IInv, NEW s \in Steers, NEW t, Steer(s, t)
  PROVE  IInv'
<1> USE DEF IInv
<1>1. /\ pc[s] = "idle" /\ t \in DOMAIN starter /\ expected' = [expected EXCEPT ![s] = t]
      /\ UNCHANGED <<host, harness, consumer, turnOf>>
  BY DEF Steer
<1>2. s \in Callers /\ \A r \in Steers : r \in Callers
  BY DEF Callers
<1>3. t \in Nat /\ t # None
  BY <1>1, SteeringAssumption DEF Typed
<1>4. \/ /\ pending' = pending /\ pc' \in {[pc EXCEPT ![s] = "failed"], [pc EXCEPT ![s] = "sharing"]}
      \/ /\ pending = None /\ active = t /\ pc' = [pc EXCEPT ![s] = "cancelling"]
         /\ pending' = [steer |-> s, turn |-> t, outcome |-> None, rejected |-> FALSE]
  <2>1. CASE closed
    BY <2>1 DEF Steer, Goto
  <2>2. CASE ~closed /\ Receipt(message[s]) # {}
    <3>1. PICK i \in Receipt(message[s]) :
            Goto(s, IF receipts[i].turn = t THEN "sharing" ELSE "failed")
      BY <2>2 DEF Steer
    <3>2. pending' = pending
      BY <2>2 DEF Steer
    <3> QED
      BY <3>1, <3>2 DEF Goto
  <2>3. CASE ~closed /\ Receipt(message[s]) = {} /\ (pending # None \/ active # t)
    BY <2>3 DEF Steer, Goto
  <2>4. CASE ~closed /\ Receipt(message[s]) = {} /\ ~(pending # None \/ active # t)
    BY <2>4 DEF Steer, Goto
  <2> QED
    BY <2>1, <2>2, <2>3, <2>4
<1>5. /\ pc' \in [Callers -> States] /\ pc'[s] \in {"failed", "sharing", "cancelling"}
      /\ \A c \in Callers \ {s} : pc'[c] = pc[c]
      /\ pc'[s] = "cancelling" <=> pending' # pending
  <2> DEFINE r == [steer |-> s, turn |-> t, outcome |-> None, rejected |-> FALSE]
  <2>1. r # None
    <3>1. r \in Waiter
      BY <1>3 DEF Waiter
    <3> QED
      BY <3>1, SteeringAssumption DEF Waiter
  <2> HIDE DEF r
  <2>2. \A v \in {"failed", "sharing", "cancelling"} :
          LET p == [pc EXCEPT ![s] = v]
          IN  p \in [Callers -> States] /\ p[s] = v /\ \A c \in Callers \ {s} : p[c] = pc[c]
    BY <1>2 DEF Typed, States
  <2>3. CASE pending' = pending /\ pc' \in {[pc EXCEPT ![s] = "failed"], [pc EXCEPT ![s] = "sharing"]}
    BY <2>2, <2>3
  <2>4. CASE pending = None /\ pc' = [pc EXCEPT ![s] = "cancelling"] /\ pending' = r
    BY <2>1, <2>2, <2>4
  <2> QED
    BY <1>4, <2>3, <2>4 DEF r
<1>6. pending' \in Waiter \cup {None}
  <2>1. [steer |-> s, turn |-> t, outcome |-> None, rejected |-> FALSE] \in Waiter
    BY <1>3 DEF Waiter
  <2>2. pending' = pending \/ pending' \in Waiter
    BY <1>4, <2>1
  <2> QED
    BY <2>2 DEF Typed
<1>7. expected' \in [Steers -> Nat \cup {None}] /\ expected'[s] = t
      /\ \A r \in Steers \ {s} : expected'[r] = expected[r]
  BY <1>1, <1>3 DEF Typed
<1>8. turnOf[s] = None
  BY <1>1 DEF ReplacedInTurn, Replaced
<1>9. Typed'
  BY <1>1, <1>5, <1>6, <1>7, CallersTyped DEF Typed, consumer
<1>10. TurnsInOrder'
  BY <1>1, <1>5, TurnsKept DEF consumer
<1>11. Replaced' /\ ReplacedOnce'
  BY <1>1, <1>5, <1>7, <1>8, <1>2 DEF ReplacedInTurn, Replaced, ReplacedOnce, consumer
<1>12. CASE pending' = pending
  <2>1. Holder'
    BY <1>1, <1>2, <1>5, <1>12 DEF ReplacedInTurn, Holder, Replacing
  <2>2. pending # None => pending.steer \in Steers \ {s}
    BY <1>1 DEF ReplacedInTurn, Holder, Replacing, Typed, Waiter
  <2>3. Reserved'
    BY <1>1, <1>2, <1>5, <1>7, <1>8, <1>12, <2>2 DEF ReplacedInTurn, Reserved, consumer
  <2> QED
    BY <1>9, <1>10, <1>11, <2>1, <2>3 DEF ReplacedInTurn
<1>13. CASE pending' # pending
  <2>1. /\ pending = None /\ active = t /\ pc'[s] = "cancelling" /\ pending' # None
        /\ pending'.steer = s /\ pending'.turn = t /\ pending'.outcome = None
    BY <1>4, <1>5, <1>13
  <2>2. Holder'
    BY <1>2, <1>5, <2>1 DEF ReplacedInTurn, Holder, Replacing
  <2>3. \A r \in Steers : turnOf[r] # None => expected'[r] # t
    BY <1>7, <1>8, <2>1 DEF ReplacedInTurn, Replaced, TurnsInOrder, ActiveIsOpen
  <2>4. Reserved'
    BY <1>1, <1>7, <2>1, <2>3 DEF Reserved
  <2> QED
    BY <1>9, <1>10, <1>11, <2>2, <2>4 DEF ReplacedInTurn
<1> QED
  BY <1>12, <1>13

LEMMA ShareKeeps ==
  ASSUME IInv, NEW s \in Steers, Share(s)
  PROVE  IInv'
<1> USE DEF IInv
<1>1. PICK o \in Steers \ {s} :
        /\ expected[o] = expected[s] /\ pc[o] \in {"accepted", "done", "failed"}
        /\ turnOf' = [turnOf EXCEPT ![s] = turnOf[o]]
        /\ Goto(s, IF pc[o] = "failed" THEN "failed" ELSE "done")
  BY DEF Share
<1>2. pc[s] = "sharing" /\ UNCHANGED <<host, harness, consumer, steering, expected>>
  BY DEF Share
<1>3. s \in Callers /\ o \in Callers /\ \A r \in Steers : r \in Callers
  BY DEF Callers
<1>4. pc' \in [Callers -> States] /\ turnOf' \in [Callers -> Nat \cup {None}]
  BY <1>1, <1>3 DEF Typed, States, Goto
<1>5. /\ pc'[s] = (IF pc[o] = "failed" THEN "failed" ELSE "done") /\ turnOf'[s] = turnOf[o]
      /\ \A c \in Callers \ {s} : pc'[c] = pc[c] /\ turnOf'[c] = turnOf[c]
  BY <1>1, <1>3 DEF Typed, Goto
<1>6. Typed'
  BY <1>2, <1>4, CallersTyped DEF Typed, consumer, steering
<1>7. TurnsInOrder'
  BY <1>2, <1>5, TurnsKept DEF consumer
<1>8. Holder'
  BY <1>2, <1>3, <1>5 DEF ReplacedInTurn, Holder, Replacing, steering
<1>9. Replaced'
  BY <1>1, <1>2, <1>3, <1>5 DEF ReplacedInTurn, Replaced, consumer
<1>10. ReplacedOnce'
  BY <1>1, <1>2, <1>3, <1>5 DEF ReplacedInTurn, ReplacedOnce
<1>11. Reserved'
  <2>1. pending # None => pending.steer \in Steers \ {s}
    BY <1>2 DEF ReplacedInTurn, Holder, Replacing, Typed, Waiter
  <2> QED
    BY <1>1, <1>2, <1>3, <1>5, <2>1 DEF ReplacedInTurn, Reserved, consumer, steering
<1> QED
  BY <1>6, <1>7, <1>8, <1>9, <1>10, <1>11 DEF ReplacedInTurn

\* A replacement ends without a new Turn.
LEMMA GiveUpKeeps ==
  ASSUME IInv, NEW s \in Steers, pc[s] \in Replacing \ {"executing"}, GiveUp(s),
         UNCHANGED <<host, harness, consumer, expected, turnOf>>
  PROVE  IInv'
<1> USE DEF IInv
<1>1. /\ pc' = [pc EXCEPT ![s] = "failed"] /\ pending' = None /\ ReplacedInTurn'
      /\ turnOf' \in [Callers -> Nat \cup {None}]
  BY GivenUp DEF consumer
<1>2. s \in Callers
  BY DEF Callers
<1>3. pc' \in [Callers -> States] /\ \A c \in Callers \ {s} : pc'[c] = pc[c]
  BY <1>1, <1>2 DEF Typed, States
<1>4. pc'[s] = "failed"
  BY <1>1, <1>2 DEF Typed
<1>5. Typed'
  BY <1>1, <1>3, CallersTyped DEF Typed, consumer
<1>6. TurnsInOrder'
  BY <1>2, <1>3, <1>4, TurnsKept DEF consumer, Replacing
<1> QED
  BY <1>1, <1>5, <1>6

\* The waiter of a replacement goes on.
LEMMA MoveKeeps ==
  ASSUME IInv, NEW s \in Steers, pc[s] \in Replacing \ {"executing"},
         NEW to \in {"waiting", "resolving"}, to = "resolving" => pending.outcome # None,
         Goto(s, to), UNCHANGED <<host, harness, consumer, pending, expected, turnOf>>
  PROVE  IInv'
<1> USE DEF IInv
<1>1. pc' \in [Callers -> States] /\ ReplacedInTurn'
  BY WaiterMoves DEF consumer
<1>2. s \in Callers
  BY DEF Callers
<1>3. pc'[s] = to /\ \A c \in Callers \ {s} : pc'[c] = pc[c]
  BY <1>2 DEF Typed, Goto
<1>4. Typed'
  BY <1>1, CallersTyped DEF Typed, consumer
<1>5. TurnsInOrder'
  BY <1>2, <1>3, TurnsKept DEF consumer, Replacing
<1> QED
  BY <1>1, <1>4, <1>5

\* The new Turn begins.
LEMMA BeginKeeps ==
  ASSUME IInv, NEW s \in Steers, pc[s] \in {"waiting", "resolving"}, pending.outcome # None,
         active = None, Begin(s), UNCHANGED <<harness, consumer, pending, expected>>
  PROVE  IInv'
<1> USE DEF IInv
<1>1. s \in Callers
  BY DEF Callers
<1>2. Typed'
  BY <1>1, BeginTyped DEF Typed, consumer
<1>3. TurnsInOrder'
  BY <1>1, BeginInOrder DEF consumer
<1>4. ReplacedInTurn'
  BY SteerBegins DEF consumer
<1> QED
  BY <1>2, <1>3, <1>4

LEMMA AnswerCancelKeeps ==
  ASSUME IInv, NEW s \in Steers, AnswerCancel(s)
  PROVE  IInv'
<1>1. pc[s] \in Replacing \ {"executing"} /\ UNCHANGED <<host, harness, consumer, expected, turnOf>>
  BY DEF AnswerCancel, Replacing
<1>2. CASE Goto(s, "waiting") /\ UNCHANGED <<pending, receipts>>
  BY <1>1, <1>2, MoveKeeps
<1>3. CASE GiveUp(s)
  BY <1>1, <1>3, GiveUpKeeps
<1> QED
  BY <1>2, <1>3 DEF AnswerCancel

LEMMA AbandonSteerKeeps ==
  ASSUME IInv, NEW s \in Steers, AbandonSteer(s)
  PROVE  IInv'
<1>1. /\ pc[s] \in Replacing \ {"executing"} /\ GiveUp(s)
      /\ UNCHANGED <<host, harness, consumer, expected, turnOf>>
  BY DEF AbandonSteer, Replacing
<1> QED
  BY <1>1, GiveUpKeeps

LEMMA WakeKeeps ==
  ASSUME IInv, NEW s \in Steers, Wake(s)
  PROVE  IInv'
<1>1. /\ pc[s] = "waiting" /\ pc[s] \in Replacing \ {"executing"} /\ pending.outcome # None
      /\ UNCHANGED <<harness, consumer, expected>>
  BY DEF Wake, Replacing
<1>2. CASE GiveUp(s) /\ UNCHANGED <<host, turnOf, command>>
  BY <1>1, <1>2, GiveUpKeeps
<1>3. CASE active = None /\ Begin(s) /\ UNCHANGED <<pending, receipts, command>>
  BY <1>1, <1>3, BeginKeeps
<1>4. CASE Resolve(s) /\ UNCHANGED <<pending, receipts>>
  BY <1>1, <1>4, MoveKeeps DEF Resolve
<1> QED
  BY <1>2, <1>3, <1>4 DEF Wake

LEMMA ResumeSteerKeeps ==
  ASSUME IInv, NEW s \in Steers, ResumeSteer(s)
  PROVE  IInv'
<1>1. /\ pc[s] = "resolving" /\ pc[s] \in Replacing \ {"executing"}
      /\ UNCHANGED <<harness, consumer, expected>>
  BY DEF ResumeSteer, Replacing
<1>2. CASE GiveUp(s) /\ UNCHANGED <<host, turnOf>>
  BY <1>1, <1>2, GiveUpKeeps
<1>3. CASE active = None /\ Begin(s) /\ UNCHANGED <<pending, receipts>>
  <2>1. pending.outcome # None
    BY <1>1 DEF IInv, ReplacedInTurn, Holder, Reserved
  <2> QED
    BY <1>1, <1>3, <2>1, BeginKeeps
<1> QED
  BY <1>2, <1>3 DEF ResumeSteer

\* Timeout, StopOrFault, Close, EndStream.
LEMMA RejectKeeps ==
  ASSUME IInv, RejectPending, stream' => stream,
         UNCHANGED <<host, harness, projecting, announced, callers>>
  PROVE  IInv'
<1> USE DEF IInv, callers
<1>1. pending' \in Waiter \cup {None} /\ ReplacedInTurn'
  BY Rejected
<1>2. Typed'
  BY <1>1, CallersTyped DEF Typed
<1>3. TurnsInOrder'
  BY TurnsKept
<1> QED
  BY <1>1, <1>2, <1>3

LEMMA RespondKeeps ==
  ASSUME IInv, NEW c \in Callers, Respond(c)
  PROVE  IInv'
<1> USE DEF IInv
<1>1. /\ pc[c] = "accepted" /\ pc' = [pc EXCEPT ![c] = "done"]
      /\ UNCHANGED <<host, harness, consumer, steering, expected, turnOf>>
  BY DEF Respond, Goto
<1>2. pc' \in [Callers -> States] /\ pc'[c] = "done" /\ \A d \in Callers \ {c} : pc'[d] = pc[d]
  BY <1>1 DEF Typed, States
<1>3. Typed'
  BY <1>1, <1>2, CallersTyped DEF Typed, consumer, steering
<1>4. TurnsInOrder'
  BY <1>1, <1>2, TurnsKept DEF consumer
<1>5. ReplacedInTurn'
  BY <1>1, <1>2, ReplacementsKept DEF consumer, steering, Callers
<1> QED
  BY <1>3, <1>4, <1>5

-----------------------------------------------------------------------------
(* The Harness *)

\* The caller whose turn.start is answered holds the active Turn, of which the Harness
\* has published nothing.
LEMMA Asked ==
  ASSUME Typed, TurnsInOrder, NEW c \in Callers, pc[c] = "executing"
  PROVE  /\ turnOf[c] \in DOMAIN starter /\ active = turnOf[c] /\ starter[turnOf[c]] = c
         /\ turnOf[c] \notin announced /\ ~Taken(turnOf[c]) /\ native # turnOf[c]
         /\ \A i \in DOMAIN outputs : outputs[i].turn # turnOf[c]
         /\ \A d \in Callers : pc[d] = "executing" => d = c
<1>1. turnOf[c] \in DOMAIN starter /\ active = turnOf[c] /\ starter[turnOf[c]] = c
  BY DEF TurnsInOrder, Executing
<1>2. ~Taken(turnOf[c])
  BY <1>1, SteeringAssumption DEF Taken, Callers
<1>3. turnOf[c] # None
  BY <1>1, SteeringAssumption DEF Typed
<1> QED
  BY <1>1, <1>2, <1>3 DEF TurnsInOrder, Executing, ActiveIsOpen, NativeRuns, Published

LEMMA AcceptKeeps ==
  ASSUME IInv, NEW c \in Callers, Accept(c)
  PROVE  IInv'
<1> USE DEF IInv
<1>1. /\ pc[c] = "executing" /\ native = None /\ native' = turnOf[c]
      /\ pc' = [pc EXCEPT ![c] = "accepted"]
      /\ UNCHANGED <<host, outputs, consumer, expected, turnOf>>
  BY DEF Accept, Goto
<1>2. pc' \in [Callers -> States] /\ pc'[c] = "accepted"
      /\ \A d \in Callers \ {c} : pc'[d] = pc[d]
  BY <1>1 DEF Typed, States
<1>3. /\ turnOf[c] \in DOMAIN starter /\ active = turnOf[c] /\ starter[turnOf[c]] = c
      /\ turnOf[c] \notin announced /\ ~Taken(turnOf[c])
      /\ \A i \in DOMAIN outputs : outputs[i].turn # turnOf[c]
      /\ \A d \in Callers : pc[d] = "executing" => d = c
  BY <1>1, Asked
<1>4. pending' = None \/ pending' = pending
  BY DEF Accept, Settle, Release
<1>5. Typed'
  BY <1>1, <1>2, <1>3, <1>4 DEF Typed, host, consumer
<1>6. TurnsInOrder'
  <2> USE DEF TurnsInOrder, host, consumer
  <2>1. \A t \in DOMAIN starter : (Taken(t) => Taken(t)') /\ (Answered(t) => Answered(t)')
    BY <1>1, <1>2, StaysTaken
  <2>2. Executing'
    BY <1>2, <1>3 DEF Executing
  <2>3. NativeRuns'
    <3>1. Taken(native)'
      BY <1>1, <1>2, <1>3 DEF Taken
    <3> QED
      BY <1>1, <1>3, <3>1 DEF NativeRuns
  <2>4. Published' /\ Ordered' /\ EndsAreDue' /\ ActiveIsOpen'
    BY <1>1, <2>1 DEF Published, Ordered, EndsAreDue, ActiveIsOpen
  <2>5. ProjectsAnEnd'
    <3> SUFFICES ASSUME projecting PROVE ProjectsAnEnd'
      BY <1>1 DEF ProjectsAnEnd
    <3>1. 1 \in DOMAIN outputs
      BY DEF ProjectsAnEnd, Typed
    <3>2. Answered(outputs[1].turn)'
      BY <3>1, <1>1, <2>1 DEF ProjectsAnEnd, Published
    <3> QED
      BY <1>1, <3>2 DEF ProjectsAnEnd
  <2>6. ActiveRuns'
    <3>1. \A t : EndDue(t)' <=> EndDue(t)
      BY <1>1 DEF EndDue
    <3>2. \A i \in DOMAIN outputs : outputs[i].turn # None
      BY SteeringAssumption DEF Published, Typed
    <3> QED
      BY <1>1, <1>3, <3>1, <3>2 DEF ActiveRuns
  <2> QED
    BY <2>2, <2>3, <2>4, <2>5, <2>6
<1>7. \A s \in Steers : s \in Callers
  BY DEF Callers
<1>8. CASE c \in Steers
  <2>1. pending' = None
    BY <1>1, <1>8 DEF Accept, Settle, Release, ReplacedInTurn, Holder, Replacing
  <2>2. Holder'
    BY <1>1, <1>2, <1>7, <2>1, <1>8 DEF ReplacedInTurn, Holder, Replacing
  <2>3. Replaced' /\ ReplacedOnce'
    BY <1>1, <1>2, <1>7 DEF ReplacedInTurn, Replaced, ReplacedOnce, consumer
  <2>4. Reserved'
    BY <2>1 DEF Reserved
  <2> QED
    BY <1>5, <1>6, <2>2, <2>3, <2>4 DEF ReplacedInTurn
<1>9. CASE c \notin Steers
  <2>1. pending' = pending
    BY <1>9 DEF Accept
  <2>2. ReplacedInTurn'
    BY <1>1, <1>2, <1>7, <1>9, <2>1, ReplacementsKept DEF consumer
  <2> QED
    BY <1>5, <1>6, <2>2
<1> QED
  BY <1>8, <1>9

LEMMA DeclineKeeps ==
  ASSUME IInv, NEW c \in Callers, Decline(c)
  PROVE  IInv'
<1> USE DEF IInv
<1>1. /\ pc[c] = "executing" /\ active' = None /\ turnOf' = [turnOf EXCEPT ![c] = None]
      /\ UNCHANGED <<starter, harness, consumer, expected>>
  BY DEF Decline
<1>2. pc' = [pc EXCEPT ![c] = "failed"]
  BY DEF Decline, GiveUp, Goto
<1>3. pc' \in [Callers -> States] /\ pc'[c] = "failed"
      /\ \A d \in Callers \ {c} : pc'[d] = pc[d]
  BY <1>2 DEF Typed, States
<1>4. turnOf' \in [Callers -> Nat \cup {None}] /\ turnOf'[c] = None
      /\ \A d \in Callers \ {c} : turnOf'[d] = turnOf[d]
  BY <1>1 DEF Typed
<1>5. /\ turnOf[c] \in DOMAIN starter /\ active = turnOf[c] /\ starter[turnOf[c]] = c
      /\ turnOf[c] \notin announced /\ ~Taken(turnOf[c]) /\ native # turnOf[c]
      /\ \A i \in DOMAIN outputs : outputs[i].turn # turnOf[c]
      /\ \A d \in Callers : pc[d] = "executing" => d = c
  BY <1>1, Asked
<1>6. pending' = None \/ pending' = pending
  BY DEF Decline, GiveUp, Release
<1>7. Typed'
  BY <1>1, <1>3, <1>4, <1>6 DEF Typed, harness, consumer
<1>8. TurnsInOrder'
  <2> USE DEF TurnsInOrder, harness, consumer
  <2>1. \A t \in DOMAIN starter : (Taken(t) => Taken(t)') /\ (Answered(t) => Answered(t)')
    BY <1>1, <1>3, StaysTaken
  <2>2. Executing'
    BY <1>3, <1>5 DEF Executing
  <2>3. NativeRuns'
    BY <1>1, <1>5, <2>1 DEF NativeRuns, Typed
  <2>4. Published' /\ Ordered'
    BY <1>1, <2>1 DEF Published, Ordered
  <2>5. EndsAreDue'
    BY <1>1, <1>5 DEF EndsAreDue
  <2>6. None \notin DOMAIN starter
    BY SteeringAssumption DEF Typed
  <2>7. ActiveIsOpen'
    BY <1>1, <2>6 DEF ActiveIsOpen, Typed
  <2>8. ProjectsAnEnd'
    <3> SUFFICES ASSUME projecting PROVE ProjectsAnEnd'
      BY <1>1 DEF ProjectsAnEnd
    <3>1. 1 \in DOMAIN outputs
      BY DEF ProjectsAnEnd, Typed
    <3>2. Answered(outputs[1].turn)' /\ outputs[1].turn # None
      BY <3>1, <1>1, <2>1, <2>6 DEF ProjectsAnEnd, Published
    <3> QED
      BY <1>1, <3>2 DEF ProjectsAnEnd
  <2>9. ActiveRuns'
    BY <1>1 DEF ActiveRuns, EndDue
  <2> QED
    BY <2>2, <2>3, <2>4, <2>5, <2>7, <2>8, <2>9
<1>9. CASE c \in Steers
  <2>1. GiveUp(c) /\ pc[c] \in Replacing
    BY <1>1, <1>9 DEF Decline, Replacing
  <2>2. ReplacedInTurn'
    BY <1>1, <1>9, <2>1, GivenUp DEF consumer
  <2> QED
    BY <1>7, <1>8, <2>2
<1>10. CASE c \notin Steers
  <2>1. pending' = pending /\ \A s \in Steers : s \in Callers
    BY <1>10 DEF Decline, Callers
  <2>2. ReplacedInTurn'
    BY <1>1, <1>3, <1>4, <1>10, <2>1, ReplacementsKept DEF consumer
  <2> QED
    BY <1>7, <1>8, <2>2
<1> QED
  BY <1>9, <1>10

\* The Harness publishes an event.
LEMMA EventAppended ==
  ASSUME Typed, NEW e \in [turn : Nat, outcome : Outcomes], outputs' = Append(outputs, e)
  PROVE  /\ outputs' \in Seq([turn : Nat, outcome : Outcomes])
         /\ outputs' # <<>> /\ DOMAIN outputs \subseteq DOMAIN outputs'
         /\ Len(outputs') \in Nat /\ Len(outputs') \in DOMAIN outputs'
         /\ outputs'[Len(outputs')] = e
         /\ \A i \in DOMAIN outputs : outputs'[i] = outputs[i] /\ i < Len(outputs')
         /\ \A i \in DOMAIN outputs' : i \in DOMAIN outputs \/ i = Len(outputs')
         /\ DOMAIN outputs' \subseteq Nat
BY DEF Typed

LEMMA EndNativeKeeps ==
  ASSUME IInv, EndNative
  PROVE  IInv'
<1> USE DEF IInv
<1>1. native # None /\ native' = None /\ UNCHANGED <<host, consumer, pending, callers>>
  BY DEF EndNative, steering
<1>2. native \in DOMAIN starter /\ native \in Nat
  BY <1>1 DEF Typed
<1>3. PICK e \in [turn : Nat, outcome : Outcomes] :
        outputs' = Append(outputs, e) /\ e.turn = native /\ e.outcome # "begun"
  <2>1. PICK outcome \in {"ended", "failed"} :
          outputs' = Append(outputs, [turn |-> native, outcome |-> outcome])
    BY DEF EndNative
  <2> QED
    BY <1>2, <2>1 DEF Outcomes
<1> DEFINE n == Len(outputs')
<1>4. /\ outputs' \in Seq([turn : Nat, outcome : Outcomes])
      /\ outputs' # <<>> /\ DOMAIN outputs \subseteq DOMAIN outputs'
      /\ n \in Nat /\ n \in DOMAIN outputs' /\ outputs'[n] = e
      /\ \A i \in DOMAIN outputs : outputs'[i] = outputs[i] /\ i < n
      /\ \A i \in DOMAIN outputs' : i \in DOMAIN outputs \/ i = n
      /\ DOMAIN outputs' \subseteq Nat
  BY <1>3, EventAppended
<1> HIDE DEF n
<1> USE DEF host, consumer, callers
<1>5. Typed'
  BY <1>1, <1>4 DEF Typed
<1>6. TurnsInOrder'
  <2> USE DEF TurnsInOrder
  <2>1. \A t : (Taken(t) <=> Taken(t)') /\ (Answered(t) <=> Answered(t)')
    BY <1>1 DEF Taken, Answered
  <2>2. Executing' /\ ActiveIsOpen' /\ ActiveRuns'
    <3>1. Executing' /\ ActiveIsOpen'
      BY <1>1 DEF Executing, ActiveIsOpen
    <3>2. ASSUME NEW u, u = native \/ EndDue(u)
          PROVE  \E j \in DOMAIN outputs' : outputs'[j].turn = u /\ outputs'[j].outcome # "begun"
      <4>1. CASE u = native
        BY <1>3, <1>4, <4>1
      <4>2. CASE EndDue(u)
        BY <1>4, <4>2 DEF EndDue
      <4> QED
        BY <3>2, <4>1, <4>2
    <3>3. \A i \in DOMAIN outputs' : outputs'[i].outcome = "begun" => i \in DOMAIN outputs /\ outputs'[i] = outputs[i]
      BY <1>3, <1>4
    <3>4. ActiveRuns'
      <4>1. stream' /\ active' # None =>
              \/ \E j \in DOMAIN outputs' : outputs'[j].turn = active' /\ outputs'[j].outcome # "begun"
              \/ starter'[active'] \in Callers /\ pc'[starter'[active']] = "executing"
        BY <1>1, <3>2 DEF ActiveRuns
      <4>2. ASSUME NEW i \in DOMAIN outputs', outputs'[i].outcome = "begun"
            PROVE  \E j \in DOMAIN outputs' : outputs'[j].turn = outputs'[i].turn /\ outputs'[j].outcome # "begun"
        BY <3>2, <3>3, <4>2 DEF ActiveRuns
      <4> QED
        BY <4>1, <4>2 DEF ActiveRuns, EndDue
    <3> QED
      BY <3>1, <3>4
  <2>3. NativeRuns'
    BY <1>1 DEF NativeRuns
  <2>4. /\ Taken(native) /\ native \notin announced
        /\ \A i \in DOMAIN outputs : outputs[i].turn = native => outputs[i].outcome = "begun"
        /\ stream => active = native \/ \E i \in DOMAIN outputs : outputs[i].turn = native
    BY <1>1 DEF NativeRuns
  <2>5. Published'
    BY <1>1, <1>2, <1>3, <1>4, <2>1, <2>4 DEF Published
  <2>6. Ordered'
    <3> SUFFICES ASSUME NEW i \in DOMAIN outputs', NEW j \in DOMAIN outputs', i < j,
                        outputs'[i].turn = outputs'[j].turn
                 PROVE  outputs'[i].outcome = "begun" /\ outputs'[j].outcome # "begun"
      BY DEF Ordered
    <3>1. i \in DOMAIN outputs
      BY <1>4
    <3> QED
      BY <1>3, <1>4, <2>4, <3>1 DEF Ordered
  <2>7. EndsAreDue'
    <3> SUFFICES ASSUME stream, NEW i \in DOMAIN outputs', outputs'[i].outcome # "begun",
                        ~(projecting /\ i = 1)
                 PROVE  \/ active = outputs'[i].turn
                        \/ \E j \in DOMAIN outputs' : j < i /\ outputs'[j].turn = outputs'[i].turn
      BY <1>1 DEF EndsAreDue
    <3>1. CASE i \in DOMAIN outputs
      BY <1>4, <3>1 DEF EndsAreDue
    <3>2. CASE i = n
      BY <1>3, <1>4, <2>4, <3>2
    <3> QED
      BY <1>4, <3>1, <3>2
  <2>8. ProjectsAnEnd'
    <3> SUFFICES ASSUME projecting PROVE ProjectsAnEnd'
      BY <1>1 DEF ProjectsAnEnd
    <3>1. 1 \in DOMAIN outputs
      BY DEF ProjectsAnEnd, Typed
    <3> QED
      BY <1>1, <1>4, <2>1, <3>1 DEF ProjectsAnEnd
  <2> QED
    BY <2>2, <2>3, <2>5, <2>6, <2>7, <2>8
<1>7. ReplacedInTurn'
  BY <1>1, ReplacementsKept
<1> QED
  BY <1>5, <1>6, <1>7

LEMMA BeginAutonomousKeeps ==
  ASSUME IInv, BeginAutonomous
  PROVE  IInv'
<1> USE DEF IInv
<1>1. /\ native = None /\ starter' = Append(starter, "harness") /\ native' = Len(starter')
      /\ UNCHANGED <<active, consumer, pending, callers>>
  BY DEF BeginAutonomous, steering
<1>2. PICK t0 \in Nat : t0 = Len(starter')
  BY <1>1, NewTurn
<1>3. /\ starter' \in Seq(Callers \cup {"harness"}) /\ DOMAIN starter \subseteq DOMAIN starter'
      /\ t0 \in DOMAIN starter' /\ t0 \notin DOMAIN starter
      /\ starter'[t0] = "harness" /\ \A t \in DOMAIN starter : starter'[t] = starter[t]
  BY <1>1, <1>2, NewTurn
<1>4. PICK e \in [turn : Nat, outcome : Outcomes] :
        outputs' = Append(outputs, e) /\ e.turn = t0 /\ e.outcome = "begun"
  <2>1. outputs' = Append(outputs, [turn |-> t0, outcome |-> "begun"])
    BY <1>1, <1>2 DEF BeginAutonomous
  <2>2. [turn |-> t0, outcome |-> "begun"] \in [turn : Nat, outcome : Outcomes]
    BY DEF Outcomes
  <2> QED
    BY <2>1, <2>2
<1>5. native' = t0
  BY <1>1, <1>2
<1> DEFINE n == Len(outputs')
<1>6. /\ outputs' \in Seq([turn : Nat, outcome : Outcomes])
      /\ outputs' # <<>> /\ DOMAIN outputs \subseteq DOMAIN outputs'
      /\ n \in Nat /\ n \in DOMAIN outputs' /\ outputs'[n] = e
      /\ \A i \in DOMAIN outputs : outputs'[i] = outputs[i] /\ i < n
      /\ \A i \in DOMAIN outputs' : i \in DOMAIN outputs \/ i = n
      /\ DOMAIN outputs' \subseteq Nat
  BY <1>4, EventAppended
<1> HIDE DEF n
<1> USE DEF consumer, callers
<1>7. Typed'
  BY <1>1, <1>3, <1>5, <1>6 DEF Typed
<1>8. TurnsInOrder'
  <2> USE DEF TurnsInOrder
  <2>1. \A t \in DOMAIN starter : (Taken(t) => Taken(t)') /\ (Answered(t) => Answered(t)')
    BY <1>1, <1>3, StaysTaken
  <2>2. Executing'
    BY <1>1, <1>3 DEF Executing
  <2>3. ActiveIsOpen' /\ ActiveRuns'
    <3>1. ActiveIsOpen'
      BY <1>1, <1>3 DEF ActiveIsOpen, Typed
    <3>2. \A i \in DOMAIN outputs : outputs[i].turn # None
      BY SteeringAssumption DEF Published, Typed
    <3>3. stream' /\ active' # None =>
            \/ active' = native'
            \/ \E i \in DOMAIN outputs' : outputs'[i].turn = active' /\ outputs'[i].outcome # "begun"
            \/ starter'[active'] \in Callers /\ pc'[starter'[active']] = "executing"
      BY <1>1, <1>3, <1>6 DEF ActiveRuns, EndDue, Typed
    <3>4. ASSUME NEW i \in DOMAIN outputs', outputs'[i].outcome = "begun"
          PROVE  \/ native' = outputs'[i].turn
                 \/ \E j \in DOMAIN outputs' : outputs'[j].turn = outputs'[i].turn /\ outputs'[j].outcome # "begun"
      <4>1. CASE i \in DOMAIN outputs
        BY <1>1, <1>6, <3>2, <3>4, <4>1 DEF ActiveRuns, EndDue
      <4>2. CASE i = n
        BY <1>4, <1>5, <1>6, <4>2
      <4> QED
        BY <1>6, <4>1, <4>2
    <3> QED
      BY <3>1, <3>3, <3>4 DEF ActiveRuns, EndDue
  <2>4. Taken(t0)'
    BY <1>3 DEF Taken
  <2>5. t0 \notin announced /\ \A i \in DOMAIN outputs : outputs[i].turn # t0
    BY <1>3 DEF Published, Typed
  <2>6. NativeRuns'
    BY <1>1, <1>3, <1>4, <1>5, <1>6, <2>4, <2>5 DEF NativeRuns
  <2>7. Published'
    BY <1>1, <1>3, <1>4, <1>6, <2>1, <2>4, <2>5 DEF Published
  <2>8. Ordered'
    <3> SUFFICES ASSUME NEW i \in DOMAIN outputs', NEW j \in DOMAIN outputs', i < j,
                        outputs'[i].turn = outputs'[j].turn
                 PROVE  outputs'[i].outcome = "begun" /\ outputs'[j].outcome # "begun"
      BY DEF Ordered
    <3>1. i \in DOMAIN outputs
      BY <1>6
    <3>2. j \in DOMAIN outputs
      BY <1>4, <1>6, <2>5, <3>1
    <3> QED
      BY <1>6, <3>1, <3>2 DEF Ordered
  <2>9. EndsAreDue'
    <3> SUFFICES ASSUME stream, NEW i \in DOMAIN outputs', outputs'[i].outcome # "begun",
                        ~(projecting /\ i = 1)
                 PROVE  \/ active = outputs'[i].turn
                        \/ \E j \in DOMAIN outputs' : j < i /\ outputs'[j].turn = outputs'[i].turn
      BY <1>1 DEF EndsAreDue
    <3>1. i \in DOMAIN outputs
      BY <1>4, <1>6
    <3> QED
      BY <1>6, <3>1 DEF EndsAreDue
  <2>10. ProjectsAnEnd'
    <3> SUFFICES ASSUME projecting PROVE ProjectsAnEnd'
      BY <1>1 DEF ProjectsAnEnd
    <3>1. 1 \in DOMAIN outputs /\ outputs[1].turn \in DOMAIN starter
      BY DEF ProjectsAnEnd, Published, Typed
    <3> QED
      BY <1>1, <1>6, <2>1, <3>1 DEF ProjectsAnEnd
  <2> QED
    BY <2>2, <2>3, <2>6, <2>7, <2>8, <2>9, <2>10
<1>9. ReplacedInTurn'
  BY <1>1, ReplacementsKept
<1> QED
  BY <1>7, <1>8, <1>9

-----------------------------------------------------------------------------
(* The consumer *)

LEMMA HeadRead ==
  ASSUME Typed, outputs # <<>>
  PROVE  /\ 1 \in DOMAIN outputs /\ Head(outputs) = outputs[1]
         /\ outputs[1] \in [turn : Nat, outcome : Outcomes]
         /\ outputs[1].turn \in Nat /\ outputs[1].outcome \in Outcomes
<1>1. Len(outputs) \in Nat /\ Len(outputs) # 0 /\ DOMAIN outputs = 1..Len(outputs)
  BY DEF Typed
<1>2. 1 \in DOMAIN outputs /\ Head(outputs) = outputs[1]
  BY <1>1
<1>3. outputs[1] \in [turn : Nat, outcome : Outcomes]
  <2>1. outputs \in Seq([turn : Nat, outcome : Outcomes]) /\ 1 \in 1..Len(outputs)
    BY <1>1 DEF Typed
  <2> QED
    BY <2>1, ElementOfSeq, Zenon
<1> QED
  BY <1>2, <1>3

\* The event at the head is taken off.
LEMMA TailRead ==
  ASSUME Typed, outputs # <<>>, outputs' = Tail(outputs)
  PROVE  /\ outputs' \in Seq([turn : Nat, outcome : Outcomes])
         /\ DOMAIN outputs' \subseteq Nat
         /\ \A i \in DOMAIN outputs' : i > 0 /\ i + 1 \in DOMAIN outputs /\ outputs'[i] = outputs[i + 1]
         /\ \A i \in DOMAIN outputs : i \in Nat /\ (i # 1 => i - 1 \in DOMAIN outputs')
BY DEF Typed

LEMMA ProjectEndKeeps ==
  ASSUME IInv, ProjectEnd
  PROVE  IInv'
<1> USE DEF IInv
<1>1. /\ stream /\ ~projecting /\ outputs # <<>> /\ projecting' /\ active' = None
      /\ UNCHANGED <<starter, native, announced, stream, pending, callers>>
  BY DEF ProjectEnd, steering
<1>2. /\ 1 \in DOMAIN outputs /\ Head(outputs) = outputs[1]
      /\ outputs[1] \in [turn : Nat, outcome : Outcomes]
      /\ outputs[1].turn \in Nat /\ outputs[1].outcome \in Outcomes
  BY <1>1, HeadRead
<1>3. outputs[1].outcome # "begun" /\ Answered(outputs[1].turn)
  BY <1>2 DEF ProjectEnd
<1>4. /\ outputs' \in Seq([turn : Nat, outcome : Outcomes]) /\ DOMAIN outputs' = DOMAIN outputs
      /\ outputs' # <<>> /\ DOMAIN outputs \subseteq Nat \ {0}
      /\ \A i \in DOMAIN outputs : /\ outputs'[i].turn = outputs[i].turn
                                   /\ outputs'[i].outcome = "begun" <=> outputs[i].outcome = "begun"
  <2>1. CASE UNCHANGED outputs
    BY <1>1, <2>1 DEF Typed
  <2>2. CASE outputs' = [outputs EXCEPT ![1].outcome = "failed"]
    <3> DEFINE e == [outputs[1] EXCEPT !.outcome = "failed"]
    <3>1. e \in [turn : Nat, outcome : Outcomes] /\ e.turn = outputs[1].turn /\ e.outcome = "failed"
      BY <1>2 DEF Outcomes
    <3>2. outputs' = [outputs EXCEPT ![1] = e]
      BY <2>2, Zenon
    <3> HIDE DEF e
    <3>3. outputs' \in Seq([turn : Nat, outcome : Outcomes]) /\ DOMAIN outputs' = DOMAIN outputs
          /\ Len(outputs') = Len(outputs)
      BY <1>2, <3>1, <3>2 DEF Typed
    <3>4. outputs'[1] = e /\ \A i \in DOMAIN outputs : i # 1 => outputs'[i] = outputs[i]
      BY <1>2, <3>2 DEF Typed
    <3>5. outputs' # <<>> /\ DOMAIN outputs \subseteq Nat \ {0}
      BY <1>1, <3>3 DEF Typed
    <3> QED
      BY <1>3, <3>1, <3>3, <3>4, <3>5
  <2> QED
    BY <2>1, <2>2 DEF ProjectEnd
<1> USE DEF callers
<1>5. Typed'
  BY <1>1, <1>4 DEF Typed
<1>6. TurnsInOrder'
  <2> USE DEF TurnsInOrder
  <2>1. \A t : (Taken(t) <=> Taken(t)') /\ (Answered(t) <=> Answered(t)')
    BY <1>1 DEF Taken, Answered
  <2>2. outputs[1].turn # None
    BY <1>2, SteeringAssumption
  <2>3. active = outputs[1].turn /\ Taken(active) /\ active # native
    <3>1. ~ \E j \in DOMAIN outputs : j < 1
      BY <1>4
    <3>2. active = outputs[1].turn
      BY <1>1, <1>2, <1>3, <3>1 DEF EndsAreDue
    <3> QED
      BY <1>2, <1>3, <2>2, <3>2 DEF Published, NativeRuns
  <2>4. Executing'
    <3> SUFFICES ASSUME NEW c \in Callers, pc[c] = "executing"
                 PROVE  FALSE
      BY <1>1 DEF Executing
    <3> QED
      BY <2>3, Asked
  <2>5. NativeRuns'
    BY <1>1, <1>4, <2>1, <2>3 DEF NativeRuns
  <2>6. Published' /\ Ordered'
    BY <1>1, <1>4, <2>1 DEF Published, Ordered
  <2>7. EndsAreDue'
    <3> SUFFICES ASSUME NEW i \in DOMAIN outputs, outputs[i].outcome # "begun", i # 1
                 PROVE  \E j \in DOMAIN outputs : j < i /\ outputs[j].turn = outputs[i].turn
      BY <1>1, <1>4 DEF EndsAreDue
    <3>1. 1 < i
      BY <1>4
    <3>2. outputs[i].turn # active
      BY <1>2, <1>3, <2>3, <3>1 DEF Ordered
    <3> QED
      BY <1>1, <3>2 DEF EndsAreDue
  <2>8. ProjectsAnEnd'
    BY <1>1, <1>2, <1>3, <1>4, <2>1, <2>2 DEF ProjectsAnEnd
  <2>9. ActiveIsOpen'
    BY <1>1, SteeringAssumption DEF ActiveIsOpen, Typed
  <2>10. ActiveRuns'
    <3>1. \A t : EndDue(t)' <=> EndDue(t)
      BY <1>4 DEF EndDue
    <3>2. ASSUME NEW i \in DOMAIN outputs', outputs'[i].outcome = "begun"
          PROVE  native' = outputs'[i].turn \/ EndDue(outputs[i].turn)'
      BY <1>1, <1>4, <3>1, <3>2 DEF ActiveRuns
    <3> QED
      BY <1>1, <1>4, <3>2 DEF ActiveRuns, EndDue
  <2> QED
    BY <2>4, <2>5, <2>6, <2>7, <2>8, <2>9, <2>10
<1>7. ReplacedInTurn'
  BY <1>1, ReplacementsKept
<1> QED
  BY <1>5, <1>6, <1>7

LEMMA AnnounceKeeps ==
  ASSUME IInv, Announce
  PROVE  IInv'
<1> USE DEF IInv
<1>1. /\ stream /\ projecting /\ projecting' = FALSE /\ outputs' = Tail(outputs)
      /\ announced' = announced \cup {Head(outputs).turn}
      /\ UNCHANGED <<host, native, stream, callers>>
  BY DEF Announce
<1>2. /\ outputs # <<>> /\ outputs[1].outcome # "begun" /\ Answered(outputs[1].turn)
      /\ active # outputs[1].turn
  BY <1>1 DEF TurnsInOrder, ProjectsAnEnd
<1>3. /\ 1 \in DOMAIN outputs /\ Head(outputs) = outputs[1]
      /\ outputs[1].turn \in Nat /\ outputs[1].outcome \in Outcomes
  BY <1>2, HeadRead
<1>4. /\ outputs' \in Seq([turn : Nat, outcome : Outcomes])
      /\ DOMAIN outputs' \subseteq Nat
      /\ \A i \in DOMAIN outputs' : i > 0 /\ i + 1 \in DOMAIN outputs /\ outputs'[i] = outputs[i + 1]
      /\ \A i \in DOMAIN outputs : i \in Nat /\ (i # 1 => i - 1 \in DOMAIN outputs')
  BY <1>1, <1>2, TailRead
<1>5. PICK t \in Nat : t = outputs[1].turn
  BY <1>3
<1>6. /\ announced' = announced \cup {t} /\ t \in DOMAIN starter /\ t # native
      /\ Answered(t) /\ active # t /\ t \notin announced
  <2>1. t \in DOMAIN starter /\ t \notin announced
    BY <1>3, <1>5 DEF TurnsInOrder, Published
  <2>2. t # native
    <3>1. t # None
      BY SteeringAssumption
    <3> QED
      BY <1>2, <1>3, <1>5, <3>1 DEF TurnsInOrder, NativeRuns
  <2> QED
    BY <1>1, <1>2, <1>3, <1>5, <2>1, <2>2
<1>7. \A i \in DOMAIN outputs : i # 1 => outputs[i].turn # t
  <2>1. \A i \in DOMAIN outputs : i # 1 => 1 < i
    BY DEF Typed
  <2> QED
    BY <1>2, <1>3, <1>5, <2>1 DEF TurnsInOrder, Ordered
<1> USE DEF host, callers
<1>8. TurnsInOrder'
  <2> USE DEF TurnsInOrder
  <2>1. \A u : (Taken(u) <=> Taken(u)') /\ (Answered(u) <=> Answered(u)')
    BY <1>1 DEF Taken, Answered
  <2>2. Executing' /\ ActiveIsOpen'
    BY <1>1, <1>6 DEF Executing, ActiveIsOpen
  <2>3. NativeRuns'
    <3> SUFFICES ASSUME native # None PROVE NativeRuns'
      BY <1>1 DEF NativeRuns
    <3>1. /\ Taken(native) /\ native \notin announced
          /\ \A i \in DOMAIN outputs : outputs[i].turn = native => outputs[i].outcome = "begun"
          /\ starter[native] # "harness" => active = native
          /\ active = native \/ \E i \in DOMAIN outputs : outputs[i].turn = native
      BY <1>1 DEF NativeRuns
    <3>2. \A i \in DOMAIN outputs' : outputs'[i].turn = native => outputs'[i].outcome = "begun"
      BY <1>4, <3>1
    <3>3. ASSUME NEW i \in DOMAIN outputs, outputs[i].turn = native
          PROVE  \E j \in DOMAIN outputs' : outputs'[j].turn = native
      <4>1. i # 1
        BY <1>5, <1>6, <3>3
      <4>2. i - 1 \in DOMAIN outputs' /\ outputs'[i - 1] = outputs[i]
        BY <1>4, <4>1
      <4> QED
        BY <3>3, <4>2
    <3> QED
      BY <1>1, <1>6, <2>1, <3>1, <3>2, <3>3 DEF NativeRuns
  <2>4. Published'
    BY <1>1, <1>4, <1>6, <1>7, <2>1 DEF Published
  <2>5. Ordered'
    <3> SUFFICES ASSUME NEW i \in DOMAIN outputs', NEW j \in DOMAIN outputs', i < j,
                        outputs'[i].turn = outputs'[j].turn
                 PROVE  outputs'[i].outcome = "begun" /\ outputs'[j].outcome # "begun"
      BY DEF Ordered
    <3>1. i + 1 \in DOMAIN outputs /\ j + 1 \in DOMAIN outputs /\ i + 1 < j + 1
      BY <1>4
    <3> QED
      BY <1>4, <3>1 DEF Ordered
  <2>6. EndsAreDue'
    <3> SUFFICES ASSUME NEW i \in DOMAIN outputs', outputs'[i].outcome # "begun",
                        active # outputs'[i].turn
                 PROVE  \E j \in DOMAIN outputs' : j < i /\ outputs'[j].turn = outputs'[i].turn
      BY <1>1 DEF EndsAreDue
    <3>1. i + 1 \in DOMAIN outputs /\ i + 1 # 1 /\ outputs'[i] = outputs[i + 1]
      BY <1>4
    <3>2. PICK j \in DOMAIN outputs : j < i + 1 /\ outputs[j].turn = outputs[i + 1].turn
      BY <1>1, <3>1 DEF EndsAreDue
    <3>3. j # 1
      BY <1>5, <1>7, <3>1, <3>2
    <3>4. j - 1 \in DOMAIN outputs' /\ outputs'[j - 1] = outputs[j] /\ j - 1 < i
      BY <1>4, <3>2, <3>3
    <3> QED
      BY <3>1, <3>2, <3>4
  <2>7. ProjectsAnEnd'
    BY <1>1 DEF ProjectsAnEnd
  <2>8. ActiveRuns'
    <3>1. ASSUME NEW u, u # t, EndDue(u)
          PROVE  \E j \in DOMAIN outputs' : outputs'[j].turn = u /\ outputs'[j].outcome # "begun"
      <4>1. PICK i \in DOMAIN outputs : outputs[i].turn = u /\ outputs[i].outcome # "begun"
        BY <3>1 DEF EndDue
      <4>2. i - 1 \in DOMAIN outputs' /\ outputs'[i - 1] = outputs[i]
        BY <1>4, <1>5, <3>1, <4>1
      <4> QED
        BY <4>1, <4>2
    <3>2. stream' /\ active' # None =>
            \/ active' = native'
            \/ \E i \in DOMAIN outputs' : outputs'[i].turn = active' /\ outputs'[i].outcome # "begun"
            \/ starter'[active'] \in Callers /\ pc'[starter'[active']] = "executing"
      BY <1>1, <1>6, <3>1 DEF ActiveRuns
    <3>3. ASSUME NEW i \in DOMAIN outputs', outputs'[i].outcome = "begun"
          PROVE  \/ native' = outputs'[i].turn
                 \/ \E j \in DOMAIN outputs' : outputs'[j].turn = outputs'[i].turn /\ outputs'[j].outcome # "begun"
      <4>1. i + 1 \in DOMAIN outputs /\ outputs'[i] = outputs[i + 1] /\ outputs[i + 1].turn # t
        BY <1>4, <1>7
      <4> QED
        BY <1>1, <3>1, <3>3, <4>1 DEF ActiveRuns
    <3> QED
      BY <3>2, <3>3 DEF ActiveRuns, EndDue
  <2> QED
    BY <2>2, <2>3, <2>4, <2>5, <2>6, <2>7, <2>8
<1>9. CASE pending' = pending
  <2>1. Typed'
    BY <1>1, <1>4, <1>6, <1>9 DEF Typed
  <2>2. ReplacedInTurn'
    BY <1>1, <1>9, ReplacementsKept
  <2> QED
    BY <1>8, <2>1, <2>2
<1>10. CASE pending' # pending
  <2>1. /\ pending # None /\ pending.turn = t /\ pending.outcome = None
        /\ pending' = [pending EXCEPT !.outcome = outputs[1].outcome]
    BY <1>3, <1>5, <1>10 DEF Announce
  <2>2. pending \in Waiter
    BY <2>1 DEF Typed
  <2>3. /\ pending' \in Waiter /\ pending'.turn = t /\ pending'.steer = pending.steer
        /\ pending'.rejected = pending.rejected /\ pending.steer \in Steers
    BY <1>2, <1>3, <2>1, <2>2 DEF Waiter, Outcomes
  <2>4. pending' # None
    BY <2>3, SteeringAssumption DEF Waiter
  <2>5. Typed'
    BY <1>1, <1>4, <1>6, <2>3 DEF Typed
  <2> USE DEF ReplacedInTurn
  <2>6. Holder'
    BY <1>1, <2>1, <2>3, <2>4 DEF Holder
  <2>7. Replaced' /\ ReplacedOnce'
    BY <1>1 DEF Replaced, ReplacedOnce
  <2>8. Reserved'
    BY <1>1, <1>6, <2>1, <2>3 DEF Reserved
  <2> QED
    BY <1>8, <2>5, <2>6, <2>7, <2>8
<1> QED
  BY <1>9, <1>10

LEMMA ProjectBeginKeeps ==
  ASSUME IInv, ProjectBegin
  PROVE  IInv'
<1> USE DEF IInv
<1>1. /\ stream /\ ~projecting /\ outputs # <<>> /\ outputs' = Tail(outputs)
      /\ UNCHANGED <<starter, native, projecting, announced, callers>>
  BY DEF ProjectBegin
<1>2. /\ 1 \in DOMAIN outputs /\ Head(outputs) = outputs[1]
      /\ outputs[1].turn \in Nat /\ outputs[1].outcome \in Outcomes
  BY <1>1, HeadRead
<1>3. /\ outputs' \in Seq([turn : Nat, outcome : Outcomes])
      /\ DOMAIN outputs' \subseteq Nat
      /\ \A i \in DOMAIN outputs' : i > 0 /\ i + 1 \in DOMAIN outputs /\ outputs'[i] = outputs[i + 1]
      /\ \A i \in DOMAIN outputs : i \in Nat /\ (i # 1 => i - 1 \in DOMAIN outputs')
  BY <1>1, TailRead
<1>4. PICK t \in Nat : t = outputs[1].turn
  BY <1>2
<1>5. t \in DOMAIN starter /\ t \notin announced /\ Taken(t)
  BY <1>2, <1>4 DEF TurnsInOrder, Published
<1>6. \/ active = None /\ active' = t /\ UNCHANGED <<stream, pending>>
      \/ active # None /\ stream' = FALSE /\ RejectPending /\ UNCHANGED active
  BY <1>2, <1>4 DEF ProjectBegin
<1> USE DEF callers
<1>7. pending' \in Waiter \cup {None} /\ ReplacedInTurn'
  <2>1. CASE active = None
    <3>1. UNCHANGED <<stream, pending>>
      BY <1>6, <2>1
    <3> QED
      BY <1>1, <3>1, ReplacementsKept DEF Typed
  <2>2. CASE active # None
    BY <1>1, <1>6, <2>2, Rejected
  <2> QED
    BY <2>1, <2>2
<1>8. Typed'
  BY <1>1, <1>3, <1>5, <1>6, <1>7 DEF Typed
<1>9. TurnsInOrder'
  <2> USE DEF TurnsInOrder
  <2>1. \A u : (Taken(u) <=> Taken(u)') /\ (Answered(u) <=> Answered(u)')
    BY <1>1 DEF Taken, Answered
  <2>2. None \notin DOMAIN starter
    BY SteeringAssumption DEF Typed
  <2>3. Executing'
    BY <1>1, <1>6, <2>2 DEF Executing
  <2>4. NativeRuns'
    <3> SUFFICES ASSUME native # None PROVE NativeRuns'
      BY <1>1 DEF NativeRuns
    <3>1. /\ Taken(native) /\ native \notin announced
          /\ \A i \in DOMAIN outputs : outputs[i].turn = native => outputs[i].outcome = "begun"
          /\ starter[native] # "harness" => active = native
          /\ active = native \/ \E i \in DOMAIN outputs : outputs[i].turn = native
      BY <1>1 DEF NativeRuns
    <3>2. \A i \in DOMAIN outputs' : outputs'[i].turn = native => outputs'[i].outcome = "begun"
      BY <1>3, <3>1
    <3>3. active # None => active' = active /\ ~stream'
      BY <1>6
    <3>4. ASSUME active = None
          PROVE  active' = native \/ \E j \in DOMAIN outputs' : outputs'[j].turn = native
      <4>1. PICK i \in DOMAIN outputs : outputs[i].turn = native
        BY <3>1, <3>4
      <4>2. CASE i = 1
        BY <1>4, <1>6, <3>4, <4>1, <4>2
      <4>3. CASE i # 1
        <5>1. i - 1 \in DOMAIN outputs' /\ outputs'[i - 1] = outputs[i]
          BY <1>3, <4>3
        <5> QED
          BY <4>1, <5>1
      <4> QED
        BY <4>2, <4>3
    <3> QED
      BY <1>1, <2>1, <3>1, <3>2, <3>3, <3>4 DEF NativeRuns
  <2>5. Published'
    BY <1>1, <1>3, <2>1 DEF Published
  <2>6. Ordered'
    <3> SUFFICES ASSUME NEW i \in DOMAIN outputs', NEW j \in DOMAIN outputs', i < j,
                        outputs'[i].turn = outputs'[j].turn
                 PROVE  outputs'[i].outcome = "begun" /\ outputs'[j].outcome # "begun"
      BY DEF Ordered
    <3>1. i + 1 \in DOMAIN outputs /\ j + 1 \in DOMAIN outputs /\ i + 1 < j + 1
      BY <1>3
    <3> QED
      BY <1>3, <3>1 DEF Ordered
  <2>7. EndsAreDue'
    <3> SUFFICES ASSUME stream', NEW i \in DOMAIN outputs', outputs'[i].outcome # "begun",
                        active' # outputs'[i].turn
                 PROVE  \E j \in DOMAIN outputs' : j < i /\ outputs'[j].turn = outputs'[i].turn
      BY <1>1 DEF EndsAreDue
    <3>1. active = None /\ active' = t
      BY <1>6
    <3>2. i + 1 \in DOMAIN outputs /\ i + 1 # 1 /\ outputs'[i] = outputs[i + 1]
      BY <1>3
    <3>3. outputs[i + 1].turn # None
      BY <2>2, <3>2 DEF Published
    <3>4. PICK j \in DOMAIN outputs : j < i + 1 /\ outputs[j].turn = outputs[i + 1].turn
      BY <1>1, <3>1, <3>2, <3>3 DEF EndsAreDue
    <3>5. j # 1
      BY <1>4, <3>1, <3>2, <3>4
    <3>6. j - 1 \in DOMAIN outputs' /\ outputs'[j - 1] = outputs[j] /\ j - 1 < i
      BY <1>3, <3>4, <3>5
    <3> QED
      BY <3>2, <3>4, <3>6
  <2>8. ProjectsAnEnd' /\ ActiveRuns'
    <3>1. outputs[1].outcome = "begun"
      BY <1>2 DEF ProjectBegin
    <3>2. ASSUME NEW u, EndDue(u)
          PROVE  \E j \in DOMAIN outputs' : outputs'[j].turn = u /\ outputs'[j].outcome # "begun"
      <4>1. PICK i \in DOMAIN outputs : outputs[i].turn = u /\ outputs[i].outcome # "begun"
        BY <3>2 DEF EndDue
      <4>2. i - 1 \in DOMAIN outputs' /\ outputs'[i - 1] = outputs[i]
        BY <1>3, <3>1, <4>1
      <4> QED
        BY <4>1, <4>2
    <3>3. stream' => active' = native' \/ \E i \in DOMAIN outputs' : outputs'[i].turn = active' /\ outputs'[i].outcome # "begun"
      BY <1>1, <1>2, <1>4, <1>6, <3>1, <3>2 DEF ActiveRuns
    <3>4. ASSUME NEW i \in DOMAIN outputs', outputs'[i].outcome = "begun"
          PROVE  \/ native' = outputs'[i].turn
                 \/ \E j \in DOMAIN outputs' : outputs'[j].turn = outputs'[i].turn /\ outputs'[j].outcome # "begun"
      <4>1. i + 1 \in DOMAIN outputs /\ outputs'[i] = outputs[i + 1]
        BY <1>3
      <4> QED
        BY <1>1, <3>2, <3>4, <4>1 DEF ActiveRuns
    <3> QED
      BY <1>1, <3>3, <3>4 DEF ProjectsAnEnd, ActiveRuns, EndDue
  <2>9. ActiveIsOpen'
    BY <1>1, <1>5, <1>6 DEF ActiveIsOpen
  <2> QED
    BY <2>3, <2>4, <2>5, <2>6, <2>7, <2>8, <2>9
<1> QED
  BY <1>7, <1>8, <1>9

-----------------------------------------------------------------------------
LEMMA InitHolds ==
  ASSUME Init
  PROVE  IInv
<1> USE DEF Init
<1>1. \A c \in Callers : pc[c] = "idle" /\ turnOf[c] = None
  OBVIOUS
<1>2. outputs = <<>> /\ DOMAIN outputs = {} /\ starter = <<>> /\ DOMAIN starter = {}
  OBVIOUS
<1>3. <<>> \in Seq(Callers \cup {"harness"}) /\ <<>> \in Seq([turn : Nat, outcome : Outcomes])
  OBVIOUS
<1>4. Typed
  BY <1>2, <1>3 DEF Typed, States
<1>5. TurnsInOrder
  BY <1>1, <1>2 DEF TurnsInOrder, Executing, NativeRuns, Published, Ordered, EndsAreDue,
                    ProjectsAnEnd, ActiveIsOpen, ActiveRuns
<1>6. ReplacedInTurn
  BY <1>1 DEF ReplacedInTurn, Holder, Reserved, Replaced, ReplacedOnce, Replacing, Callers
<1> QED
  BY <1>4, <1>5, <1>6 DEF IInv

LEMMA NextKeeps ==
  ASSUME IInv, [Next]_vars
  PROVE  IInv'
<1> USE DEF vars, host, harness, consumer, steering, callers
<1>1. CASE UNCHANGED vars
  <2>1. Typed'
    BY <1>1, CallersTyped DEF IInv, Typed
  <2>2. TurnsInOrder'
    BY <1>1, TurnsKept DEF IInv
  <2>3. ReplacedInTurn'
    BY <1>1, ReplacementsKept DEF IInv
  <2> QED
    BY <2>1, <2>2, <2>3 DEF IInv
<1>2. CASE \E c \in Starts : Start(c) \/ ResumeStart(c)
  BY <1>2, StartKeeps, ResumeStartKeeps
<1>3. CASE \E c \in Sends : Send(c)
  BY <1>3, SendKeeps
<1>4. ASSUME NEW s \in Steers, SteerStep(s)
      PROVE  IInv'
  <2>1. CASE \E t \in Turns : Steer(s, t)
    BY <2>1, SteerKeeps
  <2>2. CASE Share(s)
    BY <2>2, ShareKeeps
  <2>3. CASE AnswerCancel(s)
    BY <2>3, AnswerCancelKeeps
  <2>4. CASE AbandonSteer(s)
    BY <2>4, AbandonSteerKeeps
  <2>5. CASE Wake(s)
    BY <2>5, WakeKeeps
  <2>6. CASE ResumeSteer(s)
    BY <2>6, ResumeSteerKeeps
  <2>7. CASE Timeout(s)
    BY <2>7, RejectKeeps DEF Timeout
  <2> QED
    BY <1>4, <2>1, <2>2, <2>3, <2>4, <2>5, <2>6, <2>7 DEF SteerStep
<1>5. CASE \E c \in Callers : Accept(c) \/ Decline(c) \/ Respond(c)
  BY <1>5, AcceptKeeps, DeclineKeeps, RespondKeeps
<1>6. CASE StopOrFault
  BY <1>6, RejectKeeps DEF StopOrFault
<1>7. CASE Close
  BY <1>7, RejectKeeps DEF Close
<1>8. CASE EndNative \/ BeginAutonomous
  BY <1>8, EndNativeKeeps, BeginAutonomousKeeps
<1>9. CASE ProjectEnd \/ Announce \/ ProjectBegin
  BY <1>9, ProjectEndKeeps, AnnounceKeeps, ProjectBeginKeeps
<1>10. CASE EndStream
  BY <1>10, RejectKeeps DEF EndStream
<1> QED
  BY <1>1, <1>2, <1>3, <1>4, <1>5, <1>6, <1>7, <1>8, <1>9, <1>10 DEF Next

\* The Turns and their replacements are always in the order this module describes.
THEOREM Invariance == Spec => []IInv
<1>1. Init => IInv
  BY InitHolds
<1>2. IInv /\ [Next]_vars => IInv'
  BY NextKeeps
<1> QED
  BY <1>1, <1>2, PTL DEF Spec

\* However often a steer is delivered, and whatever receipts are dropped, a Turn is
\* replaced by at most one new Turn (ExternalTurnSteering.steer).
THEOREM AtMostOneReplacement == Spec => []ReplacedOnce
<1>1. IInv => ReplacedOnce
  BY DEF IInv, ReplacedInTurn
<1> QED
  BY <1>1, Invariance, PTL

\* The Host asks a Session to start a Turn only when no Turn it asked for is running
\* there: `active' covers a Turn until the end of it was read.
THEOREM TurnsNeverOverlap == Spec => []NoOverlappingTurns
<1>1. IInv => NoOverlappingTurns
  <2> SUFFICES ASSUME IInv, NEW c \in Callers, pc[c] = "executing", native # None
               PROVE  starter[native] = "harness"
    BY DEF NoOverlappingTurns
  <2>1. native # turnOf[c] /\ active = turnOf[c]
    BY Asked DEF IInv
  <2> QED
    BY <2>1 DEF IInv, TurnsInOrder, NativeRuns
<1> QED
  BY <1>1, Invariance, PTL

\* As long as its outputs are read, Host and Harness agree on the Turn that runs
\* (#projectHarnessOutput clears `running' whatever Turn has ended).
THEOREM HostAndHarnessAgree == Spec => []ActiveMatchesHarness
<1>1. IInv => ActiveMatchesHarness
  <2> SUFFICES ASSUME IInv, stream, native # None, active # native PROVE BeginDue(native)
    BY DEF ActiveMatchesHarness, IInv, TurnsInOrder, ActiveRuns
  <2> QED
    BY DEF IInv, TurnsInOrder, NativeRuns, BeginDue
<1> QED
  BY <1>1, Invariance, PTL

\* A caller that goes elsewhere begins no Turn for s, and none does for another.
LEMMA GoneElsewhere ==
  ASSUME Typed, NEW s \in Steers, pc[s] # "executing", NEW c \in Callers, NEW to, Goto(c, to),
         c # s \/ to # "executing"
  PROVE  pc'[s] # "executing"
BY DEF Typed, Goto, Callers

LEMMA ReplacementBegins ==
  ASSUME IInv, Next, NEW s \in Steers, pc[s] # "executing", pc'[s] = "executing"
  PROVE  /\ pc[s] \in {"waiting", "resolving"} /\ pending.outcome # None /\ Begin(s)
         /\ ~pending.rejected /\ ~closed /\ UNCHANGED <<pending, expected, announced, stream>>
<1> USE DEF consumer, callers
<1>1. Typed /\ \A r \in Steers : r \in Callers
  BY DEF IInv, Callers
<1>2. ASSUME NEW c \in Starts, Start(c) \/ ResumeStart(c)
      PROVE  FALSE
  <2>1. c \in Callers /\ c # s
    BY SteeringAssumption DEF Callers
  <2>2. \E to : Goto(c, to)
    BY <1>2 DEF Start, ResumeStart, Refuse, Resolve, Begin
  <2> QED
    BY <1>1, <2>1, <2>2, GoneElsewhere
<1>3. ASSUME NEW c \in Sends, Send(c)
      PROVE  FALSE
  <2>1. c \in Callers /\ c # s
    BY SteeringAssumption DEF Callers
  <2>2. \E to : Goto(c, to)
    BY <1>3 DEF Send, Refuse, Begin
  <2> QED
    BY <1>1, <2>1, <2>2, GoneElsewhere
<1>4. ASSUME NEW c \in Callers, Accept(c) \/ Decline(c) \/ Respond(c)
      PROVE  FALSE
  <2>1. \E to \in {"accepted", "failed", "done"} : Goto(c, to)
    BY <1>4 DEF Accept, Decline, Respond, GiveUp
  <2> QED
    BY <1>1, <2>1, GoneElsewhere
<1>5. pc' # pc
  OBVIOUS
<1>6. ASSUME NEW r \in Steers, SteerStep(r)
      PROVE  r = s /\ (Wake(s) \/ ResumeSteer(s)) /\ Begin(s)
  <2>1. ASSUME NEW to, Goto(r, to)
        PROVE  r = s /\ to = "executing"
    BY <1>1, <2>1, GoneElsewhere
  <2>2. ASSUME \E t \in Turns : Steer(r, t)
        PROVE  FALSE
    <3>1. \E to \in {"failed", "sharing", "cancelling"} : Goto(r, to)
      BY <2>2 DEF Steer
    <3> QED
      BY <2>1, <3>1
  <2>3. ASSUME Share(r) \/ AnswerCancel(r) \/ AbandonSteer(r)
        PROVE  FALSE
    <3>1. \E to \in {"failed", "done", "waiting"} : Goto(r, to)
      BY <2>3 DEF Share, AnswerCancel, AbandonSteer, GiveUp
    <3> QED
      BY <2>1, <3>1
  <2>4. ASSUME GiveUp(r) \/ Resolve(r)
        PROVE  FALSE
    <3>1. \E to \in {"failed", "resolving"} : Goto(r, to)
      BY <2>4 DEF GiveUp, Resolve
    <3> QED
      BY <2>1, <3>1
  <2>5. ASSUME Wake(r) \/ ResumeSteer(r)
        PROVE  r = s /\ Begin(s)
    <3>1. Begin(r)
      BY <2>4, <2>5 DEF Wake, ResumeSteer
    <3> QED
      BY <2>1, <3>1 DEF Begin
  <2>6. ~Timeout(r)
    BY <1>5 DEF Timeout
  <2> QED
    BY <1>6, <2>2, <2>3, <2>5, <2>6 DEF SteerStep
<1>7. (Wake(s) \/ ResumeSteer(s)) /\ Begin(s)
  <2>1. UNCHANGED callers => FALSE
    BY <1>5
  <2> QED
    BY <1>2, <1>3, <1>4, <1>6, <2>1 DEF Next, StopOrFault, Close, EndNative, BeginAutonomous,
                                        ProjectEnd, Announce, ProjectBegin, EndStream
<1>8. pc'[s] = "executing"
  OBVIOUS
<1>9. ~GiveUp(s) /\ ~Resolve(s)
  BY <1>1, GoneElsewhere DEF GiveUp, Resolve
<1>10. CASE Wake(s)
  <2>1. pc[s] = "waiting" /\ ~pending.rejected /\ pending.outcome # None
        /\ UNCHANGED <<consumer, expected>>
    BY <1>10 DEF Wake
  <2>2. ~closed /\ UNCHANGED pending
    BY <1>9, <1>10 DEF Wake
  <2> QED
    BY <1>7, <2>1, <2>2
<1>11. CASE ResumeSteer(s)
  <2>1. pc[s] = "resolving" /\ ~pending.rejected /\ ~closed
        /\ UNCHANGED <<consumer, expected, pending>>
    BY <1>9, <1>11 DEF ResumeSteer
  <2>2. pending.outcome # None
    BY <2>1 DEF IInv, ReplacedInTurn, Holder, Reserved, Replacing
  <2> QED
    BY <1>7, <2>1, <2>2
<1> QED
  BY <1>7, <1>10, <1>11

\* A steer begins its Turn only after the end of the one it replaces was announced,
\* and never after its replacement was rejected or the outputs were lost.
THEOREM ReplacementsFollowEnds == Spec => ReplacementFollowsEnd
<1> DEFINE Begins == \A s \in Steers :
             pc[s] # "executing" /\ pc'[s] = "executing" =>
               expected[s] \in announced /\ ~pending.rejected /\ ~closed /\ stream
<1>1. IInv /\ [Next]_vars => [Begins]_vars
  <2> SUFFICES ASSUME IInv, Next, NEW s \in Steers,
                      pc[s] # "executing", pc'[s] = "executing"
               PROVE  expected[s] \in announced /\ ~pending.rejected /\ ~closed /\ stream
    OBVIOUS
  <2>1. /\ pc[s] \in {"waiting", "resolving"} /\ pending.outcome # None /\ Begin(s)
        /\ ~pending.rejected /\ ~closed /\ UNCHANGED <<pending, expected, announced, stream>>
    BY ReplacementBegins
  <2> QED
    BY <2>1, SteerBegins DEF IInv
<1> QED
  BY <1>1, Invariance, PTL DEF Spec, ReplacementFollowsEnd
=============================================================================
