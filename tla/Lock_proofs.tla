------------------------------ MODULE Lock_proofs ------------------------------
(***************************************************************************)
(* Proofs about the two locks made of files: SocketLock, the Bakery lock of *)
(* the remote socket, for every set of contenders, every largest ticket and *)
(* any number of crashes; and StoreLock, the process lock of the Mapping    *)
(* Store, for any processes, crashes and contenders.                        *)
(***************************************************************************)
EXTENDS SocketLock, StoreLock, TLAPS

-----------------------------------------------------------------------------
(* SocketLock.                                                             *)

LEMMA TypeInit == Init => TypeOK
<1> SUFFICES ASSUME Init PROVE TypeOK
  OBVIOUS
<1>1. clear \in [Contenders -> BOOLEAN] /\ own \in [Contenders -> BOOLEAN]
  BY Zenon DEF Init
<1> QED BY <1>1, LockAssumption DEF Init, TypeOK, Labels, LockAssumption

\* Taking the guard moves the contender on, and changes no register.
LEMMA TakeGuardMoves ==
  ASSUME NEW c \in Contenders, TakeGuard(c)
  PROVE  /\ pc[c] = "guard"
         /\ Goto(c, "inside") \/ Goto(c, "legacy")
         /\ guard' = guard \/ guard' = c
         /\ guardAged' = guardAged \/ guardAged' \in BOOLEAN
         /\ UNCHANGED <<register, todo, ticket, clear, own, doomed, aged, lapses>>
BY Zenon DEF TakeGuard, memory

LEMMA TypeStep == TypeOK /\ [Next]_vars => TypeOK'
<1> SUFFICES ASSUME TypeOK, [Next]_vars PROVE TypeOK'
  OBVIOUS
<1> USE LockAssumption DEF LockAssumption, TypeOK, Labels, Goto, memory, clocks, DropCatalog
<1>1. CASE AgeGuard
  BY <1>1 DEF AgeGuard
<1>2. ASSUME NEW c \in Contenders, Crash(c) PROVE TypeOK'
  BY <1>2 DEF Crash
<1>3. ASSUME NEW c \in Contenders, Age(c) PROVE TypeOK'
  BY <1>3 DEF Age
<1>4. ASSUME NEW c \in Contenders, Step(c) PROVE TypeOK'
  <2>1. CASE Enter(c)
    BY <2>1 DEF Enter
  <2>2. CASE List(c)
    BY <2>2 DEF List
  <2>3. CASE Unlink(c)
    BY <2>3 DEF Unlink
  <2>4. CASE Publish(c)
    BY <2>4 DEF Publish
  <2>5. CASE Overflow(c)
    BY <2>5 DEF Overflow
  <2>6. CASE Decide(c)
    BY <2>6 DEF Decide
  <2>7. ASSUME NEW d \in Contenders, ReadNothing(c, d) PROVE TypeOK'
    BY <2>7 DEF ReadNothing, Reads
  <2>8. ASSUME NEW d \in Contenders, ReadEntry(c, d) PROVE TypeOK'
    <3>1. (clear' \in [Contenders -> BOOLEAN]) /\ (own' \in [Contenders -> BOOLEAN])
      BY <2>8, Zenon DEF ReadEntry
    <3>2. ticket' \in [Contenders -> Nat]
      BY <2>8 DEF ReadEntry
    <3> QED BY <2>8, <3>1, <3>2 DEF ReadEntry, Reads
  <2>9. ASSUME NEW d \in Contenders, ReadAbandoned(c, d) PROVE TypeOK'
    <3>1. clear' \in [Contenders -> BOOLEAN]
      BY <2>9, Zenon DEF ReadAbandoned
    <3>2. doomed' \in [Contenders -> Contenders \cup {Absent}]
      BY <2>9 DEF ReadAbandoned
    <3>3. Reads(c, d) /\ UNCHANGED <<ticket, own>>
      BY <2>9, Zenon DEF ReadAbandoned
    <3> QED BY <3>1, <3>2, <3>3 DEF Reads
  <2>10. CASE TakeGuard(c)
    BY <2>10, TakeGuardMoves
  <2>11. CASE ReadGuard(c)
    BY <2>11 DEF ReadGuard
  <2>12. CASE EndAction(c)
    BY <2>12 DEF EndAction
  <2>13. CASE Leave(c)
    BY <2>13 DEF Leave
  <2> QED BY <1>4, <2>1, <2>2, <2>3, <2>4, <2>5, <2>6, <2>7, <2>8, <2>9, <2>10,
             <2>11, <2>12, <2>13 DEF Step
<1>5. CASE UNCHANGED vars
  BY <1>5 DEF vars
<1> QED BY <1>1, <1>2, <1>3, <1>4, <1>5 DEF Next

\* The state is well-typed.
THEOREM TypeCorrect == Spec => []TypeOK
<1> QED BY TypeInit, TypeStep, PTL DEF Spec

-----------------------------------------------------------------------------
(* The inductive invariant, for the time in which no live contender has     *)
(* been taken for abandoned.                                               *)

Ticketed(c) == pc[c] \in {"waiting", "scan", "guard", "legacy", "inside"}

\* Registers are what their live owners last wrote.
RegistersHold ==
  \A c \in Contenders :
    /\ pc[c] \in {"choosing", "maximum"} => register[c] = 0
    /\ Ticketed(c) => register[c] = ticket[c]

DoomedAreDead == \A c \in Contenders : doomed[c] # Absent => pc[doomed[c]] = "crashed"

\* The catalog of a scan holds the register of the contender itself.
OwnIsRead ==
  \A c \in Contenders :
    /\ pc[c] = "scan" => c \in todo[c] \/ own[c]
    /\ pc[c] # "lost"

\* c has found nothing in the way of d that would hold it back.
Passed(c, d) ==
  /\ c # d
  /\ \/ pc[c] \in {"guard", "legacy", "inside"}
     \/ pc[c] = "scan" /\ clear[c] /\ d \notin todo[c]

Before(c, d) == ticket[c] < ticket[d] \/ (ticket[c] = ticket[d] /\ c < d)

\* Whoever has been passed has a later ticket, or will choose one.
PassedComeLater ==
  \A c, d \in Contenders : Passed(c, d) =>
    /\ Ticketed(d) => Before(c, d)
    /\ pc[d] = "maximum" => c \in todo[d] \/ ticket[c] <= ticket[d]

Bakery ==
  aged = {} /\ RegistersHold /\ DoomedAreDead /\ OwnIsRead /\ PassedComeLater

LEMMA BakeryInit == Init => Bakery
<1> QED BY LockAssumption
    DEF Init, Bakery, RegistersHold, DoomedAreDead, OwnIsRead, PassedComeLater, Ticketed, Passed

LEMMA BakeryStep ==
  ASSUME TypeOK, Bakery, [Next]_vars, lapses = 0, lapses' = 0
  PROVE  Bakery'
<1>0. TypeOK'
  BY TypeStep
<1> USE <1>0, LockAssumption
<1> USE DEF LockAssumption, TypeOK, Bakery, RegistersHold, DoomedAreDead, OwnIsRead, PassedComeLater,
            Ticketed, Passed, Before, Goto, memory, clocks, DropCatalog
<1>1. CASE AgeGuard
  BY <1>1 DEF AgeGuard
<1>2. ASSUME NEW c \in Contenders, Crash(c) PROVE Bakery'
  BY <1>2 DEF Crash
<1>3. ASSUME NEW c \in Contenders, Age(c) PROVE Bakery'
  BY <1>3 DEF Age
<1>4. ASSUME NEW c \in Contenders, Step(c) PROVE Bakery'
  <2>1. CASE Enter(c)
    BY <2>1 DEF Enter
  <2>2. CASE List(c)
    <3>1. RegistersHold'
      BY <2>2 DEF List
    <3>4. (aged = {})'
      BY <2>2 DEF List
    <3>5. DoomedAreDead'
      <4>1. \A a \in Contenders : pc[a] = "crashed" => pc'[a] = "crashed"
        BY <2>2 DEF List
      <4>2. doomed' = doomed
        BY <2>2 DEF List
      <4> QED BY <4>1, <4>2
    <3>2. OwnIsRead'
      BY <2>2 DEF List
    <3>3. PassedComeLater'
      <4> SUFFICES ASSUME NEW a \in Contenders, NEW b \in Contenders, Passed(a, b)'
                   PROVE  ((Ticketed(b) => Before(a, b))
                           /\ (pc[b] = "maximum" => a \in todo[b] \/ ticket[a] <= ticket[b]))'
        BY Zenon DEF PassedComeLater
      <4>1. CASE a = c
        BY <2>2, <4>1 DEF List
      <4>2. CASE a # c
        <5>1. Passed(a, b)
          BY <2>2, <4>2 DEF List
        <5>2. register[a] # Absent
          BY <5>1
        <5> QED BY <2>2, <4>2, <5>1, <5>2 DEF List
      <4> QED BY <4>1, <4>2
    <3> QED BY <3>1, <3>2, <3>3, <3>4, <3>5, Zenon DEF Bakery
  <2>3. CASE Unlink(c)
    <3>1. UNCHANGED <<pc, ticket, todo, clear, own, aged>>
      BY <2>3 DEF Unlink
    <3>2. \A a \in Contenders : pc[a] # "crashed" => register'[a] = register[a]
      BY <2>3 DEF Unlink
    <3>3. DoomedAreDead'
      BY <2>3 DEF Unlink
    <3>4. RegistersHold' /\ OwnIsRead'
      BY <3>1, <3>2
    <3>5. PassedComeLater'
      BY <3>1 DEF PassedComeLater
    <3> QED BY <3>1, <3>3, <3>4, <3>5, Zenon DEF Bakery
  <2>4. CASE Publish(c)
    BY <2>4 DEF Publish, CatalogRead
  <2>5. CASE Overflow(c)
    BY <2>5 DEF Overflow
  <2>6. CASE Decide(c)
    <3>1. RegistersHold'
      BY <2>6 DEF Decide
    <3>4. (aged = {})'
      BY <2>6 DEF Decide
    <3>5. DoomedAreDead'
      <4>1. \A a \in Contenders : pc[a] = "crashed" => pc'[a] = "crashed"
        BY <2>6 DEF Decide
      <4>2. doomed' = doomed
        BY <2>6 DEF Decide
      <4> QED BY <4>1, <4>2
    <3>2. OwnIsRead'
      BY <2>6 DEF Decide, CatalogRead
    <3>3. PassedComeLater'
      <4> SUFFICES ASSUME NEW a \in Contenders, NEW b \in Contenders, Passed(a, b)'
                   PROVE  ((Ticketed(b) => Before(a, b))
                           /\ (pc[b] = "maximum" => a \in todo[b] \/ ticket[a] <= ticket[b]))'
        BY Zenon DEF PassedComeLater
      <4>1. Passed(a, b)
        <5>1. CASE a = c
          BY <2>6, <5>1 DEF Decide, CatalogRead
        <5>2. CASE a # c
          BY <2>6, <5>2 DEF Decide
        <5> QED BY <5>1, <5>2
      <4> QED BY <2>6, <4>1 DEF Decide
    <3> QED BY <3>1, <3>2, <3>3, <3>4, <3>5, Zenon DEF Bakery
  <2>7. ASSUME NEW d \in Contenders, ReadNothing(c, d) PROVE Bakery'
    BY <2>7 DEF ReadNothing, Reads
  <2>8. ASSUME NEW d \in Contenders, ReadEntry(c, d) PROVE Bakery'
    BY <2>8 DEF ReadEntry, Reads, Blocks, Priority
  <2>9. ASSUME NEW d \in Contenders, ReadAbandoned(c, d) PROVE Bakery'
    BY <2>9 DEF ReadAbandoned, Reads, MayBeAbandoned, Dead
  <2>10. CASE TakeGuard(c)
    <3>1. RegistersHold'
      BY <2>10, TakeGuardMoves
    <3>4. (aged = {})'
      BY <2>10, TakeGuardMoves
    <3>5. DoomedAreDead'
      <4>1. \A a \in Contenders : pc[a] = "crashed" => pc'[a] = "crashed"
        BY <2>10, TakeGuardMoves
      <4>2. doomed' = doomed
        BY <2>10, TakeGuardMoves, Zenon
      <4> QED BY <4>1, <4>2
    <3>2. OwnIsRead'
      BY <2>10, TakeGuardMoves
    <3>3. PassedComeLater'
      <4> SUFFICES ASSUME NEW a \in Contenders, NEW b \in Contenders, Passed(a, b)'
                   PROVE  ((Ticketed(b) => Before(a, b))
                           /\ (pc[b] = "maximum" => a \in todo[b] \/ ticket[a] <= ticket[b]))'
        BY Zenon DEF PassedComeLater
      <4>1. Passed(a, b)
        BY <2>10, TakeGuardMoves
      <4> QED BY <2>10, <4>1, TakeGuardMoves
    <3> QED BY <3>1, <3>2, <3>3, <3>4, <3>5, Zenon DEF Bakery
  <2>11. CASE ReadGuard(c)
    <3>1. RegistersHold'
      BY <2>11 DEF ReadGuard
    <3>4. (aged = {})'
      BY <2>11 DEF ReadGuard
    <3>5. DoomedAreDead'
      BY <2>11 DEF ReadGuard
    <3>2. OwnIsRead'
      BY <2>11 DEF ReadGuard
    <3>3. PassedComeLater'
      <4> SUFFICES ASSUME NEW a \in Contenders, NEW b \in Contenders, Passed(a, b)'
                   PROVE  ((Ticketed(b) => Before(a, b))
                           /\ (pc[b] = "maximum" => a \in todo[b] \/ ticket[a] <= ticket[b]))'
        BY Zenon DEF PassedComeLater
      <4>1. Passed(a, b)
        BY <2>11 DEF ReadGuard
      <4> QED BY <2>11, <4>1 DEF ReadGuard
    <3> QED BY <3>1, <3>2, <3>3, <3>4, <3>5, Zenon DEF Bakery
  <2>12. CASE EndAction(c)
    BY <2>12 DEF EndAction
  <2>13. CASE Leave(c)
    BY <2>13 DEF Leave
  <2> QED BY <1>4, <2>1, <2>2, <2>3, <2>4, <2>5, <2>6, <2>7, <2>8, <2>9, <2>10,
             <2>11, <2>12, <2>13 DEF Step
<1>5. CASE UNCHANGED vars
  BY <1>5 DEF vars
<1> QED BY <1>1, <1>2, <1>3, <1>4, <1>5 DEF Next

IInv == TypeOK /\ (lapses = 0 => Bakery)

LEMMA IInvHolds == Spec => []IInv
<1>1. Init => IInv
  BY TypeInit, BakeryInit DEF IInv
<1>2. IInv /\ [Next]_vars => IInv'
  <2> SUFFICES ASSUME IInv, [Next]_vars, lapses' = 0 PROVE Bakery'
    BY TypeStep DEF IInv
  <2>1. lapses = 0
    <3>1. lapses' = lapses \/ lapses' = lapses + 1
      BY DEF Next, Step, vars, clocks, memory, AgeGuard, Crash, Age, Enter, List, Unlink, Publish, Overflow,
             Decide, Reads, ReadNothing, ReadEntry, ReadAbandoned, TakeGuard, ReadGuard, EndAction, Leave
    <3> QED BY <3>1 DEF IInv, TypeOK
  <2> QED BY <2>1, BakeryStep DEF IInv
<1> QED BY <1>1, <1>2, PTL DEF Spec

\* Mutual exclusion: two contenders never bind or unlink the socket at once while no
\* live contender has been taken for abandoned.
THEOREM Exclusion == Spec => []ExclusiveUnlessLapsed
<1>1. IInv => ExclusiveUnlessLapsed
  BY LockAssumption DEF LockAssumption, IInv, TypeOK, Bakery, PassedComeLater, Passed, Ticketed, Before,
     ExclusiveUnlessLapsed
<1> QED BY <1>1, IInvHolds, PTL

\* No contender gives up because its own register is gone, unless someone was slow.
THEOREM OwnershipKept == Spec => []OwnershipLostOnlyIfLapsed
<1>1. IInv => OwnershipLostOnlyIfLapsed
  BY DEF IInv, TypeOK, Bakery, OwnIsRead, OwnershipLostOnlyIfLapsed
<1> QED BY <1>1, IInvHolds, PTL

\* While no live contender was taken for abandoned, the registers of live contenders
\* go only when their owners return.
THEOREM LiveRegisters == Spec => LiveRegistersStay
<1>1. IInv /\ [Next]_vars =>
        [\A c \in Contenders :
           register[c] # Absent /\ register'[c] = Absent
             => c \in Dead \/ pc'[c] = "done" \/ lapses > 0]_vars
  <2> SUFFICES ASSUME IInv, [Next]_vars, NEW c \in Contenders, lapses = 0,
                      register[c] # Absent, register'[c] = Absent
               PROVE  c \in Dead \/ pc'[c] = "done"
    BY DEF IInv, TypeOK
  <2> USE LockAssumption DEF LockAssumption, IInv, TypeOK, Goto, Dead
  <2>1. PICK b \in Contenders : Enter(b) \/ Publish(b) \/ Unlink(b) \/ Leave(b)
    BY DEF Next, Step, vars, AgeGuard, Crash, Age, List, Overflow, Decide, Reads, ReadNothing,
           ReadEntry, ReadAbandoned, TakeGuard, ReadGuard, EndAction
  <2>2. CASE Unlink(b)
    BY <2>2 DEF Unlink, Bakery, DoomedAreDead
  <2>3. CASE Leave(b)
    BY <2>3 DEF Leave
  <2>4. CASE Enter(b) \/ Publish(b)
    BY <2>4 DEF Enter, Publish
  <2> QED BY <2>1, <2>2, <2>3, <2>4
<1> QED BY <1>1, IInvHolds, PTL DEF Spec, LiveRegistersStay

-----------------------------------------------------------------------------
\* The guard of a contender lies there only while it runs its action, or has died.
GuardsHeld ==
  \A c \in Contenders :
    /\ guard = c => pc[c] \in {"inside", "crashed"}
    /\ pc[c] = "done" => register[c] = Absent

\* A contender that has returned leaves nothing behind, however often it or others
\* were taken for abandoned.
THEOREM ReturnClean == Spec => []ReturnLeavesNothing
<1> USE LockAssumption DEF LockAssumption, TypeOK, GuardsHeld, Goto
<1>1. Init => GuardsHeld
  BY DEF Init
<1>2. TypeOK /\ TypeOK' /\ GuardsHeld /\ [Next]_vars => GuardsHeld'
  <2> SUFFICES ASSUME TypeOK, TypeOK', GuardsHeld, [Next]_vars PROVE GuardsHeld'
    OBVIOUS
  <2>1. ASSUME NEW c \in Contenders, Step(c) PROVE GuardsHeld'
    <3>1. ASSUME NEW d \in Contenders, ReadNothing(c, d) \/ ReadEntry(c, d) \/ ReadAbandoned(c, d)
          PROVE  GuardsHeld'
      BY <3>1 DEF ReadNothing, ReadEntry, ReadAbandoned, Reads
    <3>2. CASE List(c) \/ Overflow(c) \/ Decide(c)
      BY <3>2 DEF List, Overflow, Decide
    <3>3. CASE Enter(c) \/ Unlink(c) \/ Publish(c) \/ Leave(c)
      BY <3>3 DEF Enter, Unlink, Publish, Leave
    <3>4. CASE TakeGuard(c)
      BY <3>4 DEF TakeGuard
    <3>5. CASE ReadGuard(c) \/ EndAction(c)
      BY <3>5 DEF ReadGuard, EndAction
    <3> QED BY <2>1, <3>1, <3>2, <3>3, <3>4, <3>5 DEF Step
  <2>2. ASSUME NEW c \in Contenders, Crash(c) \/ Age(c) PROVE GuardsHeld'
    BY <2>2 DEF Crash, Age
  <2>3. CASE AgeGuard \/ UNCHANGED vars
    BY <2>3 DEF AgeGuard, vars
  <2> QED BY <2>1, <2>2, <2>3 DEF Next
<1>3. TypeOK /\ GuardsHeld => ReturnLeavesNothing
  BY DEF ReturnLeavesNothing
<1> QED BY <1>1, <1>2, <1>3, TypeCorrect, PTL DEF Spec

-----------------------------------------------------------------------------
(* StoreLock: a written lock names a process that owns the Store, releases  *)
(* it, is dead, or failed to remove it; and, unless acquisitions overlapped, *)
(* owners exclude each other and nobody is refused but by such a lock.       *)

\* Acquisitions are serial: one process acquires at a time, and finds a lock that it has
\* renamed aside only if the rename failed.
Serial ==
  /\ \A p, q \in Processes : place[p] \in Acquiring /\ place[q] \in Acquiring => p = q
  /\ \A p \in Processes : place[p] = "reopen" => lock = NoLock \/ lock.by \in kept

SerialInv == ~overlapped => Serial

\* As long as live owners can be read as well, whoever owns or releases the Store has its
\* name in the lock, a process writes the empty lock it created, and nobody holds the
\* Store when a lock is renamed aside.
Sole ==
  /\ \A p \in Processes : place[p] \in Holding => lock = [by |-> p, written |-> TRUE]
  /\ \A p \in Processes : place[p] = "write" => lock = [by |-> p, written |-> FALSE]
  /\ \A p, q \in Processes : place[p] \in {"steal", "reopen"} => place[q] \notin Holding

SoleInv == ~overlapped /\ ~misread => Sole

-----------------------------------------------------------------------------
\* A lock that exists is not the value for no lock.
LEMMA LockExists ==
  ASSUME NEW p \in Processes, NEW b \in BOOLEAN, NEW l, l = [by |-> p, written |-> b]
  PROVE  l # NoLock /\ l.by = p /\ l.written = b
<1>1. l \in [by : Processes, written : BOOLEAN]
      OBVIOUS
<1> QED BY <1>1, StoreLockAssumption

\* Initially the state is typed.
LEMMA InitTypeOK == LockInit => LockTypeOK
<1> SUFFICES ASSUME LockInit PROVE LockTypeOK
    OBVIOUS
<1>1. place \in [Processes -> {"out", "own", "refused", "dead"} \cup Acquiring \cup Releasing]
      BY DEF LockInit
<1>2. lock = NoLock /\ reused = {} /\ kept = {} /\ overlapped \in BOOLEAN /\ misread \in BOOLEAN
      BY DEF LockInit
<1>3. crashes \in 0..MaxCrashes /\ failures \in 0..MaxFailures
      BY StoreLockAssumption DEF LockInit
<1> QED BY <1>1, <1>2, <1>3 DEF LockTypeOK

\* What a process writes is a lock.
LEMMA ContentIsLock ==
  ASSUME LockTypeOK, NEW p \in Processes
  PROVE  Content(p) \in [by : Processes, written : BOOLEAN] \cup {NoLock}
BY DEF Content, LockTypeOK

\* Inspecting a lock ends in one of two ways.
LEMMA InspectMoves ==
  ASSUME NEW p \in Processes, Inspect(p) \/ FailInspect(p)
  PROVE  /\ place[p] = "inspect"
         /\ place' = [place EXCEPT ![p] = "refused"] \/ place' = [place EXCEPT ![p] = "steal"]
         /\ UNCHANGED <<lock, reused, crashes, overlapped, kept>>
         /\ failures' = failures \/ Fails
         /\ misread' = misread \/ misread' \in BOOLEAN
<1>1. CASE Inspect(p)
  <2>1. PICK live : MoveTo(p, IF live THEN "refused" ELSE "steal")
        BY <1>1 DEF Inspect
  <2> QED BY <1>1, <2>1 DEF Inspect, MoveTo
<1>2. CASE FailInspect(p)
  BY <1>2 DEF FailInspect, MoveTo
<1> QED BY <1>1, <1>2

\* Every step keeps the state typed.
LEMMA NextTypeOK == LockTypeOK /\ [LockNext]_lockVars => LockTypeOK'
<1> SUFFICES ASSUME LockTypeOK, [LockNext]_lockVars PROVE LockTypeOK'
    OBVIOUS
<1> USE StoreLockAssumption DEF LockTypeOK, MoveTo, Acquiring, Releasing, Fails
<1>1. CASE UNCHANGED lockVars
      BY <1>1 DEF lockVars
<1>2. ASSUME NEW p \in Processes, Start(p) PROVE LockTypeOK'
      BY <1>2 DEF Start
<1>3. ASSUME NEW p \in Processes, Create(p) PROVE LockTypeOK'
      <2>1. [by |-> p, written |-> FALSE] \in [by : Processes, written : BOOLEAN]
            OBVIOUS
      <2>2. lock' \in [by : Processes, written : BOOLEAN] \cup {NoLock}
            BY <2>1, <1>3 DEF Create
      <2> QED BY <2>2, <1>3 DEF Create
<1>4. ASSUME NEW p \in Processes, FailOpen(p) PROVE LockTypeOK'
      BY <1>4 DEF FailOpen
<1>5. ASSUME NEW p \in Processes, Open(p) \/ Reopen(p) PROVE LockTypeOK'
      BY <1>3, <1>4, <1>5 DEF Open, Reopen, Found
<1>6. ASSUME NEW p \in Processes, Inspect(p) \/ FailInspect(p) PROVE LockTypeOK'
      BY <1>6, InspectMoves
<1>7. ASSUME NEW p \in Processes, Steal(p) \/ FailSteal(p) PROVE LockTypeOK'
      BY <1>7 DEF Steal, FailSteal
<1>8. ASSUME NEW p \in Processes, Write(p) \/ FailWrite(p) PROVE LockTypeOK'
      <2> HIDE DEF LockTypeOK
      <2>1. Content(p) \in [by : Processes, written : BOOLEAN] \cup {NoLock}
            BY ContentIsLock
      <2> QED BY <2>1, <1>8 DEF Write, FailWrite, LockTypeOK
<1>9. ASSUME NEW p \in Processes, Close(p) \/ Release(p) \/ UnlinkLock(p) \/ FailRelease(p)
      PROVE  LockTypeOK'
      BY <1>9 DEF Close, Release, UnlinkLock, FailRelease
<1>10. ASSUME NEW p \in Processes, Die(p) \/ ReusePid(p) PROVE LockTypeOK'
      BY <1>10 DEF Die, ReusePid, Alive
<1> QED
    BY <1>1, <1>2, <1>5, <1>6, <1>7, <1>8, <1>9, <1>10 DEF LockNext

\* Whatever processes do and however they die, the lock file is absent or names a
\* process, and each process is where #acquireLock or close put it.
THEOREM LockTypeCorrect == LockSpec => []LockTypeOK
<1> QED BY InitTypeOK, NextTypeOK, PTL DEF LockSpec

-----------------------------------------------------------------------------
\* Every step keeps the name in a written lock right.
LEMMA NextLockNamesHolder ==
  LockTypeOK /\ LockNamesHolder /\ [LockNext]_lockVars => LockNamesHolder'
<1> SUFFICES ASSUME LockTypeOK, LockNamesHolder, [LockNext]_lockVars, Written'
             PROVE  (place[lock.by] \in Holding \cup {"dead"} \/ lock.by \in kept)'
    BY DEF LockNamesHolder
<1> DEFINE Goal == (place[lock.by] \in Holding \cup {"dead"} \/ lock.by \in kept)'
<1> USE StoreLockAssumption
    DEF LockTypeOK, LockNamesHolder, MoveTo, Acquiring, Releasing, Holding, Written, Fails
<1>1. CASE UNCHANGED lockVars
      BY <1>1 DEF lockVars
<1>2. ASSUME NEW p \in Processes, Start(p) PROVE Goal
      BY <1>2 DEF Start
<1>3. ASSUME NEW p \in Processes, Create(p) PROVE Goal
      BY <1>3 DEF Create
<1>4. ASSUME NEW p \in Processes, Open(p) \/ Reopen(p) PROVE Goal
      BY <1>3, <1>4 DEF Open, Reopen, Found, FailOpen
<1>5. ASSUME NEW p \in Processes, Inspect(p) \/ FailInspect(p) PROVE Goal
      BY <1>5, InspectMoves
<1>6. ASSUME NEW p \in Processes, Steal(p) \/ FailSteal(p) PROVE Goal
      BY <1>6 DEF Steal, FailSteal
<1>7. ASSUME NEW p \in Processes, Write(p) \/ FailWrite(p) PROVE Goal
      BY <1>7 DEF Write, FailWrite, Content
<1>8. ASSUME NEW p \in Processes, Close(p) \/ Release(p) \/ UnlinkLock(p) PROVE Goal
      BY <1>8 DEF Close, Release, UnlinkLock
<1>9. ASSUME NEW p \in Processes, FailRelease(p) PROVE Goal
      BY <1>9 DEF FailRelease
<1>10. ASSUME NEW p \in Processes, Die(p) \/ ReusePid(p) PROVE Goal
      BY <1>10 DEF Die, ReusePid, Alive
<1> QED
    BY <1>1, <1>2, <1>4, <1>5, <1>6, <1>7, <1>8, <1>9, <1>10 DEF LockNext

\* However acquisitions, releases, failures and crashes interleave, a written lock names
\* its holder, a dead process, or one whose own removal or sync of it failed.
THEOREM LockNamesItsHolder == LockSpec => []LockNamesHolder
<1>1. LockInit => LockNamesHolder
      BY DEF LockInit, LockNamesHolder, Written
<1> QED BY <1>1, LockTypeCorrect, NextLockNamesHolder, PTL DEF LockSpec

-----------------------------------------------------------------------------
(* The serial invariant: it needs that acquisitions do not overlap.        *)

\* A process enters #acquireLock.  If another is inside, the histories overlap.
LEMMA StartIsAlone ==
  ASSUME NEW p \in Processes, Start(p), ~overlapped'
  PROVE  /\ ~overlapped /\ \A q \in Processes : place[q] \notin Acquiring
         /\ place' = [place EXCEPT ![p] = "open"]
         /\ UNCHANGED <<lock, kept, misread>>
<1>1. ~overlapped /\ Acquirers = {}
      BY Zenon DEF Start
<1>2. \A q \in Processes : place[q] \notin Acquiring
      BY <1>1 DEF Acquirers
<1> QED BY <1>1, <1>2 DEF Start, MoveTo

\* Every step keeps the serial invariant.
LEMMA NextSerialInv == LockTypeOK /\ SerialInv /\ [LockNext]_lockVars => SerialInv'
<1> SUFFICES ASSUME LockTypeOK, SerialInv, [LockNext]_lockVars, ~overlapped' PROVE Serial'
    BY DEF SerialInv
<1>1. CASE \E p \in Processes : Start(p)
  <2>1. PICK p \in Processes : Start(p)
        BY <1>1
  <2>2. Serial
        BY <2>1, StartIsAlone DEF SerialInv
  <2> QED BY <2>1, <2>2, StartIsAlone DEF Serial, LockTypeOK, Acquiring
<1>2. CASE ~\E p \in Processes : Start(p)
  <2>1. Serial
        BY <1>2 DEF SerialInv, LockNext, lockVars, Open, Create, Found, FailOpen, Inspect, FailInspect,
           Steal, FailSteal, Reopen, Write, FailWrite, Close, Release, UnlinkLock, FailRelease, Die,
           ReusePid
  <2> USE <2>1, StoreLockAssumption DEF Serial, LockTypeOK, MoveTo, Acquiring, Releasing
  <2>2. CASE UNCHANGED lockVars
        BY <2>2 DEF lockVars
  <2>3. ASSUME NEW p \in Processes, Create(p), place[p] \in {"open", "reopen"} PROVE Serial'
        BY <2>3 DEF Create
  <2>4. ASSUME NEW p \in Processes, Open(p) \/ Reopen(p) PROVE Serial'
        BY <2>3, <2>4 DEF Open, Reopen, Found, FailOpen
  <2>5. ASSUME NEW p \in Processes, Inspect(p) \/ FailInspect(p) PROVE Serial'
        BY <2>5, InspectMoves
  <2>6. ASSUME NEW p \in Processes, Steal(p) \/ FailSteal(p) PROVE Serial'
        BY <2>6 DEF Steal, FailSteal
  <2>7. ASSUME NEW p \in Processes, Write(p) \/ FailWrite(p) PROVE Serial'
        BY <2>7 DEF Write, FailWrite, Content
  <2>8. ASSUME NEW p \in Processes, Close(p) \/ Release(p) PROVE Serial'
        BY <2>8 DEF Close, Release
  <2>9. ASSUME NEW p \in Processes, UnlinkLock(p) \/ FailRelease(p) PROVE Serial'
        BY <2>9 DEF UnlinkLock, FailRelease
  <2>10. ASSUME NEW p \in Processes, Die(p) \/ ReusePid(p) PROVE Serial'
        BY <2>10 DEF Die, ReusePid
  <2> QED BY <1>2, <2>2, <2>4, <2>5, <2>6, <2>7, <2>8, <2>9, <2>10 DEF LockNext
<1> QED BY <1>1, <1>2

\* The serial invariant holds of every behaviour.
LEMMA AlwaysSerial == LockSpec => []SerialInv
<1>1. LockInit => SerialInv
      BY DEF LockInit, SerialInv, Serial, Acquiring
<1> QED BY <1>1, LockTypeCorrect, NextSerialInv, PTL DEF LockSpec

-----------------------------------------------------------------------------
(* The sole invariant: it needs that live owners can be read as well.      *)

\* A lock is taken for stale only when nobody holds it.
LEMMA StaleIsUnheld ==
  ASSUME LockTypeOK, Sole, NEW p \in Processes, Inspect(p) \/ FailInspect(p), ~misread',
         place'[p] = "steal"
  PROVE  \A q \in Processes : place[q] \notin Holding
<1> SUFFICES ASSUME NEW q \in Processes, place[q] \in Holding PROVE FALSE
    OBVIOUS
<1>1. lock = [by |-> q, written |-> TRUE]
      BY DEF Sole
<1>2. Written /\ lock.by = q
      BY <1>1, LockExists DEF Written
<1>3. Alive(q)
      BY DEF Alive, Holding, Releasing
<1>4. CASE Inspect(p)
  <2>1. PICK live \in {TRUE} : MoveTo(p, IF live THEN "refused" ELSE "steal")
        BY <1>2, <1>3, <1>4 DEF Inspect, OwnerIsLive
  <2> QED BY <2>1 DEF MoveTo, LockTypeOK
<1>5. CASE FailInspect(p)
      BY <1>2, <1>3, <1>5 DEF FailInspect
<1> QED BY <1>4, <1>5

\* The lock is created where nobody holds the Store.
LEMMA CreateKeepsSole ==
  ASSUME LockTypeOK, Serial, Sole, NEW p \in Processes, place[p] \in {"open", "reopen"}, Create(p)
  PROVE  Sole'
<1>1. /\ place' = [place EXCEPT ![p] = "write"]
      /\ lock = NoLock /\ lock' = [by |-> p, written |-> FALSE]
      BY DEF Create, MoveTo
<1>2. \A q \in Processes : place[q] \notin Holding
  <2>1. \A q \in Processes : NoLock # [by |-> q, written |-> TRUE]
        BY LockExists
  <2> QED BY <1>1, <2>1 DEF Sole
<1>3. \A q \in Processes : q # p => place[q] \notin Acquiring
      BY DEF Serial, Acquiring
<1> QED BY <1>1, <1>2, <1>3 DEF Sole, LockTypeOK, Acquiring, Releasing, Holding

\* The creator of the lock writes it, and owns the Store unless that fails.
LEMMA WriteKeepsSole ==
  ASSUME LockTypeOK, Serial, Sole, NEW p \in Processes, Write(p) \/ FailWrite(p)
  PROVE  Sole'
<1>1. place[p] = "write" /\ lock = [by |-> p, written |-> FALSE]
      BY DEF Write, FailWrite, Sole
<1>2. Content(p) = [by |-> p, written |-> TRUE]
  <2>1. lock # NoLock /\ lock.by = p
        BY <1>1, LockExists
  <2> QED BY <1>1, <2>1 DEF Content
<1>3. \A q \in Processes : place[q] \notin Holding
  <2>1. \A q \in Processes : lock # [by |-> q, written |-> TRUE]
        BY <1>1
  <2> QED BY <2>1 DEF Sole
<1>4. \A q \in Processes : q # p => place[q] \notin Acquiring
      BY <1>1 DEF Serial, Acquiring
<1>5. CASE Write(p)
      BY <1>2, <1>3, <1>4, <1>5 DEF Write, MoveTo, Sole, LockTypeOK, Acquiring, Releasing, Holding
<1>6. CASE FailWrite(p)
  <2>1. \A q \in Processes : place'[q] \notin Holding /\ place'[q] \notin Acquiring
        BY <1>3, <1>4, <1>6 DEF FailWrite, MoveTo, LockTypeOK, Acquiring, Releasing, Holding
  <2> QED BY <2>1 DEF Sole, Acquiring
<1> QED BY <1>5, <1>6

\* Every step keeps the sole invariant.
LEMMA NextSoleInv ==
  LockTypeOK /\ SerialInv /\ SoleInv /\ [LockNext]_lockVars => SoleInv'
<1> SUFFICES ASSUME LockTypeOK, SerialInv, SoleInv, [LockNext]_lockVars, ~overlapped', ~misread'
             PROVE  Sole'
    BY DEF SoleInv
<1>1. CASE \E p \in Processes : Start(p)
  <2>1. PICK p \in Processes : Start(p)
        BY <1>1
  <2>2. ~overlapped /\ ~misread
        BY <2>1, StartIsAlone
  <2>3. Sole
        BY <2>2 DEF SoleInv
  <2>4. /\ \A q \in Processes : place[q] \notin Acquiring
        /\ place' = [place EXCEPT ![p] = "open"] /\ lock' = lock
        BY <2>1, StartIsAlone
  <2> QED BY <2>3, <2>4 DEF Sole, LockTypeOK, Acquiring, Releasing, Holding
<1>2. CASE ~\E p \in Processes : Start(p)
  <2>1. overlapped' = overlapped
        BY <1>2 DEF LockNext, lockVars, Open, Create, Found, FailOpen, Inspect, FailInspect,
           Steal, FailSteal, Reopen, Write, FailWrite, Close, Release, UnlinkLock, FailRelease, Die,
           ReusePid
  <2>a. ~misread
    <3>1. CASE \E p \in Processes : FailInspect(p)
          BY <3>1 DEF FailInspect
    <3>2. CASE ~\E p \in Processes : FailInspect(p)
      <4>1. misread' = misread
        BY <1>2, <3>2 DEF LockNext, lockVars, Open, Create, Found, FailOpen, Inspect,
           Steal, FailSteal, Reopen, Write, FailWrite, Close, Release, UnlinkLock, FailRelease, Die,
           ReusePid
      <4> QED BY <4>1
    <3> QED BY <3>1, <3>2
  <2>2. Serial /\ Sole
        BY <2>1, <2>a DEF SerialInv, SoleInv
  <2>3. ASSUME NEW p \in Processes, Open(p) \/ Reopen(p) PROVE Sole'
    <3>1. CASE Create(p)
          BY <2>2, <2>3, <3>1, CreateKeepsSole DEF Open, Reopen
    <3>2. CASE ~Create(p)
          BY <2>2, <2>3, <3>2
          DEF Open, Reopen, Found, FailOpen, MoveTo, Sole, LockTypeOK, Acquiring, Releasing, Holding
    <3> QED BY <3>1, <3>2
  <2>4. ASSUME NEW p \in Processes, Inspect(p) \/ FailInspect(p) PROVE Sole'
    <3>1. place'[p] = "steal" => \A q \in Processes : place[q] \notin Holding
          BY <2>2, <2>4, StaleIsUnheld
    <3> QED BY <2>2, <2>4, <3>1, InspectMoves DEF Sole, LockTypeOK, Acquiring, Releasing, Holding
  <2>5. ASSUME NEW p \in Processes, Write(p) \/ FailWrite(p) PROVE Sole'
        BY <2>2, <2>5, WriteKeepsSole
  <2> USE <2>2 DEF Serial, Sole, LockTypeOK, MoveTo, Acquiring, Releasing, Holding
  <2>6. CASE UNCHANGED lockVars
        BY <2>6 DEF lockVars
  <2>7. ASSUME NEW p \in Processes, Steal(p) \/ FailSteal(p) PROVE Sole'
        BY <2>7 DEF Steal, FailSteal
  <2>8. ASSUME NEW p \in Processes, Close(p) \/ Release(p) \/ FailRelease(p) PROVE Sole'
        BY <2>8 DEF Close, Release, FailRelease
  <2>9. ASSUME NEW p \in Processes, UnlinkLock(p) PROVE Sole'
    <3>1. place[p] = "unlink" /\ lock = [by |-> p, written |-> TRUE]
          BY <2>9 DEF UnlinkLock
    <3>2. \A q \in Processes : q # p => place[q] \notin Holding /\ place[q] # "write"
          BY <3>1
    <3> QED BY <2>9, <3>1, <3>2 DEF UnlinkLock
  <2>10. ASSUME NEW p \in Processes, Die(p) \/ ReusePid(p) PROVE Sole'
        BY <2>10 DEF Die, ReusePid
  <2> QED BY <1>2, <2>3, <2>4, <2>5, <2>6, <2>7, <2>8, <2>9, <2>10 DEF LockNext
<1> QED BY <1>1, <1>2

\* Unless acquisitions overlapped or the lock of a live process could not be read, at most
\* one process owns the Store, whatever crashes, releases, failures and reused process IDs
\* there are.
THEOREM ExclusiveWithoutOverlap == LockSpec => []ExclusiveUnlessOverlapped
<1>1. LockInit => SoleInv
      BY DEF LockInit, SoleInv, Sole, Holding, Releasing
<1>2. SoleInv => ExclusiveUnlessOverlapped
  <2> SUFFICES ASSUME Sole, NEW p \in Processes, NEW q \in Processes,
                      place[p] = "own", place[q] = "own"
               PROVE  p = q
      BY DEF SoleInv, ExclusiveUnlessOverlapped, ExclusiveOwner
  <2>1. /\ lock = [by |-> p, written |-> TRUE]
        /\ lock = [by |-> q, written |-> TRUE]
        BY DEF Sole, Holding
  <2> QED BY <2>1
<1> QED BY <1>1, <1>2, LockTypeCorrect, AlwaysSerial, NextSoleInv, PTL DEF LockSpec

-----------------------------------------------------------------------------
\* What turns a process away.
Turns(p) ==
  /\ lock # NoLock
  /\ \/ place[lock.by] \in Holding /\ lock.by # p
     \/ place[lock.by] = "dead" /\ lock.by \in reused
     \/ lock.by \in kept

\* A lock judged live is that of a holder, has a reused process ID, or was left behind.
LEMMA LiveTurns ==
  ASSUME LockTypeOK, LockNamesHolder, NEW p \in Processes, place[p] = "inspect",
         Written, TRUE \in OwnerIsLive(lock.by)
  PROVE  Turns(p)
<1>1. lock.by \in Processes /\ lock # NoLock
      BY DEF Written, LockTypeOK
<1>2. CASE Alive(lock.by)
      BY <1>1, <1>2 DEF LockNamesHolder, Alive, Turns, Holding, Releasing
<1>3. CASE ~Alive(lock.by)
      BY <1>1, <1>3 DEF OwnerIsLive, Alive, Turns
<1> QED BY <1>2, <1>3

\* A step that refuses a process has found such a lock.
LEMMA RefusedByLock ==
  ASSUME LockTypeOK, LockNamesHolder, SerialInv, [LockNext]_lockVars, ~overlapped',
         NEW p \in Processes, place[p] # "refused", place'[p] = "refused"
  PROVE  Turns(p)
<1> USE DEF LockTypeOK, MoveTo
<1>1. PICK r \in Processes : Inspect(r) \/ Reopen(r)
  <2>1. ~UNCHANGED lockVars
        BY DEF lockVars
  <2>2. PICK r \in Processes :
           \/ Start(r) \/ Open(r) \/ Inspect(r) \/ FailInspect(r) \/ Steal(r) \/ FailSteal(r)
           \/ Reopen(r) \/ Write(r) \/ FailWrite(r) \/ Close(r) \/ Release(r) \/ UnlinkLock(r)
           \/ FailRelease(r) \/ Die(r) \/ ReusePid(r)
        BY <2>1 DEF LockNext
  <2>3. ~Start(r) /\ ~Steal(r) /\ ~FailSteal(r) /\ ~Write(r) /\ ~FailWrite(r) /\ ~Close(r)
        BY DEF Start, Steal, FailSteal, Write, FailWrite, Close
  <2>4. ~Open(r) /\ ~FailInspect(r) /\ ~Release(r) /\ ~UnlinkLock(r) /\ ~FailRelease(r)
        BY DEF Open, Create, Found, FailOpen, FailInspect, Release, UnlinkLock, FailRelease
  <2>5. ~Die(r) /\ ~ReusePid(r)
        BY DEF Die, ReusePid
  <2> QED BY <2>2, <2>3, <2>4, <2>5
<1>2. CASE Inspect(r)
  <2>1. PICK live \in IF Written THEN OwnerIsLive(lock.by) ELSE {FALSE} :
               place' = [place EXCEPT ![r] = IF live THEN "refused" ELSE "steal"]
        BY <1>2 DEF Inspect
  <2>2. p = r /\ place[p] = "inspect"
        BY <1>2, <2>1 DEF Inspect
  <2>3. live
        BY <2>1, <2>2
  <2>4. live = TRUE
        BY <2>1, <2>3 DEF OwnerIsLive
  <2>5. Written /\ TRUE \in OwnerIsLive(lock.by)
        BY <2>1, <2>4
  <2> QED BY <2>2, <2>5, LiveTurns
<1>3. CASE Reopen(r)
  <2>1. p = r /\ place[p] = "reopen" /\ lock # NoLock /\ ~overlapped
        BY <1>3 DEF Reopen, Create, Found, FailOpen
  <2> QED BY <2>1 DEF SerialInv, Serial, Turns
<1> QED BY <1>1, <1>2, <1>3

\* Unless acquisitions overlapped, a process is turned away only by a lock of a holder, of
\* a dead process whose ID is in use again, or of one whose removal failed.
THEOREM OnlyHoldersRefuse == LockSpec => RefusedOnlyByHolder
<1>1. LockTypeOK /\ LockNamesHolder /\ SerialInv /\ [LockNext]_lockVars
        => [~overlapped' => \A p \in Processes :
              place[p] # "refused" /\ place'[p] = "refused" =>
                /\ lock # NoLock
                /\ \/ place[lock.by] \in Holding /\ lock.by # p
                   \/ place[lock.by] = "dead" /\ lock.by \in reused
                   \/ lock.by \in kept]_lockVars
      BY RefusedByLock DEF Turns
<1> QED
    BY <1>1, LockTypeCorrect, LockNamesItsHolder, AlwaysSerial, PTL
    DEF LockSpec, RefusedOnlyByHolder
=============================================================================
