---------------------- MODULE SessionReplacement_proofs ----------------------
(***************************************************************************)
(* What rollback keeps, for any starts, Sessions and Turns: the registered *)
(* ExternalThread and the stored record agree and the Subagent follows,    *)
(* unless a rollback failed after its commit; no Session is lost; and a    *)
(* commit removes no Turn that the rollback had not read.                  *)
(***************************************************************************)
EXTENDS SessionReplacement, TLAPS

Held == "late" \notin lapses

\* An accepted Turn runs, and an ended one ran, on the open Session of the registered
\* Thread, and a start that finds an open Session has that Thread.
TurnsAreLoaded ==
  /\ \A s \in Sessions : thread[s].turn \in {"accepted", "ended"} =>
                            s = loaded /\ sessions[s].state = "open"
  /\ \A s \in Sessions : thread[s].turn = "ended" => sessions[s].turns # 0
  /\ \A c \in Calls : /\ calls[c].thread \in Used
                      /\ sessions[calls[c].thread].state = "open" => calls[c].thread = loaded

\* The registered Session is open until replace closes it, and a replacement is
\* another Session.
RollbackHolds ==
  /\ loaded \in Used
  /\ rollback.pc # "idle" => rollback.thread = loaded
  /\ rollback.pc \in {"checking", "committing", "discarding"} \cup Committed =>
       rollback.session \in Used /\ rollback.session # loaded
  /\ rollback.pc \in {"waiting", "retiring"} => sessions[loaded].state = "closed"
  /\ rollback.pc = "closing" => sessions[loaded].state = "closing"
  /\ rollback.pc \in {"checking", "committing"} \cup Committed =>
       sessions[rollback.session].state = "open"
  /\ rollback.pc \notin {"closing", "waiting", "retiring"} => sessions[loaded].state = "open"

\* record is an earlier revision of the stored record, or that record.
NotAfter(record) ==
  /\ record.revision <= store.revision
  /\ record.revision = store.revision => record = store

\* The Store and the registered Thread.
RecordsAgree ==
  /\ thread[loaded].record.session = loaded
  /\ rollback.pc \in Committed => Held /\ store = rollback.next /\ store.session = rollback.session
  /\ Held /\ rollback.pc \notin Committed =>
       /\ store.session = loaded /\ NotAfter(thread[loaded].record)
       /\ thread[loaded].record = store \/ rollback.pc = "aligned" \/ "behind" \in lapses
  /\ ~Held => store.session # loaded

\* What was read has the Turns of the history.
ReadBefore ==
  rollback.pc \in {"aligned", "opening", "checking", "committing"} =>
    /\ rollback.read.session = loaded /\ rollback.read.turns = 1..rollback.history
    /\ Held => NotAfter(rollback.read)

\* An open Session is loaded or the replacement of the rollback under way.
SessionsHeld ==
  \A s \in Sessions : sessions[s].state = "open" =>
    \/ s = loaded \/ lapses \cap {"rejected", "late"} # {}
    \/ rollback.pc \in {"checking", "committing"} \cup Committed /\ s = rollback.session

\* From the retirement on, a restore that has read its snapshot read it from the
\* Session that the record of the Subagent names.
RestoreFollows ==
  Held /\ rollback.pc \notin {"projecting", "replacing", "closing", "waiting"} =>
    /\ restore # None /\ restore.pc = "aligning" => restore.session = child
    /\ rollback.pc # "retiring" => open \in {None, child}

-----------------------------------------------------------------------------
(* Types. *)

\* A step of the rollback to another label.
LEMMA GotoTypes ==
  ASSUME rollback \in Rollbacks, NEW pc \in Labels, Goto(pc)
  PROVE  rollback' \in Rollbacks
  BY DEF Rollbacks, Labels, Goto, Committed

\* The Turn of an ExternalThread changes.
LEMMA SetTurn ==
  ASSUME thread \in [Sessions -> Threads], NEW s \in Sessions,
         NEW turn \in {"none", "begun", "accepted", "ended"}
  PROVE  [thread EXCEPT ![s].turn = turn] \in [Sessions -> Threads]
  BY DEF Threads

\* The state of a Session changes.
LEMMA SetState ==
  ASSUME sessions \in [Sessions -> Natives], NEW s \in Sessions,
         NEW state \in {"free", "open", "closing", "closed"}
  PROVE  [sessions EXCEPT ![s].state = state] \in [Sessions -> Natives]
  BY DEF Natives

\* No rollback is under way.
LEMMA IdleTyped == Idle \in Rollbacks
  BY ReplacementAssumption
  DEF ReplacementAssumption, Idle, NoRecord, Rollbacks, Labels, Records, Sessions

\* Every step keeps the types. The Turn that StoreTurn stores is the last of the history,
\* which is not empty.
LEMMA TypeStep ==
  ASSUME TypeOK, TurnsAreLoaded, [Next]_vars
  PROVE  TypeOK'
<1> USE ReplacementAssumption DEF ReplacementAssumption, TypeOK, threadVars, childVars
<1>1. ASSUME NEW c \in Calls, Resolve(c) PROVE TypeOK'
  <2>1. calls' \in [Calls -> Starts]
    BY <1>1 DEF Resolve, Starts
  <2> QED BY <1>1, <2>1 DEF Resolve
<1>2. ASSUME NEW c \in Calls, Begin(c) PROVE TypeOK'
  <2>1. calls' \in [Calls -> Starts]
    BY <1>2 DEF Begin, Starts
  <2>2. calls[c].thread \in Sessions
    BY DEF Starts
  <2>3. \A turn \in {"none", "begun", "accepted"} :
          [thread EXCEPT ![calls[c].thread].turn = turn] \in [Sessions -> Threads]
    BY <2>2, SetTurn
  <2>4. thread' \in [Sessions -> Threads]
    BY <1>2, <2>3 DEF Begin
  <2> QED BY <1>2, <2>1, <2>4 DEF Begin
<1>3. ASSUME NEW c \in Calls, Answer(c) PROVE TypeOK'
  <2>1. calls' \in [Calls -> Starts]
    BY <1>3 DEF Answer, Starts
  <2>2. calls[c].thread \in Sessions
    BY DEF Starts
  <2>3. \A turn \in {"none", "begun", "accepted"} :
          [thread EXCEPT ![calls[c].thread].turn = turn] \in [Sessions -> Threads]
    BY <2>2, SetTurn
  <2>4. thread' \in [Sessions -> Threads]
    BY <1>3, <2>3 DEF Answer
  <2> QED BY <1>3, <2>1, <2>4 DEF Answer
<1>4. ASSUME NEW s \in Sessions, Autonomous(s) PROVE TypeOK'
  BY <1>4, SetTurn DEF Autonomous
<1>5. ASSUME NEW s \in Sessions, EndUnidentified(s) PROVE TypeOK'
  BY <1>5, SetTurn DEF EndUnidentified
<1>6. ASSUME NEW s \in Sessions, EndTurn(s) PROVE TypeOK'
  <2>1. sessions' \in [Sessions -> Natives]
    BY <1>6 DEF EndTurn, Natives
  <2> QED BY <1>6, <2>1, SetTurn DEF EndTurn
<1>7. ASSUME NEW s \in Sessions, StoreTurn(s) PROVE TypeOK'
  <2>1. store' \in Records
    <3>1. CASE store' = store
      BY <3>1
    <3>2. CASE store' = [store EXCEPT !.revision = @ + 1, !.turns = @ \cup {sessions[s].turns}]
      <4>1. sessions[s].turns # 0
        BY <1>7 DEF StoreTurn, TurnsAreLoaded
      <4>2. sessions[s].turns \in 1..MaxTurns
        BY <4>1 DEF Natives
      <4> HIDE DEF TypeOK
      <4>3. store \in Records
        BY DEF TypeOK
      <4>4. store.revision + 1 \in Nat /\ store.turns \cup {sessions[s].turns} \in SUBSET (1..MaxTurns)
        BY <4>2, <4>3 DEF Records
      <4> QED BY <3>2, <4>3, <4>4 DEF Records
    <3> QED BY <1>7, <3>1, <3>2 DEF StoreTurn
  <2>2. thread' \in [Sessions -> Threads]
    BY <1>7, <2>1 DEF StoreTurn, Threads
  <2> QED BY <1>7, <2>1, <2>2 DEF StoreTurn
<1>8. CASE RestoreChild
  BY <1>8 DEF RestoreChild
<1>9. CASE ReadChild
  BY <1>9 DEF ReadChild
<1>10. CASE RegisterChild
  BY <1>10 DEF RegisterChild, EndRestore, Rollbacks, Labels, Committed
<1>11. CASE RestoreFails
  BY <1>11 DEF RestoreFails, EndRestore, Rollbacks, Labels, Committed
<1>12. CASE Rollback
  BY <1>12 DEF Rollback, Rollbacks, Labels, Committed
<1>13. CASE ReadHistory
  <2>1. sessions[rollback.thread].turns \in 0..MaxTurns
    BY DEF Rollbacks, Natives
  <2>2. rollback' \in Rollbacks
    BY <1>13, <2>1 DEF ReadHistory, Rollbacks, Labels
  <2> QED BY <1>13, <2>2 DEF ReadHistory
<1>14. CASE Align
  <2>1. thread[rollback.thread].record \in Records
    BY DEF Rollbacks, Threads
  <2>2. PICK pc \in {"aligned", "reconciling"} :
          rollback' = [rollback EXCEPT !.read = thread[rollback.thread].record, !.pc = pc]
    BY <1>14 DEF Align
  <2>3. rollback' \in Rollbacks
    BY <2>1, <2>2 DEF Rollbacks, Labels
  <2> QED BY <1>14, <2>3 DEF Align
<1>15. CASE Reconcile
  <2>1. rollback.history \in 0..MaxTurns /\ store \in Records
    BY DEF Rollbacks
  <2>2. store.revision + 1 \in Nat /\ 1..rollback.history \in SUBSET (1..MaxTurns)
    BY <2>1 DEF Records
  <2>3. [store EXCEPT !.revision = @ + 1, !.turns = 1..rollback.history] \in Records
    BY <2>1, <2>2 DEF Records
  <2>4. store' \in Records /\ rollback' = [rollback EXCEPT !.pc = "aligned", !.read = store']
    BY <1>15, <2>1, <2>3 DEF Reconcile
  <2>5. rollback' \in Rollbacks
    BY <2>4 DEF Rollbacks, Labels
  <2> QED BY <1>15, <2>4, <2>5 DEF Reconcile
<1>16. CASE Adopt
  <2>1. rollback' \in Rollbacks
    BY <1>16, GotoTypes DEF Adopt, Labels
  <2>2. thread' \in [Sessions -> Threads]
    BY <1>16 DEF Adopt, Rollbacks, Threads
  <2> QED BY <1>16, <2>1, <2>2 DEF Adopt, Noted
<1>17. CASE AlignFails
  BY <1>17, IdleTyped DEF AlignFails, Noted
<1>18. CASE OpenReplacement
  <2>0. PICK s \in Sessions, kind \in {"last", "fork"} : \E n \in Retained(kind) :
          /\ s \notin Used /\ s - 1 \in Used
          /\ sessions' = [sessions EXCEPT ![s] = [state |-> "open", turns |-> n]]
          /\ rollback' = [rollback EXCEPT !.pc = "checking", !.session = s, !.kind = kind]
    BY <1>18, Zenon DEF OpenReplacement
  <2>1. PICK n \in Retained(kind) :
          /\ sessions' = [sessions EXCEPT ![s] = [state |-> "open", turns |-> n]]
          /\ rollback' = [rollback EXCEPT !.pc = "checking", !.session = s, !.kind = kind]
    BY <2>0
  <2>2. n \in 0..MaxTurns
    <3>1. rollback.history \in 0..MaxTurns
      BY DEF Rollbacks
    <3> QED BY <2>1, <3>1 DEF Retained
  <2>3. sessions' \in [Sessions -> Natives] /\ rollback' \in Rollbacks
    BY <2>1, <2>2 DEF Natives, Rollbacks, Labels
  <2> QED BY <1>18, <2>3 DEF OpenReplacement
<1>19. CASE Refuse
  BY <1>19, IdleTyped DEF Refuse
<1>20. CASE Check
  <2>1. rollback' \in Rollbacks
    BY <1>20, GotoTypes DEF Check, Labels, Committed
  <2> QED BY <1>20, <2>1 DEF Check
<1>21. CASE Discard
  BY <1>21, GotoTypes, SetState DEF Discard, Close, Rollbacks, Labels
<1>22. CASE Reject
  BY <1>22, IdleTyped DEF Reject
<1>23. CASE EndDiscard
  BY <1>23, IdleTyped, SetState DEF EndDiscard, Closed, Rollbacks, Labels
<1>24. CASE Commit
  <2>1. store' \in Records
    BY <1>24 DEF Commit, Records, Rollbacks, Labels, Natives
  <2>2. rollback' \in Rollbacks
    BY <1>24, <2>1 DEF Commit, Rollbacks, Labels, Committed
  <2> QED BY <1>24, <2>1, <2>2 DEF Commit
<1>25. CASE Rebind
  BY <1>25 DEF Rebind, Rollbacks, Labels
<1>26. CASE Project
  <2>1. rollback' \in Rollbacks
    BY <1>26, GotoTypes DEF Project, Labels, Committed
  <2> QED BY <1>26, <2>1 DEF Project
<1>27. CASE ProjectFails
  BY <1>27, GotoTypes, SetState DEF ProjectFails, Close, Rollbacks, Labels
<1>28. CASE Replace
  BY <1>28, GotoTypes, SetState DEF Replace, Close, Rollbacks, Labels, Committed
<1>29. CASE ReplaceThrows
  BY <1>29, IdleTyped DEF ReplaceThrows
<1>30. CASE OldClosed
  BY <1>30, GotoTypes, SetState DEF OldClosed, Closed, Rollbacks, Labels, Committed
<1>31. CASE RetireChild
  BY <1>31 DEF RetireChild
<1>32. CASE Register
  <2>1. thread' \in [Sessions -> Threads] /\ loaded' \in Sessions
    BY <1>32 DEF Register, Threads, Rollbacks, Labels
  <2> QED BY <1>32, <2>1, IdleTyped DEF Register
<1>33. CASE UNCHANGED vars
  BY <1>33 DEF vars
<1> QED
  BY <1>1, <1>2, <1>3, <1>4, <1>5, <1>6, <1>7, <1>8, <1>9, <1>10, <1>11, <1>12, <1>13, <1>14,
     <1>15, <1>16, <1>17, <1>18, <1>19, <1>20, <1>21, <1>22, <1>23, <1>24, <1>25, <1>26,
     <1>27, <1>28, <1>29, <1>30, <1>31, <1>32, <1>33
  DEF Next, Turn, Subagent, Derive, Install

-----------------------------------------------------------------------------
(* The steps keep each part. *)

\* Only the registered Thread has an accepted Turn: a start is accepted by an open Session.
LEMMA TurnsStep ==
  ASSUME TypeOK, TypeOK', TurnsAreLoaded, RollbackHolds, [Next]_vars
  PROVE  TurnsAreLoaded'
<1> USE ReplacementAssumption
    DEF ReplacementAssumption, TypeOK, Threads, Natives, Rollbacks, Labels, Starts,
        threadVars, childVars, TurnsAreLoaded, Used
<1>1. ASSUME NEW c \in Calls, Resolve(c) PROVE TurnsAreLoaded'
  BY <1>1 DEF Resolve, RollbackHolds, Committed
<1>2. ASSUME NEW c \in Calls, Begin(c) PROVE TurnsAreLoaded'
  <2> HIDE DEF TurnsAreLoaded, Used
  <2>1. \A d \in Calls : calls'[d].thread = calls[d].thread
    <3>1. calls' = calls \/ \E pc \in {"starting", "done"} : calls' = [calls EXCEPT ![c].pc = pc]
      BY <1>2 DEF Begin
    <3> HIDE DEF Threads, Natives, Rollbacks, Labels
    <3> QED BY <3>1
  <2>2. \A s \in Sessions : thread'[s].turn \in {"accepted", "ended"} => thread'[s].turn = thread[s].turn
    <3>1. calls[c].thread \in Sessions
      BY DEF Starts
    <3>2. thread' = thread \/ thread' = [thread EXCEPT ![calls[c].thread].turn = "begun"]
      BY <1>2 DEF Begin
    <3> HIDE DEF Natives, Rollbacks, Labels, Starts
    <3> QED BY <3>1, <3>2
  <2>3. UNCHANGED <<loaded, sessions>>
    BY <1>2 DEF Begin
  <2> QED BY <2>1, <2>2, <2>3 DEF TurnsAreLoaded, Used
<1>3. ASSUME NEW c \in Calls, Answer(c) PROVE TurnsAreLoaded'
  BY <1>3 DEF Answer
<1>4. ASSUME NEW s \in Sessions, Autonomous(s) PROVE TurnsAreLoaded'
  BY <1>4 DEF Autonomous, Running
<1>5. ASSUME NEW s \in Sessions, EndUnidentified(s) PROVE TurnsAreLoaded'
  BY <1>5 DEF EndUnidentified
<1>6. ASSUME NEW s \in Sessions, EndTurn(s) PROVE TurnsAreLoaded'
  BY <1>6 DEF EndTurn
<1>7. ASSUME NEW s \in Sessions, StoreTurn(s) PROVE TurnsAreLoaded'
  <2> HIDE DEF TurnsAreLoaded, Used
  <2>1. \A r \in Sessions : thread'[r].turn \in {"accepted", "ended"} => thread'[r].turn = thread[r].turn
    <3> HIDE DEF Natives, Rollbacks, Labels, Starts
    <3>1. CASE thread' = [thread EXCEPT ![s].turn = "none", ![s].writes = "off"]
      BY <3>1
    <3>2. CASE thread' = [thread EXCEPT ![s].turn = "none", ![s].record = store']
      BY <3>2
    <3> QED BY <1>7, <3>1, <3>2 DEF StoreTurn
  <2>2. UNCHANGED <<loaded, sessions, calls>>
    BY <1>7 DEF StoreTurn
  <2> QED BY <2>1, <2>2 DEF TurnsAreLoaded, Used
<1>8. CASE RestoreChild
  BY <1>8 DEF RestoreChild
<1>9. CASE ReadChild
  BY <1>9 DEF ReadChild
<1>10. CASE RegisterChild
  BY <1>10 DEF RegisterChild, EndRestore
<1>11. CASE RestoreFails
  BY <1>11 DEF RestoreFails, EndRestore
<1>12. CASE Rollback
  BY <1>12 DEF Rollback, Running
<1>13. CASE ReadHistory
  BY <1>13 DEF ReadHistory
<1>14. CASE Align
  BY <1>14 DEF Align
<1>15. CASE Reconcile
  BY <1>15 DEF Reconcile
<1>16. CASE Adopt
  BY <1>16 DEF Adopt, Goto
<1>17. CASE AlignFails
  BY <1>17 DEF AlignFails, Idle
<1>18. CASE OpenReplacement
  BY <1>18 DEF OpenReplacement, Retained
<1>19. CASE Refuse
  BY <1>19 DEF Refuse, Idle
<1>20. CASE Check
  BY <1>20 DEF Check, Goto
<1>21. CASE Discard
  BY <1>21 DEF Discard, Goto, Close, RollbackHolds, Committed
<1>22. CASE Reject
  BY <1>22 DEF Reject, Idle
<1>23. CASE EndDiscard
  BY <1>23 DEF EndDiscard, Closed, Idle, RollbackHolds, Committed
<1>24. CASE Commit
  BY <1>24 DEF Commit, Unchanged
<1>25. CASE Rebind
  BY <1>25 DEF Rebind
<1>26. CASE Project
  BY <1>26 DEF Project, Goto
<1>27. CASE ProjectFails
  BY <1>27 DEF ProjectFails, Goto, Close, RollbackHolds, Committed
<1>28. CASE Replace
  BY <1>28 DEF Replace, Goto, Close, Running
<1>29. CASE ReplaceThrows
  BY <1>29 DEF ReplaceThrows, Idle, Running
<1>30. CASE OldClosed
  BY <1>30 DEF OldClosed, Goto, Closed, RollbackHolds, Committed
<1>31. CASE RetireChild
  BY <1>31 DEF RetireChild
<1>32. CASE Register
  BY <1>32 DEF Register, Idle, RollbackHolds, Committed
<1>33. CASE UNCHANGED vars
  BY <1>33 DEF vars
<1> QED
  BY <1>1, <1>2, <1>3, <1>4, <1>5, <1>6, <1>7, <1>8, <1>9, <1>10, <1>11, <1>12, <1>13, <1>14,
     <1>15, <1>16, <1>17, <1>18, <1>19, <1>20, <1>21, <1>22, <1>23, <1>24, <1>25, <1>26,
     <1>27, <1>28, <1>29, <1>30, <1>31, <1>32, <1>33
  DEF Next, Turn, Subagent, Derive, Install

\* The rollback keeps its Thread registered until it registers the replacement.
LEMMA RollbackStep ==
  ASSUME TypeOK, TypeOK', TurnsAreLoaded, RollbackHolds, [Next]_vars
  PROVE  RollbackHolds'
<1> USE ReplacementAssumption
    DEF ReplacementAssumption, TypeOK, Threads, Natives, Rollbacks, Labels, Starts,
        threadVars, childVars, RollbackHolds, Used, Committed
<1>1. ASSUME NEW c \in Calls, Resolve(c) PROVE RollbackHolds'
  BY <1>1 DEF Resolve
<1>2. ASSUME NEW c \in Calls, Begin(c) PROVE RollbackHolds'
  BY <1>2 DEF Begin, MayBegin, Running
<1>3. ASSUME NEW c \in Calls, Answer(c) PROVE RollbackHolds'
  BY <1>3 DEF Answer
<1>4. ASSUME NEW s \in Sessions, Autonomous(s) PROVE RollbackHolds'
  BY <1>4 DEF Autonomous, Running
<1>5. ASSUME NEW s \in Sessions, EndUnidentified(s) PROVE RollbackHolds'
  BY <1>5 DEF EndUnidentified
<1>6. ASSUME NEW s \in Sessions, EndTurn(s) PROVE RollbackHolds'
  BY <1>6 DEF EndTurn
<1>7. ASSUME NEW s \in Sessions, StoreTurn(s) PROVE RollbackHolds'
  BY <1>7 DEF StoreTurn
<1>8. CASE RestoreChild
  BY <1>8 DEF RestoreChild
<1>9. CASE ReadChild
  BY <1>9 DEF ReadChild
<1>10. CASE RegisterChild
  BY <1>10 DEF RegisterChild, EndRestore
<1>11. CASE RestoreFails
  BY <1>11 DEF RestoreFails, EndRestore
<1>12. CASE Rollback
  BY <1>12 DEF Rollback, Running
<1>13. CASE ReadHistory
  BY <1>13 DEF ReadHistory
<1>14. CASE Align
  BY <1>14 DEF Align
<1>15. CASE Reconcile
  BY <1>15 DEF Reconcile
<1>16. CASE Adopt
  BY <1>16 DEF Adopt, Goto, Noted
<1>17. CASE AlignFails
  BY <1>17 DEF AlignFails, Idle, Noted
<1>18. CASE OpenReplacement
  BY <1>18 DEF OpenReplacement, Retained
<1>19. CASE Refuse
  BY <1>19 DEF Refuse, Idle
<1>20. CASE Check
  BY <1>20 DEF Check, Goto
<1>21. CASE Discard
  BY <1>21 DEF Discard, Goto, Close
<1>22. CASE Reject
  BY <1>22 DEF Reject, Idle
<1>23. CASE EndDiscard
  BY <1>23 DEF EndDiscard, Closed, Idle
<1>24. CASE Commit
  BY <1>24 DEF Commit, Unchanged
<1>25. CASE Rebind
  BY <1>25 DEF Rebind
<1>26. CASE Project
  BY <1>26 DEF Project, Goto
<1>27. CASE ProjectFails
  BY <1>27 DEF ProjectFails, Goto, Close
<1>28. CASE Replace
  BY <1>28 DEF Replace, Goto, Close, Running
<1>29. CASE ReplaceThrows
  BY <1>29 DEF ReplaceThrows, Idle, Running
<1>30. CASE OldClosed
  BY <1>30 DEF OldClosed, Goto, Closed
<1>31. CASE RetireChild
  BY <1>31 DEF RetireChild
<1>32. CASE Register
  BY <1>32 DEF Register, Idle
<1>33. CASE UNCHANGED vars
  BY <1>33 DEF vars
<1> QED
  BY <1>1, <1>2, <1>3, <1>4, <1>5, <1>6, <1>7, <1>8, <1>9, <1>10, <1>11, <1>12, <1>13, <1>14,
     <1>15, <1>16, <1>17, <1>18, <1>19, <1>20, <1>21, <1>22, <1>23, <1>24, <1>25, <1>26,
     <1>27, <1>28, <1>29, <1>30, <1>31, <1>32, <1>33
  DEF Next, Turn, Subagent, Derive, Install

\* A Turn is stored of the registered Thread, which takes the record over, or not at all.
LEMMA StoredWhole ==
  ASSUME TypeOK, TurnsAreLoaded, NEW s \in Sessions, StoreTurn(s)
  PROVE  /\ UNCHANGED <<loaded, sessions, rollback>>
         /\ \/ UNCHANGED <<store, lapses>> /\ thread'[loaded].record = thread[loaded].record
            \/ /\ store.session = loaded /\ store'.session = loaded
               /\ store.revision \in Nat /\ store'.revision = store.revision + 1
               /\ thread'[loaded].record = store' /\ lapses' = lapses \ {"behind"}
<1> USE DEF TypeOK, Threads
<1>1. s = loaded /\ UNCHANGED <<loaded, sessions, rollback>>
  BY DEF StoreTurn, TurnsAreLoaded
<1>2. CASE /\ store.session = s /\ lapses' = lapses \ {"behind"}
           /\ store' = [store EXCEPT !.revision = @ + 1, !.turns = @ \cup {sessions[s].turns}]
           /\ thread' = [thread EXCEPT ![s].turn = "none", ![s].record = store']
  <2>1. store'.session = loaded /\ store.revision \in Nat /\ store'.revision = store.revision + 1
    BY <1>1, <1>2 DEF Records
  <2>2. thread'[loaded].record = store'
    BY <1>1, <1>2
  <2> QED BY <1>1, <1>2, <2>1, <2>2
<1>3. CASE /\ UNCHANGED <<store, lapses>>
           /\ thread' = [thread EXCEPT ![s].turn = "none", ![s].writes = "off"]
  <2>1. thread'[loaded].record = thread[loaded].record
    BY <1>1, <1>3
  <2> QED BY <1>1, <1>3, <2>1
<1> QED BY <1>2, <1>3 DEF StoreTurn

\* The stored record gets the Turns of the history under a new revision, or has them.
LEMMA ReconciledWhole ==
  ASSUME TypeOK, RollbackHolds, RecordsAgree, Reconcile
  PROVE  /\ store'.session = loaded /\ store.session = loaded /\ Held
         /\ store' = store \/ store'.revision = store.revision + 1
         /\ UNCHANGED <<loaded, thread, lapses>>
         /\ rollback'.pc = "aligned" /\ rollback'.read = store'
         /\ store'.turns = 1..rollback.history /\ rollback'.history = rollback.history
<1>1. rollback.thread = loaded /\ store.session = loaded /\ store \in Records
  BY DEF Reconcile, RollbackHolds, TypeOK
<1>2. store' = IF store.turns = 1..rollback.history THEN store
               ELSE [store EXCEPT !.revision = @ + 1, !.turns = 1..rollback.history]
  BY DEF Reconcile
<1>3. /\ store'.session = loaded /\ store'.turns = 1..rollback.history
      /\ store' = store \/ store'.revision = store.revision + 1
  BY <1>1, <1>2 DEF Records
<1>4. Held
  BY <1>1 DEF RecordsAgree
<1>5. UNCHANGED <<loaded, thread, lapses>>
  BY DEF Reconcile
<1>6. /\ rollback'.pc = "aligned" /\ rollback'.read = store'
      /\ rollback'.history = rollback.history
  BY DEF Reconcile, TypeOK, Rollbacks
<1> QED BY <1>1, <1>3, <1>4, <1>5, <1>6

\* Store and registered Thread change together, or the rollback has committed.
LEMMA RecordsStep ==
  ASSUME TypeOK, TypeOK', TurnsAreLoaded, RollbackHolds, RecordsAgree, ReadBefore, [Next]_vars
  PROVE  RecordsAgree'
<1> USE ReplacementAssumption
    DEF ReplacementAssumption, TypeOK, Threads, Natives, Rollbacks, Labels, Starts,
        threadVars, childVars, RecordsAgree, NotAfter, Committed, Held
<1>1. ASSUME NEW c \in Calls, Resolve(c) PROVE RecordsAgree'
  BY <1>1 DEF Resolve
<1>2. ASSUME NEW c \in Calls, Begin(c) PROVE RecordsAgree'
  <2>1. calls[c].thread \in Sessions
    BY DEF Starts
  <2>2. thread' = thread \/ thread' = [thread EXCEPT ![calls[c].thread].turn = "begun"]
    BY <1>2 DEF Begin
  <2>3. thread'[loaded].record = thread[loaded].record
    <3> HIDE DEF Natives, Rollbacks, Labels, Starts
    <3> QED BY <2>1, <2>2
  <2> QED BY <1>2, <2>3 DEF Begin
<1>3. ASSUME NEW c \in Calls, Answer(c) PROVE RecordsAgree'
  BY <1>3 DEF Answer
<1>4. ASSUME NEW s \in Sessions, Autonomous(s) PROVE RecordsAgree'
  BY <1>4 DEF Autonomous, Running
<1>5. ASSUME NEW s \in Sessions, EndUnidentified(s) PROVE RecordsAgree'
  BY <1>5 DEF EndUnidentified
<1>6. ASSUME NEW s \in Sessions, EndTurn(s) PROVE RecordsAgree'
  BY <1>6 DEF EndTurn, TurnsAreLoaded, RollbackHolds, Used, ReadBefore
<1>7. ASSUME NEW s \in Sessions, StoreTurn(s) PROVE RecordsAgree'
  <2> HIDE DEF TypeOK, Threads, Natives, Rollbacks, Labels, Starts
  <2> QED BY <1>7, StoredWhole DEF RollbackHolds
<1>8. CASE RestoreChild
  BY <1>8 DEF RestoreChild
<1>9. CASE ReadChild
  BY <1>9 DEF ReadChild
<1>10. CASE RegisterChild
  BY <1>10 DEF RegisterChild, EndRestore
<1>11. CASE RestoreFails
  BY <1>11 DEF RestoreFails, EndRestore
<1>12. CASE Rollback
  BY <1>12 DEF Rollback, Running
<1>13. CASE ReadHistory
  BY <1>13 DEF ReadHistory
<1>14. CASE Align
  BY <1>14 DEF Align
<1>15. CASE Reconcile
  <2>1. /\ store'.session = loaded /\ store.session = loaded /\ Held
        /\ store' = store \/ store'.revision = store.revision + 1
        /\ UNCHANGED <<loaded, thread, lapses>>
        /\ rollback'.pc = "aligned" /\ rollback'.read = store'
        /\ store'.turns = 1..rollback.history /\ rollback'.history = rollback.history
    BY <1>15, ReconciledWhole
  <2>2. store.revision \in Nat /\ store'.revision \in Nat /\ thread[loaded].record.revision \in Nat
    BY DEF Records
  <2> HIDE DEF TypeOK, Threads, Natives, Rollbacks, Labels, Starts
  <2> QED BY <1>15, <2>1, <2>2 DEF Reconcile
<1>16. CASE Adopt
  <2>1. /\ thread'[loaded].record = rollback.read /\ UNCHANGED <<store, loaded>>
        /\ rollback.pc = "aligned" /\ rollback'.pc = "opening"
    BY <1>16 DEF Adopt, Goto, RollbackHolds
  <2>2. /\ "late" \in lapses' <=> "late" \in lapses
        /\ rollback.read = store \/ "behind" \in lapses'
    BY <1>16 DEF Adopt, Noted
  <2> HIDE DEF TypeOK, Threads, Natives, Rollbacks, Labels, Starts
  <2> QED BY <2>1, <2>2 DEF ReadBefore
<1>17. CASE AlignFails
  <2>1. /\ UNCHANGED <<store, loaded, thread>> /\ rollback.pc = "aligned" /\ rollback'.pc = "idle"
        /\ rollback.thread = loaded
    BY <1>17 DEF AlignFails, Idle, RollbackHolds
  <2>2. /\ "late" \in lapses' <=> "late" \in lapses
        /\ thread[loaded].record = store \/ "behind" \in lapses'
    BY <1>17, <2>1 DEF AlignFails, Noted
  <2> HIDE DEF TypeOK, Threads, Natives, Rollbacks, Labels, Starts
  <2> QED BY <2>1, <2>2
<1>18. CASE OpenReplacement
  BY <1>18 DEF OpenReplacement, Retained, TurnsAreLoaded, RollbackHolds, Used, ReadBefore
<1>19. CASE Refuse
  BY <1>19 DEF Refuse, Idle
<1>20. CASE Check
  BY <1>20 DEF Check, Goto
<1>21. CASE Discard
  BY <1>21 DEF Discard, Goto, Close
<1>22. CASE Reject
  BY <1>22 DEF Reject, Idle
<1>23. CASE EndDiscard
  BY <1>23 DEF EndDiscard, Closed, Idle
<1>24. CASE Commit
  BY <1>24 DEF Commit, Unchanged, TurnsAreLoaded, RollbackHolds, Used, ReadBefore
<1>25. CASE Rebind
  BY <1>25 DEF Rebind
<1>26. CASE Project
  BY <1>26 DEF Project, Goto
<1>27. CASE ProjectFails
  BY <1>27 DEF ProjectFails, Goto, Close, TurnsAreLoaded, RollbackHolds, Used, ReadBefore
<1>28. CASE Replace
  BY <1>28 DEF Replace, Goto, Close, Running
<1>29. CASE ReplaceThrows
  BY <1>29 DEF ReplaceThrows, Idle, Running, TurnsAreLoaded, RollbackHolds, Used, ReadBefore
<1>30. CASE OldClosed
  BY <1>30 DEF OldClosed, Goto, Closed
<1>31. CASE RetireChild
  BY <1>31 DEF RetireChild
<1>32. CASE Register
  <2>1. /\ loaded' = rollback.session /\ thread'[loaded'].record = rollback.next
        /\ UNCHANGED store /\ rollback.pc = "retiring" /\ rollback'.pc = "idle"
        /\ "late" \in lapses' <=> "late" \in lapses
    BY <1>32 DEF Register, Idle
  <2>2. store.revision \in Nat
    BY DEF Records
  <2> HIDE DEF TypeOK, Threads, Natives, Rollbacks, Labels, Starts
  <2> QED BY <2>1, <2>2
<1>33. CASE UNCHANGED vars
  BY <1>33 DEF vars
<1> QED
  BY <1>1, <1>2, <1>3, <1>4, <1>5, <1>6, <1>7, <1>8, <1>9, <1>10, <1>11, <1>12, <1>13, <1>14,
     <1>15, <1>16, <1>17, <1>18, <1>19, <1>20, <1>21, <1>22, <1>23, <1>24, <1>25, <1>26,
     <1>27, <1>28, <1>29, <1>30, <1>31, <1>32, <1>33
  DEF Next, Turn, Subagent, Derive, Install

\* Revisions grow, so a record of the revision that was read is the one that was read.
LEMMA ReadStep ==
  ASSUME TypeOK, TypeOK', TurnsAreLoaded, RollbackHolds, RecordsAgree, ReadBefore, [Next]_vars
  PROVE  ReadBefore'
<1> USE ReplacementAssumption
    DEF ReplacementAssumption, TypeOK, Threads, Natives, Rollbacks, Labels, Starts,
        threadVars, childVars, ReadBefore, NotAfter, Held
<1>1. ASSUME NEW c \in Calls, Resolve(c) PROVE ReadBefore'
  BY <1>1 DEF Resolve
<1>2. ASSUME NEW c \in Calls, Begin(c) PROVE ReadBefore'
  BY <1>2 DEF Begin, MayBegin, Running
<1>3. ASSUME NEW c \in Calls, Answer(c) PROVE ReadBefore'
  BY <1>3 DEF Answer
<1>4. ASSUME NEW s \in Sessions, Autonomous(s) PROVE ReadBefore'
  BY <1>4 DEF Autonomous, Running
<1>5. ASSUME NEW s \in Sessions, EndUnidentified(s) PROVE ReadBefore'
  BY <1>5 DEF EndUnidentified
<1>6. ASSUME NEW s \in Sessions, EndTurn(s) PROVE ReadBefore'
  BY <1>6 DEF EndTurn, TurnsAreLoaded, RollbackHolds, RecordsAgree, Committed
<1>7. ASSUME NEW s \in Sessions, StoreTurn(s) PROVE ReadBefore'
  <2> HIDE DEF TypeOK, Threads, Natives, Rollbacks, Labels, Starts
  <2>1. Held => rollback.read.revision \in Nat
    BY DEF TypeOK, Rollbacks, Records
  <2> QED BY <1>7, <2>1, StoredWhole DEF RollbackHolds
<1>8. CASE RestoreChild
  BY <1>8 DEF RestoreChild
<1>9. CASE ReadChild
  BY <1>9 DEF ReadChild
<1>10. CASE RegisterChild
  BY <1>10 DEF RegisterChild, EndRestore
<1>11. CASE RestoreFails
  BY <1>11 DEF RestoreFails, EndRestore
<1>12. CASE Rollback
  BY <1>12 DEF Rollback, Running
<1>13. CASE ReadHistory
  BY <1>13 DEF ReadHistory
<1>14. CASE Align
  <2>1. rollback'.read = thread[loaded].record /\ rollback'.history = rollback.history
        /\ UNCHANGED <<store, loaded, lapses>>
    BY <1>14 DEF Align, RollbackHolds
  <2>2. rollback'.pc = "aligned" => thread[loaded].record.turns = 1..rollback.history
    BY <1>14 DEF Align, RollbackHolds
  <2>3. rollback.pc = "aligning" /\ rollback'.pc \in {"aligned", "reconciling"}
    BY <1>14 DEF Align
  <2> HIDE DEF TypeOK, Threads, Natives, Rollbacks, Labels, Starts
  <2> QED BY <2>1, <2>2, <2>3 DEF RecordsAgree, Committed
<1>15. CASE Reconcile
  <2>1. /\ store'.session = loaded /\ store.session = loaded /\ Held
        /\ store' = store \/ store'.revision = store.revision + 1
        /\ UNCHANGED <<loaded, thread, lapses>>
        /\ rollback'.pc = "aligned" /\ rollback'.read = store'
        /\ store'.turns = 1..rollback.history /\ rollback'.history = rollback.history
    BY <1>15, ReconciledWhole
  <2>2. store.revision \in Nat /\ store'.revision \in Nat /\ thread[loaded].record.revision \in Nat
    BY DEF Records
  <2> HIDE DEF TypeOK, Threads, Natives, Rollbacks, Labels, Starts
  <2> QED BY <2>1, <2>2
<1>16. CASE Adopt
  BY <1>16 DEF Adopt, Goto, Noted
<1>17. CASE AlignFails
  BY <1>17 DEF AlignFails, Idle, Noted
<1>18. CASE OpenReplacement
  BY <1>18 DEF OpenReplacement, Retained
<1>19. CASE Refuse
  BY <1>19 DEF Refuse, Idle
<1>20. CASE Check
  BY <1>20 DEF Check, Goto
<1>21. CASE Discard
  BY <1>21 DEF Discard, Goto, Close
<1>22. CASE Reject
  BY <1>22 DEF Reject, Idle
<1>23. CASE EndDiscard
  BY <1>23 DEF EndDiscard, Closed, Idle
<1>24. CASE Commit
  BY <1>24 DEF Commit, Unchanged
<1>25. CASE Rebind
  BY <1>25 DEF Rebind
<1>26. CASE Project
  BY <1>26 DEF Project, Goto
<1>27. CASE ProjectFails
  BY <1>27 DEF ProjectFails, Goto, Close
<1>28. CASE Replace
  BY <1>28 DEF Replace, Goto, Close, Running
<1>29. CASE ReplaceThrows
  BY <1>29 DEF ReplaceThrows, Idle, Running
<1>30. CASE OldClosed
  BY <1>30 DEF OldClosed, Goto, Closed
<1>31. CASE RetireChild
  BY <1>31 DEF RetireChild
<1>32. CASE Register
  BY <1>32 DEF Register, Idle
<1>33. CASE UNCHANGED vars
  BY <1>33 DEF vars
<1> QED
  BY <1>1, <1>2, <1>3, <1>4, <1>5, <1>6, <1>7, <1>8, <1>9, <1>10, <1>11, <1>12, <1>13, <1>14,
     <1>15, <1>16, <1>17, <1>18, <1>19, <1>20, <1>21, <1>22, <1>23, <1>24, <1>25, <1>26,
     <1>27, <1>28, <1>29, <1>30, <1>31, <1>32, <1>33
  DEF Next, Turn, Subagent, Derive, Install

\* A Session is opened by a rollback and closed before it is given up.
LEMMA SessionsStep ==
  ASSUME TypeOK, TypeOK', RollbackHolds, SessionsHeld, [Next]_vars
  PROVE  SessionsHeld'
<1> USE ReplacementAssumption
    DEF ReplacementAssumption, TypeOK, Threads, Natives, Rollbacks, Labels, Starts,
        threadVars, childVars, SessionsHeld, Committed
<1>1. ASSUME NEW c \in Calls, Resolve(c) PROVE SessionsHeld'
  BY <1>1 DEF Resolve
<1>2. ASSUME NEW c \in Calls, Begin(c) PROVE SessionsHeld'
  BY <1>2 DEF Begin, MayBegin, Running
<1>3. ASSUME NEW c \in Calls, Answer(c) PROVE SessionsHeld'
  BY <1>3 DEF Answer
<1>4. ASSUME NEW s \in Sessions, Autonomous(s) PROVE SessionsHeld'
  BY <1>4 DEF Autonomous, Running
<1>5. ASSUME NEW s \in Sessions, EndUnidentified(s) PROVE SessionsHeld'
  BY <1>5 DEF EndUnidentified
<1>6. ASSUME NEW s \in Sessions, EndTurn(s) PROVE SessionsHeld'
  BY <1>6 DEF EndTurn
<1>7. ASSUME NEW s \in Sessions, StoreTurn(s) PROVE SessionsHeld'
  BY <1>7 DEF StoreTurn
<1>8. CASE RestoreChild
  BY <1>8 DEF RestoreChild
<1>9. CASE ReadChild
  BY <1>9 DEF ReadChild
<1>10. CASE RegisterChild
  BY <1>10 DEF RegisterChild, EndRestore
<1>11. CASE RestoreFails
  BY <1>11 DEF RestoreFails, EndRestore
<1>12. CASE Rollback
  BY <1>12 DEF Rollback, Running
<1>13. CASE ReadHistory
  BY <1>13 DEF ReadHistory
<1>14. CASE Align
  BY <1>14 DEF Align
<1>15. CASE Reconcile
  BY <1>15 DEF Reconcile
<1>16. CASE Adopt
  BY <1>16 DEF Adopt, Goto, Noted
<1>17. CASE AlignFails
  <2>1. /\ UNCHANGED <<loaded, sessions>> /\ rollback.pc = "aligned" /\ rollback'.pc = "idle"
        /\ lapses' \cap {"rejected", "late"} = lapses \cap {"rejected", "late"}
    BY <1>17 DEF AlignFails, Idle, Noted
  <2> HIDE DEF TypeOK, Threads, Natives, Rollbacks, Labels, Starts
  <2> QED BY <2>1
<1>18. CASE OpenReplacement
  BY <1>18 DEF OpenReplacement, Retained
<1>19. CASE Refuse
  BY <1>19 DEF Refuse, Idle, RollbackHolds
<1>20. CASE Check
  BY <1>20 DEF Check, Goto
<1>21. CASE Discard
  BY <1>21 DEF Discard, Goto, Close, RollbackHolds
<1>22. CASE Reject
  BY <1>22 DEF Reject, Idle, RollbackHolds
<1>23. CASE EndDiscard
  BY <1>23 DEF EndDiscard, Closed, Idle, RollbackHolds
<1>24. CASE Commit
  BY <1>24 DEF Commit, Unchanged
<1>25. CASE Rebind
  BY <1>25 DEF Rebind
<1>26. CASE Project
  BY <1>26 DEF Project, Goto
<1>27. CASE ProjectFails
  BY <1>27 DEF ProjectFails, Goto, Close, RollbackHolds
<1>28. CASE Replace
  BY <1>28 DEF Replace, Goto, Close, Running, RollbackHolds
<1>29. CASE ReplaceThrows
  BY <1>29 DEF ReplaceThrows, Idle, Running, RollbackHolds
<1>30. CASE OldClosed
  BY <1>30 DEF OldClosed, Goto, Closed, RollbackHolds
<1>31. CASE RetireChild
  BY <1>31 DEF RetireChild
<1>32. CASE Register
  BY <1>32 DEF Register, Idle, RollbackHolds
<1>33. CASE UNCHANGED vars
  BY <1>33 DEF vars
<1> QED
  BY <1>1, <1>2, <1>3, <1>4, <1>5, <1>6, <1>7, <1>8, <1>9, <1>10, <1>11, <1>12, <1>13, <1>14,
     <1>15, <1>16, <1>17, <1>18, <1>19, <1>20, <1>21, <1>22, <1>23, <1>24, <1>25, <1>26,
     <1>27, <1>28, <1>29, <1>30, <1>31, <1>32, <1>33
  DEF Next, Turn, Subagent, Derive, Install

\* A restore under way is waited for before the Subagent Threads are retired.
LEMMA RestoreStep ==
  ASSUME TypeOK, TypeOK', RestoreFollows, [Next]_vars
  PROVE  RestoreFollows'
<1> USE ReplacementAssumption
    DEF ReplacementAssumption, TypeOK, Threads, Natives, Rollbacks, Labels, Starts,
        threadVars, childVars, RestoreFollows, Held, Committed
<1>1. ASSUME NEW c \in Calls, Resolve(c) PROVE RestoreFollows'
  BY <1>1 DEF Resolve
<1>2. ASSUME NEW c \in Calls, Begin(c) PROVE RestoreFollows'
  BY <1>2 DEF Begin, MayBegin, Running
<1>3. ASSUME NEW c \in Calls, Answer(c) PROVE RestoreFollows'
  BY <1>3 DEF Answer
<1>4. ASSUME NEW s \in Sessions, Autonomous(s) PROVE RestoreFollows'
  BY <1>4 DEF Autonomous, Running
<1>5. ASSUME NEW s \in Sessions, EndUnidentified(s) PROVE RestoreFollows'
  BY <1>5 DEF EndUnidentified
<1>6. ASSUME NEW s \in Sessions, EndTurn(s) PROVE RestoreFollows'
  BY <1>6 DEF EndTurn
<1>7. ASSUME NEW s \in Sessions, StoreTurn(s) PROVE RestoreFollows'
  BY <1>7 DEF StoreTurn
<1>8. CASE RestoreChild
  BY <1>8 DEF RestoreChild
<1>9. CASE ReadChild
  BY <1>9 DEF ReadChild
<1>10. CASE RegisterChild
  BY <1>10 DEF RegisterChild, EndRestore
<1>11. CASE RestoreFails
  BY <1>11 DEF RestoreFails, EndRestore
<1>12. CASE Rollback
  BY <1>12 DEF Rollback, Running
<1>13. CASE ReadHistory
  BY <1>13 DEF ReadHistory
<1>14. CASE Align
  BY <1>14 DEF Align
<1>15. CASE Reconcile
  BY <1>15 DEF Reconcile
<1>16. CASE Adopt
  BY <1>16 DEF Adopt, Goto, Noted
<1>17. CASE AlignFails
  BY <1>17 DEF AlignFails, Idle, Noted
<1>18. CASE OpenReplacement
  BY <1>18 DEF OpenReplacement, Retained
<1>19. CASE Refuse
  BY <1>19 DEF Refuse, Idle
<1>20. CASE Check
  BY <1>20 DEF Check, Goto
<1>21. CASE Discard
  BY <1>21 DEF Discard, Goto, Close
<1>22. CASE Reject
  BY <1>22 DEF Reject, Idle
<1>23. CASE EndDiscard
  BY <1>23 DEF EndDiscard, Closed, Idle
<1>24. CASE Commit
  BY <1>24 DEF Commit, Unchanged
<1>25. CASE Rebind
  BY <1>25 DEF Rebind
<1>26. CASE Project
  BY <1>26 DEF Project, Goto
<1>27. CASE ProjectFails
  BY <1>27 DEF ProjectFails, Goto, Close
<1>28. CASE Replace
  BY <1>28 DEF Replace, Goto, Close, Running
<1>29. CASE ReplaceThrows
  BY <1>29 DEF ReplaceThrows, Idle, Running
<1>30. CASE OldClosed
  BY <1>30 DEF OldClosed, Goto, Closed
<1>31. CASE RetireChild
  BY <1>31 DEF RetireChild
<1>32. CASE Register
  BY <1>32 DEF Register, Idle
<1>33. CASE UNCHANGED vars
  BY <1>33 DEF vars
<1> QED
  BY <1>1, <1>2, <1>3, <1>4, <1>5, <1>6, <1>7, <1>8, <1>9, <1>10, <1>11, <1>12, <1>13, <1>14,
     <1>15, <1>16, <1>17, <1>18, <1>19, <1>20, <1>21, <1>22, <1>23, <1>24, <1>25, <1>26,
     <1>27, <1>28, <1>29, <1>30, <1>31, <1>32, <1>33
  DEF Next, Turn, Subagent, Derive, Install

-----------------------------------------------------------------------------
\* The inductive invariant.
Replacing == /\ TypeOK /\ TurnsAreLoaded /\ RollbackHolds /\ RecordsAgree /\ ReadBefore
             /\ SessionsHeld /\ RestoreFollows

\* A Thread without rollback.
LEMMA InitReplacing == Init => Replacing
<1> SUFFICES ASSUME Init PROVE Replacing
  OBVIOUS
<1> USE ReplacementAssumption DEF ReplacementAssumption, Sessions
<1>1. store \in Records /\ store.session = 1 /\ 1 \in Sessions
  BY DEF Init, Records
<1>2. /\ thread \in [Sessions -> Threads]
      /\ \A s \in Sessions : thread[s].turn = "none" /\ thread[s].record = store
  BY <1>1 DEF Init, Threads
<1>3. /\ sessions \in [Sessions -> Natives]
      /\ \A s \in Sessions : sessions[s].state = IF s = 1 THEN "open" ELSE "free"
  BY <1>1 DEF Init, Natives, Records
<1>4. calls \in [Calls -> Starts] /\ \A c \in Calls : calls[c].thread = 1
  BY <1>1 DEF Init, Starts
<1>5. rollback \in Rollbacks /\ rollback.pc = "idle"
  BY IdleTyped DEF Init, Idle
<1>6. TypeOK
  BY <1>1, <1>2, <1>3, <1>4, <1>5 DEF Init, TypeOK
<1>7. TurnsAreLoaded /\ RollbackHolds
  BY <1>1, <1>2, <1>3, <1>4, <1>5 DEF Init, TurnsAreLoaded, RollbackHolds, Used, Committed
<1>8. store.revision <= store.revision
  BY <1>1 DEF Records
<1>9. RecordsAgree /\ ReadBefore
  BY <1>1, <1>2, <1>3, <1>5, <1>8 DEF Init, RecordsAgree, ReadBefore, NotAfter, Held, Committed
<1>10. SessionsHeld /\ RestoreFollows
  BY <1>3, <1>5 DEF Init, SessionsHeld, RestoreFollows, Held, Committed
<1> QED BY <1>6, <1>7, <1>9, <1>10 DEF Replacing

\* Replacing is inductive.
LEMMA ReplacingHolds == Spec => []Replacing
<1>1. Replacing /\ [Next]_vars => Replacing'
  BY TypeStep, TurnsStep, RollbackStep, RecordsStep, ReadStep, SessionsStep, RestoreStep DEF
     Replacing
<1> QED BY <1>1, InitReplacing, PTL DEF Spec

-----------------------------------------------------------------------------
(* The theorems. *)

\* Every reachable state of a rollback is well typed.
THEOREM TypeCorrect == Spec => []TypeOK
<1>1. Replacing => TypeOK
  BY DEF Replacing
<1> QED BY <1>1, ReplacingHolds, PTL

\* Unless a rollback failed after its commit, the registered ExternalThread is of the
\* Session that the stored record names between rollbacks, and holds that record unless
\* a refresh that a Turn overtook, or that failed, has left it an older one.
THEOREM LoadedStaysStored == Spec => []LoadedIsStored
<1>1. Replacing => LoadedIsStored
  BY DEF Replacing, RecordsAgree, Held, Undone, LoadedIsStored
<1> QED BY <1>1, ReplacingHolds, PTL

\* Under the same condition a registered Subagent Thread reads the Session that its
\* stored record names.
THEOREM ChildStaysWithParent == Spec => []ChildFollows
<1>1. Replacing => ChildFollows
  BY DEF Replacing, RestoreFollows, Held, Undone, Committed, ChildFollows
<1> QED BY <1>1, ReplacingHolds, PTL

\* No open Session is lost, except after a rejection or a late failure.
THEOREM NoSessionIsLost == Spec => []OpenSessionsAreHeld
<1>1. Replacing => OpenSessionsAreHeld
  BY DEF Replacing, SessionsHeld, Committed, OpenSessionsAreHeld, Used
<1> QED BY <1>1, ReplacingHolds, PTL

\* A commit removes no Turn that was stored after the history was read: a record that
\* is still of the revision that was read is the record that was read, and has the Turns
\* of the history. A refresh removes only Turns that the history did not have.
THEOREM TurnsAreKept == Spec => NewTurnsAreKept
<1> DEFINE Kept == \A t \in store.turns \ store'.turns :
                     IF store'.session = store.session THEN t > rollback.history
                                                       ELSE store.turns = 1..rollback.history
<1>1. Replacing /\ [Next]_vars => [Kept]_vars
  <2> SUFFICES ASSUME Replacing, Next PROVE Kept
    BY DEF vars
  <2>1. store \in Records /\ rollback.history \in Nat
    BY ReplacementAssumption DEF ReplacementAssumption, Replacing, TypeOK, Rollbacks
  <2>2. CASE UNCHANGED store
    BY <2>2
  <2>3. CASE Commit
    <3>1. rollback.read = store /\ store.turns = 1..rollback.history /\ store.session = loaded
      BY <2>3 DEF Commit, Unchanged, Replacing, RecordsAgree, ReadBefore, NotAfter
    <3>2. store'.session = rollback.session /\ rollback.session # loaded
      BY <2>3 DEF Commit, Replacing, RollbackHolds
    <3> QED BY <3>1, <3>2
  <2>4. CASE Reconcile
    <3>1. UNCHANGED store \/ store' = [store EXCEPT !.revision = @ + 1, !.turns = 1..rollback.history]
      BY <2>4 DEF Reconcile
    <3>2. CASE UNCHANGED store
      BY <3>2
    <3>3. CASE store' = [store EXCEPT !.revision = @ + 1, !.turns = 1..rollback.history]
      <4>1. store'.session = store.session /\ store'.turns = 1..rollback.history
        BY <2>1, <3>3 DEF Records
      <4>2. \A t \in store.turns : t \in Nat /\ t >= 1
        BY <2>1 DEF Records
      <4> QED BY <2>1, <4>1, <4>2
    <3> QED BY <3>1, <3>2, <3>3
  <2>5. ASSUME NEW s \in Sessions, StoreTurn(s) PROVE Kept
    <3>1. store.turns \subseteq store'.turns
      BY <2>1, <2>5 DEF StoreTurn, Records
    <3> QED BY <3>1
  <2> QED
    BY <2>2, <2>3, <2>4, <2>5 DEF Next, Turn, Subagent, Derive, Install, threadVars, childVars,
       Resolve, Begin, Answer, Autonomous, EndUnidentified, EndTurn, RestoreChild, ReadChild,
       RegisterChild, RestoreFails, EndRestore, Rollback, ReadHistory, Align, Adopt, AlignFails,
       OpenReplacement, Refuse, Check, Discard, Reject, EndDiscard, Rebind, Project, ProjectFails,
       Replace, ReplaceThrows, OldClosed, RetireChild, Register
<1> QED BY <1>1, ReplacingHolds, PTL DEF Spec, NewTurnsAreKept
=============================================================================
