-------------------------- MODULE SessionReplacement --------------------------
(***************************************************************************)
(* Rollback of an external Thread: executeExternalThreadRollback derives a *)
(* shorter native Session, has the Mapping Store name it, and has          *)
(* ExternalThreadRuntime.replace put it in the place of the loaded one.    *)
(* Beside it, and not ordered by the request queue of the Thread, Turns    *)
(* begin and end and a Subagent Thread of the Thread is restored.          *)
(*                                                                         *)
(* Sessions are numbered as they are opened. A Session is registered at    *)
(* most once, so a number also stands for the ExternalThread object that   *)
(* register made for it. A replacement has a Native Session of its own;    *)
(* adapters that rewind in place have nothing to rebind and are left out.  *)
(***************************************************************************)
EXTENDS Naturals

CONSTANTS
  Calls,        \* turn/start requests and delegated starts
  None,         \* no Subagent Thread is loaded, or no restore runs
  MaxSessions,  \* bound: Sessions opened
  MaxTurns      \* bound: Turns that a Session retains

ASSUME ReplacementAssumption ==
  /\ MaxSessions \in Nat \ {0} /\ MaxTurns \in Nat \ {0}
  /\ None \notin 1..MaxSessions

VARIABLES
  store,     \* the stored record of the Thread
  child,     \* the Native Session named by the stored record of its Subagent
  loaded,    \* the registered ExternalThread
  thread,    \* ExternalThread objects: record, state of their Turn, and whether
             \* persistenceError has turned writes off
  sessions,  \* native Sessions: state and number of Turns in their history
  open,      \* the Session of the registered Subagent Thread, or None
  restore,   \* the restore of the Subagent Thread under way
  rollback,  \* the rollback at the head of the queue of the Thread
  calls,     \* starts
  lapses     \* history: how rollbacks ended that neither succeeded nor were undone,
             \* and "behind" while a refresh has left the loaded Thread an old record

threadVars == <<store, loaded, thread>>
childVars  == <<child, open, restore>>
vars       == <<store, child, loaded, thread, sessions, open, restore, rollback, calls, lapses>>

Sessions == 1..MaxSessions
Used     == {s \in Sessions : sessions[s].state # "free"}
\* turns are the positions, in the history of the Session, of the Turns that a
\* record maps; forked is the number of Turns up to the boundary in forkSource, or 0.
Records  == [session : Sessions, revision : Nat, turns : SUBSET (1..MaxTurns),
             forked : 0..MaxTurns]

NoRecord == [session |-> 1, revision |-> 0, turns |-> {}, forked |-> 0]
Idle     == [pc |-> "idle", thread |-> 1, session |-> 1, kind |-> "last", history |-> 0,
             read |-> NoRecord, next |-> NoRecord]

Running(s) == thread[s].turn # "none"
Goto(pc)   == rollback' = [rollback EXCEPT !.pc = pc]

Init ==
  /\ \E turns \in 1..MaxTurns : \E forked \in {0, turns} :
        /\ store = [session |-> 1, revision |-> 1, turns |-> 1..turns, forked |-> forked]
        /\ sessions = [s \in Sessions |-> IF s = 1 THEN [state |-> "open", turns |-> turns]
                                          ELSE [state |-> "free", turns |-> 0]]
  /\ child = 1 /\ loaded = 1 /\ open = None /\ restore = None
  /\ thread = [s \in Sessions |-> [record |-> store, turn |-> "none", writes |-> "on"]]
  /\ rollback = Idle
  /\ calls = [c \in Calls |-> [pc |-> "idle", thread |-> 1, by |-> "desktop"]]
  /\ lapses = {}

-----------------------------------------------------------------------------
(***************************************************************************)
(* Turns.                                                                  *)
(***************************************************************************)
\* A turn/start leaves the queue of the Thread once it is resolved, so it is
\* resolved when no rollback is at the head; a delegated start, at any time.
Resolve(c) ==
  /\ calls[c].pc = "idle"
  /\ \E by \in {"desktop", "delegated"} :
        /\ by = "desktop" => rollback.pc = "idle"
        /\ calls' = [calls EXCEPT ![c] = [pc |-> "resolved", thread |-> loaded, by |-> by]]
  /\ UNCHANGED <<threadVars, childVars, sessions, rollback, lapses>>

MayBegin(c) ==
  /\ ~Running(calls[c].thread)
  /\ calls[c].by = "desktop" => calls[c].thread = loaded

Begin(c) ==
  /\ calls[c].pc = "resolved"
  /\ IF MayBegin(c)
     THEN /\ thread' = [thread EXCEPT ![calls[c].thread].turn = "begun"]
          /\ calls' = [calls EXCEPT ![c].pc = "starting"]
     ELSE /\ calls' = [calls EXCEPT ![c].pc = "done"]
          /\ UNCHANGED thread
  /\ UNCHANGED <<store, loaded, childVars, sessions, rollback, lapses>>

\* The answer to turn.start. A Session that was asked to close accepts no Turn.
Answer(c) ==
  /\ calls[c].pc = "starting"
  /\ \E turn \in {"none", "accepted"} :
        /\ turn = "accepted" => sessions[calls[c].thread].state = "open"
        /\ thread' = [thread EXCEPT ![calls[c].thread].turn = turn]
  /\ calls' = [calls EXCEPT ![c].pc = "done"]
  /\ UNCHANGED <<store, loaded, childVars, sessions, rollback, lapses>>

\* turn.autonomous.started.
Autonomous(s) ==
  /\ s = loaded /\ sessions[s].state = "open" /\ ~Running(s)
  /\ thread' = [thread EXCEPT ![s].turn = "accepted"]
  /\ UNCHANGED <<store, loaded, childVars, sessions, rollback, calls, lapses>>

\* A Turn that failed before the Harness gave it an identity leaves no trace.
EndUnidentified(s) ==
  /\ thread[s].turn = "accepted"
  /\ thread' = [thread EXCEPT ![s].turn = "none"]
  /\ UNCHANGED <<store, loaded, childVars, sessions, rollback, calls, lapses>>

\* The Harness ends the Turn: its history has it before the Host stores it.
EndTurn(s) ==
  /\ thread[s].turn = "accepted" /\ sessions[s].turns < MaxTurns
  /\ sessions' = [sessions EXCEPT ![s].turns = @ + 1]
  /\ thread' = [thread EXCEPT ![s].turn = "ended"]
  /\ UNCHANGED <<store, loaded, childVars, rollback, calls, lapses>>

\* persistTerminalIdentity: the Store refuses a Turn of a Session its record does
\* not name and a Turn that a refresh has mapped under another identity, or cannot
\* write; a failure is remembered and stops all later writes.
StoreTurn(s) ==
  /\ thread[s].turn = "ended"
  /\ \/ /\ store.session = s /\ thread[s].writes = "on" /\ sessions[s].turns \notin store.turns
        /\ store' = [store EXCEPT !.revision = @ + 1, !.turns = @ \cup {sessions[s].turns}]
        /\ thread' = [thread EXCEPT ![s].turn = "none", ![s].record = store']
        /\ lapses' = lapses \ {"behind"}
     \/ /\ thread' = [thread EXCEPT ![s].turn = "none", ![s].writes = "off"]
        /\ UNCHANGED <<store, lapses>>
  /\ UNCHANGED <<loaded, childVars, sessions, rollback, calls>>

-----------------------------------------------------------------------------
(***************************************************************************)
(* The restore of the Subagent Thread.                                     *)
(***************************************************************************)
RestoreChild ==
  /\ open = None /\ restore = None
  /\ restore' = [pc |-> "reading", session |-> child]
  /\ UNCHANGED <<threadVars, child, open, sessions, rollback, calls, lapses>>

\* The snapshot was read. If the record names another Session by now, the
\* restore begins again.
ReadChild ==
  /\ restore # None /\ restore.pc = "reading"
  /\ restore' = IF child # restore.session THEN [restore EXCEPT !.session = child]
                                           ELSE [restore EXCEPT !.pc = "aligning"]
  /\ UNCHANGED <<threadVars, child, open, sessions, rollback, calls, lapses>>

\* The restore ends, and with it the wait of a rollback for it.
EndRestore ==
  /\ restore # None
  /\ restore' = None
  /\ rollback' = IF rollback.pc = "waiting" THEN [rollback EXCEPT !.pc = "retiring"] ELSE rollback
  /\ UNCHANGED <<threadVars, child, sessions, calls, lapses>>

RegisterChild ==
  /\ restore # None /\ restore.pc = "aligning"
  /\ open' = restore.session
  /\ EndRestore

RestoreFails == UNCHANGED open /\ EndRestore

-----------------------------------------------------------------------------
(***************************************************************************)
(* Rollback. history is the number of Turns of the snapshot that was read, *)
(* read the record it was aligned with and the replacement is derived      *)
(* from, session the replacement, next the record that was committed.      *)
(***************************************************************************)
Close(s)   == sessions' = [sessions EXCEPT ![s].state = "closing"]
\* close returned or failed; rollback treats both alike.
Closed(s)  == sessions' = [sessions EXCEPT ![s].state = "closed"]

Rollback ==
  /\ rollback.pc = "idle" /\ ~Running(loaded)
  /\ rollback' = [rollback EXCEPT !.pc = "refreshing", !.thread = loaded]
  /\ UNCHANGED <<threadVars, childVars, sessions, calls, lapses>>

\* runtime.refresh reads the history of the Session.
ReadHistory ==
  /\ rollback.pc = "refreshing"
  /\ rollback' = [rollback EXCEPT !.pc = "aligning",
                                 !.history = sessions[rollback.thread].turns]
  /\ UNCHANGED <<threadVars, childVars, sessions, calls, lapses>>

\* The snapshot arrived: its Turns are compared with those of the record that the
\* ExternalThread holds by now.
Align ==
  LET record == thread[rollback.thread].record
  IN  /\ rollback.pc = "aligning"
      /\ rollback' = [rollback EXCEPT !.read = record, !.pc =
                        IF record.turns = 1..rollback.history THEN "aligned" ELSE "reconciling"]
      /\ UNCHANGED <<threadVars, childVars, sessions, calls, lapses>>

\* reconcileTurnMappings makes the Turns of the snapshot those of the stored record,
\* whatever it has by now. Turns that the compared record missed got an identity of
\* their own, which the Store refuses if it knows them by another.
Reconcile ==
  LET turns == 1..rollback.history
      new   == IF store.turns = turns THEN store
               ELSE [store EXCEPT !.revision = @ + 1, !.turns = turns]
  IN  /\ rollback.pc = "reconciling" /\ store.session = rollback.thread
      /\ store.turns \cap turns \subseteq rollback.read.turns
      /\ store' = new
      /\ rollback' = [rollback EXCEPT !.pc = "aligned", !.read = new]
      /\ UNCHANGED <<loaded, thread, childVars, sessions, calls, lapses>>

Noted(record) == IF record = store THEN lapses \ {"behind"} ELSE lapses \cup {"behind"}

\* The history was projected. Its record becomes that of the ExternalThread, also
\* if a Turn was stored in the meantime.
Adopt ==
  /\ rollback.pc = "aligned" /\ Goto("opening")
  /\ thread' = [thread EXCEPT ![rollback.thread].record = rollback.read]
  /\ lapses' = Noted(rollback.read)
  /\ UNCHANGED <<store, loaded, childVars, sessions, calls>>

\* The history cannot be projected, but the Store has it.
AlignFails ==
  /\ rollback.pc = "aligned"
  /\ rollback' = Idle
  /\ lapses' = Noted(thread[rollback.thread].record)
  /\ UNCHANGED <<threadVars, childVars, sessions, calls>>

\* The last Turn is dropped, or a derived Thread nobody has continued is cut
\* shorter; Harnesses offer the first, the second, or both.
Retained(kind) ==
  IF kind = "fork" THEN {n \in 1..rollback.history - 1 : rollback.read.forked = rollback.history}
                   ELSE {n \in 0..rollback.history : n + 1 = rollback.history}

OpenReplacement ==
  /\ rollback.pc = "opening"
  /\ \E s \in Sessions \ Used, kind \in {"last", "fork"} : \E n \in Retained(kind) :
        /\ s - 1 \in Used
        /\ sessions' = [sessions EXCEPT ![s] = [state |-> "open", turns |-> n]]
        /\ rollback' = [rollback EXCEPT !.pc = "checking", !.session = s, !.kind = kind]
  /\ UNCHANGED <<threadVars, childVars, calls, lapses>>

\* The history cannot be read or stored, open fails, or there is nothing to roll
\* back to.
Refuse ==
  /\ rollback.pc \in {"refreshing", "aligning", "reconciling", "opening"}
  /\ rollback' = Idle
  /\ UNCHANGED <<threadVars, childVars, sessions, calls, lapses>>

\* The configuration is restored and the snapshot has the expected length.
Check ==
  /\ rollback.pc = "checking" /\ Goto("committing")
  /\ UNCHANGED <<threadVars, childVars, sessions, calls, lapses>>

\* Mutant: a rollback that is refused forgets the Session it opened.
DiscardUnclosed ==
  /\ rollback.pc \in {"checking", "committing"}
  /\ rollback' = Idle
  /\ UNCHANGED <<threadVars, childVars, sessions, calls, lapses>>

\* The checks fail, or the Store refuses or fails.
Discard ==
  /\ rollback.pc \in {"checking", "committing"}
  /\ Close(rollback.session) /\ Goto("discarding")
  /\ UNCHANGED <<threadVars, childVars, calls, lapses>>

\* Session.execute or readSnapshot rejects, outside every try block.
Reject ==
  /\ rollback.pc = "checking"
  /\ rollback' = Idle /\ lapses' = lapses \cup {"rejected"}
  /\ UNCHANGED <<threadVars, childVars, sessions, calls>>

EndDiscard ==
  /\ rollback.pc = "discarding"
  /\ Closed(rollback.session) /\ rollback' = Idle
  /\ UNCHANGED <<threadVars, childVars, calls, lapses>>

\* Mutant: the revision of the record is not compared.
UnchangedSession == store.session = rollback.read.session

\* The record is still the one the replacement was derived from.
Unchanged == store.session = rollback.read.session /\ store.revision = rollback.read.revision

Commit ==
  /\ rollback.pc = "committing" /\ Unchanged
  /\ LET n == sessions[rollback.session].turns
     IN  store' = [session |-> rollback.session, revision |-> store.revision + 1, turns |-> 1..n,
                   forked |-> IF rollback.kind = "fork" THEN n ELSE store.forked]
  /\ rollback' = [rollback EXCEPT !.pc = "projecting", !.next = store']
  /\ UNCHANGED <<loaded, thread, childVars, sessions, calls, lapses>>

\* The Subagent is in the snapshot of the replacement.
Rebind ==
  /\ rollback.pc = "projecting" /\ child = rollback.read.session
  /\ child' = rollback.session
  /\ UNCHANGED <<threadVars, open, restore, sessions, rollback, calls, lapses>>

Project ==
  /\ rollback.pc = "projecting" /\ Goto("replacing")
  /\ UNCHANGED <<threadVars, childVars, sessions, calls, lapses>>

\* A Subagent cannot be stored: the Session is closed, but the Store names it.
ProjectFails ==
  /\ rollback.pc = "projecting"
  /\ Close(rollback.session) /\ Goto("discarding")
  /\ lapses' = lapses \cup {"late"}
  /\ UNCHANGED <<threadVars, childVars, calls>>

-----------------------------------------------------------------------------
Replace ==
  /\ rollback.pc = "replacing" /\ ~Running(rollback.thread) /\ loaded = rollback.thread
  /\ Close(rollback.thread) /\ Goto("closing")
  /\ UNCHANGED <<threadVars, childVars, calls, lapses>>

\* replace throws; nothing takes the replacement back.
ReplaceThrows ==
  /\ rollback.pc = "replacing"
  /\ Running(rollback.thread) \/ loaded # rollback.thread
  /\ rollback' = Idle /\ lapses' = lapses \cup {"late"}
  /\ UNCHANGED <<threadVars, childVars, sessions, calls>>

\* Mutant: a restore under way is not waited for.
OldClosedAtOnce ==
  /\ rollback.pc = "closing"
  /\ Closed(rollback.thread) /\ Goto("retiring")
  /\ UNCHANGED <<threadVars, childVars, calls, lapses>>

\* The old Session and its consumer have ended. A restore of a Subagent that is
\* under way is waited for.
OldClosed ==
  /\ rollback.pc = "closing"
  /\ Closed(rollback.thread)
  /\ Goto(IF restore = None THEN "retiring" ELSE "waiting")
  /\ UNCHANGED <<threadVars, childVars, calls, lapses>>

RetireChild ==
  /\ rollback.pc = "retiring" /\ open # None
  /\ open' = None
  /\ UNCHANGED <<threadVars, child, restore, sessions, rollback, calls, lapses>>

\* Mutant: the record that the rollback was prepared from is registered.
RegisterRead ==
  /\ rollback.pc = "retiring" /\ open = None
  /\ loaded' = rollback.session
  /\ thread' = [thread EXCEPT ![loaded'] =
                  [record |-> rollback.read, turn |-> "none", writes |-> "on"]]
  /\ rollback' = Idle /\ lapses' = lapses \ {"behind"}
  /\ UNCHANGED <<store, childVars, sessions, calls>>

Register ==
  /\ rollback.pc = "retiring" /\ open = None
  /\ loaded' = rollback.session
  /\ thread' = [thread EXCEPT ![loaded'] =
                  [record |-> rollback.next, turn |-> "none", writes |-> "on"]]
  /\ rollback' = Idle /\ lapses' = lapses \ {"behind"}
  /\ UNCHANGED <<store, childVars, sessions, calls>>

-----------------------------------------------------------------------------
Turn     == \/ \E c \in Calls : Resolve(c) \/ Begin(c) \/ Answer(c)
            \/ \E s \in Sessions :
                 Autonomous(s) \/ EndUnidentified(s) \/ EndTurn(s) \/ StoreTurn(s)
Subagent == RestoreChild \/ ReadChild \/ RegisterChild \/ RestoreFails
Derive   == \/ Rollback \/ ReadHistory \/ Align \/ Reconcile \/ Adopt \/ AlignFails
            \/ OpenReplacement \/ Refuse \/ Check \/ Discard \/ Reject \/ EndDiscard
Install  == \/ Commit \/ Rebind \/ Project \/ ProjectFails
            \/ Replace \/ ReplaceThrows \/ OldClosed \/ RetireChild \/ Register

Next == Turn \/ Subagent \/ Derive \/ Install
Spec == Init /\ [][Next]_vars
-----------------------------------------------------------------------------
Committed == {"projecting", "replacing", "closing", "waiting", "retiring"}
Undone    == "late" \notin lapses /\ rollback.pc \notin Committed

Labels    == {"idle", "refreshing", "aligning", "reconciling", "aligned", "opening", "checking",
              "discarding", "committing"} \cup Committed
Rollbacks == [pc : Labels, thread : Sessions, session : Sessions, kind : {"last", "fork"},
              history : 0..MaxTurns, read : Records, next : Records]
Threads   == [record : Records, turn : {"none", "begun", "accepted", "ended"},
              writes : {"on", "off"}]
Natives   == [state : {"free", "open", "closing", "closed"}, turns : 0..MaxTurns]
Starts    == [pc : {"idle", "resolved", "starting", "done"}, thread : Sessions,
              by : {"desktop", "delegated"}]

TypeOK ==
  /\ store \in Records /\ child \in Sessions /\ loaded \in Sessions
  /\ thread \in [Sessions -> Threads] /\ sessions \in [Sessions -> Natives]
  /\ open \in Sessions \cup {None}
  /\ restore \in [pc : {"reading", "aligning"}, session : Sessions] \cup {None}
  /\ rollback \in Rollbacks /\ calls \in [Calls -> Starts]
  /\ lapses \subseteq {"rejected", "late", "behind"}

\* Unless a rollback failed after its commit, the registered ExternalThread is of the
\* Session that the stored record names, and it holds that record: the next write and
\* the next compare-and-swap start from what the Store holds. A refresh that a Turn
\* overtook, or that failed after it wrote, leaves an older record, until the next
\* Turn is stored or the next refresh succeeds.
LoadedIsStored ==
  Undone => /\ store.session = loaded /\ thread[loaded].record.session = loaded
            /\ thread[loaded].record = store \/ rollback.pc = "aligned" \/ "behind" \in lapses

\* Under the same condition a registered Subagent Thread reads the Session that its
\* stored record names, even if it was being restored during the rollback.
ChildFollows == Undone => open \in {None, child}

\* Whatever fails, an open Session is registered or in the hands of a rollback,
\* except after a rejection or a late failure.
OpenSessionsAreHeld ==
  \A s \in Used : sessions[s].state = "open" =>
    s = loaded \/ (rollback.pc # "idle" /\ s = rollback.session) \/ lapses \cap {"rejected", "late"} # {}

\* A commit removes no Turn that was stored after the history was read: it replaces a
\* record that has the Turns of that history. The refresh does remove such Turns, if
\* they ended while it waited for the history, and no others.
NewTurnsAreKept ==
  [][\A t \in store.turns \ store'.turns :
       IF store'.session = store.session THEN t > rollback.history
                                         ELSE store.turns = 1..rollback.history]_vars

\* Violated: the refresh of a rollback removes no Turn from the record. The history it
\* waited for may be older than the record that it is aligned with.
RefreshKeepsTurns == [][store'.session = store.session => store.turns \subseteq store'.turns]_vars

\* What the Store documents and the answers of rollback promise: when a rollback has
\* ended, with or without success, the Store names the Session of the loaded Thread.
\* Not so: a Turn that began during the rollback makes replace throw, or a Subagent
\* cannot be stored, after the Store was written.
StoreNamesLoaded == rollback.pc \in Committed \/ rollback.pc = "discarding" \/ store.session = loaded
=============================================================================
