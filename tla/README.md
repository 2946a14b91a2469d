# Codex-Connect: TLA+ models and proofs

Codex-Connect puts a Host process between the Codex Desktop application and the official
Codex app-server. Threads of other coding agents ("external Harnesses") appear in the Desktop
next to Codex's own. This directory models the Host's core: what it stores about external
Threads, how it starts them, how it starts, replaces and ends their Turns, and when it opens,
replaces and closes their native Sessions. It also models the owner of the official app-server
process, the broker that serves a Harness to other processes, and the lock around the control
socket of a remote Host.

Every definition is translated from the code named for it in `PROJECT.json` ("map"). Paths
below are relative to the repository root.

## 1. Inventory

| Part | State | Operations | What is hard | What makes it correct |
|---|---|---|---|---|
| Mapping Store, Threads (`packages/mapping-store`) | `#records`, indexes; `threads/*.json`, `backups/*.json` | create, commit, mapping updates, Session replacement, remove, initialize | crashes and failures between file steps, damaged files, callers with old records | identities unique; files and memory agree; a restart succeeds; compare-and-swap |
| Mapping Store, lock | `store.lock` | acquire, steal, release | several processes, dead owners, process IDs used again, file operations that fail and are ignored | one owner; nobody locked out but by a holder or what looks like one |
| Mapping Store, Delegations | `#delegations`, `delegations/*.json` | create, set status, remove, load | not ordered by the write queue | one Delegation for a request; status survives |
| Delegation coordinator (`host-runtime/src/harness-delegation-coordinator.ts`) | calls under way | start, list, read, wait, send, close | retries racing the first call, cleanup of half a start, which may fail in turn | one child for a request; a failed start leaves nothing |
| Turn steering (`external-turn-steering.ts`, `app-server-host.ts`) | `#pending`, `#receipts`, `running`, `activeTurnId` | steer, start, send, interrupt, project an output | terminal, stop, fault, timeout and close racing; repeated deliveries | replaced once, after the old Turn ended; no overlap; Host and Harness agree on what runs; always answered |
| Thread runtime (`external-thread-runtime.ts`) | `#threads`, `#restores` | locate, resolve, restore, register, replace, remove | a restore across awaits | one Session for a Thread |
| Idle release (`external-thread-idle-release.ts`) | `#operations`, `#closing`, activity | run an operation, check, close, configure, stop | a close that is late or fails; operations outside the queue | no two writers; no Session closed under an operation |
| Desktop request queue (`desktop-request-queue.ts`) | a chain for each Thread | run, drain | a head that does not end | every request leaves it |
| Routing and shutdown (`app-server-host.ts`) | Desktop requests under way | about a hundred methods | order of shutdown | nothing outlives the Host |
| Rollback, fork, Subagent Threads (`external-thread-rollback.ts`, `external-subagent-threads.ts`) | the loaded Thread, its record, the records of its Subagents | replace a Session, copy a Thread, rebind and retire Subagents | Store, runtime and Harness changed one after the other, beside Turns and restores | record, Session and Subagents belong together; nothing removed unread; no Session lost |
| Official runtime (`codex-runtime/`, `official-*.ts`) | process, phase, gate, leases, clients, scope | start, stop, attach, detach, admit, send, retire, close | stops racing starts, late exits, writes that wait while work is retired | one process; work only while it can be answered; a close that ends |
| Harness Broker (`packages/harness-broker`) | server records, native Sessions, writer leases, generations; wrappers and connections of clients | open, fork, reopen, claim, execute, close; recover, time out, reconnect | sockets that close under a request, identities other than expected, answers of an older generation, timeouts | one writer for an identity; leases belong to records; wrappers match records |
| Remote Hosts (`remote-*.ts`) | registers and guard of the socket lock; installation; the remote process | lock, install, connect, restart | processes that die or are slow at any point | one initializer of the socket |
| Delegation control API | registrations | route | several windows | each request handled once |
| Thread lists, protocol core | pages, projected items | merge, project | stale cursors, order of items | nothing lost or doubled |
| Update manager, updater, launcher, shim (`crates/`) | operation files, leases | check, install, hand over, lease | crashes during installation, several launchers | one owner; the old version can be restored |
| Desktop control, renderer extension | CDP sessions, user interface | attach, inject, render | reloads | reattached once |
| Harness adapters, discovery, accounts, usage, import | native processes and files | open, execute, translate | third-party formats | the Session contract |

How the modelled parts interact: the Desktop's requests enter the request queue of their
Thread. Each runs as an operation that idle release counts. It resolves the Thread through the
runtime, which restores a Session from the record in the Mapping Store if none is loaded. Turn
requests are then dispatched as operations of their own, so that the queue goes on. Calls of the
delegation API come in beside the queue. Outputs of a Session are projected one at a time by
`#consumeHarnessOutputs`. Everything above the file system runs on one JavaScript thread:
between two awaits a handler is atomic, and at every await anything else may run. That is
the granularity of the models.

## 2. Modules

| Module | Models | Correspondence |
|---|---|---|
| `ThreadStore` | the Thread half of `MappingStore` | One action for each operation up to its place at the head of the write queue (`Replace` validates and numbers the new record as `#update` does), then one action for each file step. `records`, `primary` and `backup` are `#records`, `threads/ID.json` and `backups/ID.json`. `initialize` reads one file at a time. |
| `AtomicThreadMap` | nothing in the code: the promise | A map that changes one Thread at a time, with revisions without gaps. `ThreadStore` implements it with `map <- OnDisk`. |
| `ThreadStore_proofs` | | Theorems about `ThreadStore`. |
| `StoreLock` | `#acquireLock`, `lockOwnerIsLive`, `close` | One action for each file operation and one for its failure, several processes. `OwnerIsLive` is what `lockOwnerIsLive` may answer. |
| `DelegationStart` | `HarnessDelegationCoordinator.start` and the Delegation half of the Store | One action between two awaits. `threads` and `delegations` are sequences because `#rebuildIndexes` throws at the first duplicate in insertion order and leaves the indexes half built. |
| `DelegationStart_proofs` | | Theorems about `DelegationStart`. |
| `TurnSteering` | `ExternalTurnSteering` with start, send, interrupt and projection in `AppServerHost` | `active` is `running` and `activeTurnId`, `pending` and `receipts` are the fields of those names, `command` is `#pendingExternalCommandRequests`. |
| `TurnSteering_proofs` | | Theorems about `TurnSteering`. |
| `ThreadSession` | runtime, queue, idle release, `thread/delete` and shutdown, composed for one Thread | `Operating` is `#operations`, `releasing` is `#closing`, `candidate` and the token `"release"` in `queue` are `#scheduled`, `blocked` and `failed` are `closeFailed` and `outputFailed`. |
| `ThreadSession_proofs` | | Theorems about `ThreadSession`. |
| `SessionReplacement` | rollback, `replace`, `refresh`, the writing of Turn identities, and the restore and retirement of a Subagent Thread, composed for one Thread | `store` and `child` are the stored records, `loaded`, `thread` and `open` the entries of `#threads`, `restore` an entry of `#restores`. `refresh` is `ReadHistory`, `Align`, `Reconcile`, `Adopt`: one action between two awaits. `rollback.pc` is the await that `executeExternalThreadRollback` is in. |
| `SessionReplacement_proofs` | | Theorems about `SessionReplacement`. |
| `OfficialRuntime` | `OfficialRuntimeOwner`, `OfficialWorkGate`, `OfficialRuntimeScope` and the Hosts that use them | `startPc` and `stopPc` are the awaits of the coroutines `start` and `stop`; `pending` and `leases` are the entries of the clients and of the gate. `answers` counts what a Desktop is told. |
| `OfficialRuntime_proofs` | | Theorems about `OfficialRuntime`. |
| `HarnessBroker` | `server.ts` and `client.ts` of the broker | One action for each part of a handler between two awaits. `writers` and `provisional` are `nativeWriters` and `provisionalNativeWriter`; `serving` is the request a connection is in, "drop" the close of a native Session that is not wanted; the two directions of a connection are sequences of frames. |
| `HarnessBroker_proofs` | | Theorems about `HarnessBroker`. |
| `SocketLock` | `withRemoteAppServerSocketInitializationLock` | One action for each file operation; `register` and `guard` are the files, the variables in `memory` what a contender holds. |
| `Lock_proofs` | | Theorems about `SocketLock` and `StoreLock`. It extends both, which is why `StoreLock` has `LockInit`, `LockNext`, `LockSpec` and `place` for `Init`, `Next`, `Spec` and `pc`. |

`MC*.tla` add symmetry sets for TLC. A definition whose comment begins with "Mutant" is a
variant with a plausible bug; `PROJECT.json` says which property it breaks. Nothing else uses it.

### Abstractions

- An identity is a model value. A Native Turn is the pair of Session and key that
  `nativeTurnIdentity` joins.
- A file is absent, malformed, or a record. A malformed file is one that does not parse or fails
  the schema; the code treats both alike.
- Titles, archived state and transport model are one action that bumps the revision.
- In `DelegationStart` the child Thread of a call has the call's name, and the file of a Thread is
  written in one step (its steps are in `ThreadStore`).
- In `ThreadStore` a removal that fails while `initialize` drops a provisional Thread is left out.
  It makes `initialize` throw, and the next one finds the record again, or its backup alone, which
  it does not read.
- In `StoreLock` the wall clock is not set by more than five seconds while a Host runs, so that a live
  process is recognised by the start that its lock records. Who has a reused process ID is guessed,
  as in the code.
- In `TurnSteering` the text of a message is identified with its ID.
- In `ThreadSession`, `locate` and the part of `resolve` before the restore are one step:
  the awaits inside read memory only.
- In `SessionReplacement` a Session and the `ExternalThread` registered for it have one number. Of
  a history only its length is kept, and a record maps positions in it. `close` that returned and
  `close` that failed are one step, because `replace` treats them alike. `persistTurn` and
  `reconcileTurnMappings` are one step each (their steps are in `ThreadStore`), and writes of titles
  and the like are left out. Of the callers of `refresh` only the rollback is modelled: the fork of a
  source Thread, the reading of a history and the coordinator (456) refresh in the same way. A Session
  that was asked to close accepts no Turn and starts none.
- In `OfficialRuntime` a scope that has started once never starts its owner again, so the restoring
  of official Threads for a later process has nothing to do and is left out.
- In `HarnessBroker` a Harness may give a Session any identity; one of another Harness or of another
  format is no identity. An open that forks and one that drops the last Turn are alike. A native
  close succeeds, though any time later, and a wrapper makes one call at a time, except that
  `close` may overtake a recovery. Bytes and lines of the framing are left out.
- In `SocketLock` owner tokens are numbers, which gives the order that the tokens have. "Slow" is
  an action that makes a register look thirty seconds old.

Each module states a `TypeOK`. It holds in the runs of all modules; the list of `store_damage` has
the one of `ThreadStore`.

## 3. Runs

Bounds are named constants (`Max...`) that appear in guards. Sets are symmetric where no
property names an element; runs with liveness use no symmetry.

| Run | Question | Bounds and why they are enough |
|---|---|---|
| `store_atomic` | Can legal calls make two records clash, or a crash or failure leave files that cannot be loaded or are not what callers were told? Does the Store implement the atomic map? | Two Threads, Sessions and requests: a clash needs two of one and one of the other. Three revisions: create, commit, change. One crash and one failed file operation, at any step of any operation. |
| `store_damage` | What does damage cost, and does a replacement see a write it has not read? | One Thread whose two files may both be damaged, one crash, one failed unlink that may finish late. Two Sessions, two Turns and four revisions: read, another write, replacement. |
| `lock_acquire` | Who owns the lock, and who is turned away? | Four processes, three of which may die, three acquisitions at once: one process can judge a lock, a second take it, a third find it. Two file operations that fail: one that leaves a lock, and one of those who come next. |
| `delegation_retry` | What does a start leave, and is a child started once for a request? | Three calls of one request, two at once: it can be raced, and then retried; calls of other requests meet it in memory only, and the theorems are about any number. One crash, two writes or removals that fail, every refusal, Sessions that know their Native Session late. |
| `delegation_race_reopen` | Finding | Two calls, one crash. |
| `steer_turns` | Is a Turn replaced once, in order, do Host and Harness agree on what runs, and is every steer answered? | Two steers that may be one message, a start, a delegated start, a Turn of the Harness, one receipt kept. Two steers of one Turn meet in every order; the second Turn can be steered again; a receipt is evicted. |
| `steer_preempted` | Finding | One steer, one start, one delegated start. |
| `session_release` | Can two Sessions write, an operation lose its Session, a Session outlive the Host, a request stay in the queue? | Two requests, a delete and a delegated call: three of them can open a Session, so three Sessions, and the bound never stops a caller. |
| `session_rollback` | Do Store, loaded Thread, Session and Subagent stay together through rollbacks? | One start (Desktop or delegated) and any number of Turns of the Harness, up to three in a history: one to roll back, one to keep, one that ends during the refresh. Two Sessions, that is one replacement, after any number of rollbacks that refresh and refuse; every failure of a rollback, and restores without bound. |
| `official_runtime` | Is there one process, is every admitted request answered, does a close end? | Two Hosts with two requests each: one may attach, leave or break while the other works. Two processes: one may be alive while the next would start. |
| `harness_broker` | Does an identity keep one writer, and do clients and server agree on what is open? | Two clients, two connections: one client with an old and a new connection, or two that compete. Two identities, so that one can be forked to, or confused with, the other. Two opens, three native Sessions (each opened and one reopened), two faults, failures of the Harness (a wrong identity is one), timeouts or lost connections: a recovery can fail, too. Once a second client has connected, one fault. |
| `socket_lock` | Does the lock exclude, and what is left behind? | Three contenders: a winner, a waiter and one that clears away the dead. Tickets up to two, after which a contender gives up. One fault: a crash or a lapse, so that two live contenders meet over what a dead one left. |

All runs set `CHECK_DEADLOCK FALSE`: once the bounded calls are used up nothing is left to do.

Some promises are kept only as long as callers do not race. `StoreLock` and `DelegationStart`
each carry a history variable (`overlapped`, `raced`) that the code does not have, so that one
run can say both what holds however callers race and what holds when they do not. `Orderly`
in `DelegationStart` also excludes a start taken back after its Turn began. The same use have
`misread` and `kept` in `StoreLock` (the lock of a live process could not be read; a lock stayed
because its removal, its renaming or its sync failed), `kept` in `DelegationStart` (a start whose cleanup
failed), `strays` and `dropped` in `HarnessBroker` (native Sessions that no record vouches for: a
wrong identity, a socket closed during an open or a reopening; an output that its wrapper missed),
`lapses` in `SocketLock` (a live owner was slow) and `lapses` in `SessionReplacement` (how a rollback
failed that nothing undoes, and that a refresh has left the loaded Thread an older record). Failures
and races that these exclude are steps of the models all the same: the properties say what holds
of everybody else, and section 5 what the code then does.

### Fairness

- `TurnSteering`: continuations run, the timer of twenty seconds fires, and a Session answers
  `turn.start` and reads its command catalog. A Session need neither answer `turn.cancel` nor end
  a Turn: the timer is what makes `SteerSettles` true, and the mutant whose timer stops after the
  cancel breaks it.
- `ThreadSession`: operations return, the timer of sixty seconds fires, and the Harness answers
  `open`, `readSnapshot` and the close that a failed restore or a `thread/delete` waits for. Those
  closes have no timeout in the code (`external-thread-runtime.ts:652`,
  `app-server-host.ts:3418`); without the assumption a request may wait for ever. The close of a
  release need not be answered.
- `OfficialRuntime`: the listener of the process gets ready or fails, for which the code has ten
  seconds (`remote-official-app-server.ts:106`, 343-352); `stop` goes on, because SIGTERM and SIGKILL
  are each waited for with a timeout, after which the stop is not confirmed, a step of its own
  (`StopUnconfirmed`); and a Host runtime that closes does close its scope. Nothing is assumed of the
  process, of Desktops or of requests. Nor is it assumed that a start goes on once the process has been
  spawned: the opening of a connection (`remote-official-connection.ts:136-180`) and the drain of
  what `initialize` writes (`official-runtime-owner.ts:278`, `jsonl.ts:64-88`) have no timeout. A stop
  waits for such a start (`official-runtime-owner.ts:158`), and so does the close of the scope: it may
  never end. `CloseSettles` therefore has the premise `[]<>~Unbounded`, that no start stays in these
  awaits for ever; without it TLC finds the close that never ends.

The other modules state safety only.

## 4. Proofs

`ThreadStore_proofs` proves, for all values of the constants that satisfy `StoreAssumption` (the
null values differ from the data, the bounds are naturals):

1. `TypeCorrect`: `Spec => []TypeOK`.
2. `IdentitiesStayUnique`: `Spec => []IdentitiesUnique`. Uniqueness is not inductive: the
   record that a job will commit was validated when the job began. `JobValidated` says that the
   validation still holds at every later step, because nothing else changes `records` while the
   job has the write queue. `CommitKeepsIndexable` (writing a record that parses and clashes with
   nothing keeps the map indexable) and `RemovalKeepsIndexable` do the rest.
3. `ReplacementIsCompareAndSwap`: `Spec => ReplacementSeesItsRead`. The invariant `CasInv` says
   that a Thread ID is used once, that a job is one revision ahead of its record, and that what a
   caller read is the record itself or an older revision of it. Equal revisions then mean
   equal records.

4. `FilesKeepWhatWasTold`: `Spec => []DiskFollowsMemory`, and `BackupIsRecent`: `Spec =>
   []BackupAtMostOneBehind`. `FilesInv` says for each file step of a job what the two files hold: the
   stored record, the one before it, or the one being committed; while the Store loads, what the
   files will be repaired to.
5. `UndamagedStoreRestarts`: `Spec => []RestartSucceeds`. `DiskIndexable`: the files, each taken with the
   backup that stands in for it, never clash, at any point at which the process may die.
6. `FilesAreAnAtomicMap`: `MaxDamage = 0 /\ MaxRmErrors = 0` implies `Spec => ImplementsAtomicMap`,
   the refinement step by step. The two conditions are those under which the code keeps the promise,
   and those of the run: a file damaged from outside loses a Thread, and an unlink that fails after
   the other has removed its file leaves memory ahead of the files.

Of `StoreLock`, `Lock_proofs` proves, for any processes and bounds (`StoreLockAssumption`: the bounds
are naturals and `NoLock` is not a lock record), with any number of file operations that fail:

1. `LockTypeCorrect`: `LockSpec => []LockTypeOK`.
2. `LockNamesItsHolder`: `LockSpec => []LockNamesHolder`, which is inductive with `LockTypeOK`.
   A lock whose own removal or sync failed is in `kept` until its process creates another.
3. `ExclusiveWithoutOverlap`: `LockSpec => []ExclusiveUnlessOverlapped`. The inductive invariant is
   `SerialInv`: as long as acquisitions did not overlap and the lock of no live process was misread,
   whoever owns or releases the Store has its name in the written lock, a process writes only the
   empty lock it created, and nobody holds the Store while a lock is renamed aside.
4. `OnlyHoldersRefuse`: `LockSpec => RefusedOnlyByHolder`. Whoever is turned away finds the lock of a
   holder, of a dead process whose ID is in use again, or of one whose removal failed. The last
   two the code does turn away for, and the specification of the Store asks for the second.

Of `SocketLock`, `Lock_proofs` proves, for any contenders, tickets and faults (`LockAssumption`:
contenders are positive naturals, `Absent` is not a natural, the bounds are naturals):

1. `TypeCorrect`: `Spec => []TypeOK`.
2. `Exclusion`: `Spec => []ExclusiveUnlessLapsed`. A catalog is read name by name while registers
   change, so that exclusion needs the argument of the bakery. `Passed(c, d)` says that `c` has
   read the register of `d` and found no reason to wait. `PassedComeLater`: then every ticket `d`
   has, or will draw from what it has read, comes after the one of `c`. Two contenders inside would
   have passed each other. All of it holds as long as no live contender was taken for abandoned,
   which is when the code itself unlinks a register that someone relies on.
3. `OwnershipKept`: `Spec => []OwnershipLostOnlyIfLapsed`, and `LiveRegisters`: `Spec =>
   LiveRegistersStay`, from the same invariant: whoever is about to be unlinked is dead.
4. `ReturnClean`: `Spec => []ReturnLeavesNothing`, with an invariant of its own (`GuardsHeld`) that
   does not need the absence of lapses.

`DelegationStart_proofs` proves, for any finite set of calls, any requests and any number of crashes
and failed writes (`DelegationAssumption`: the calls are finite, and `None` is no call, request or
status):

1. `TypeCorrect`: `Spec => []TypeOK`, which includes that the Maps of the Store hold a key once.
2. `OneChildForARequest`: `Spec => []OneStartPerRequest`, however calls race. `LiveIsStored` carries
   it: a call that has its Delegation and has not begun to give it up has it in memory and on disk,
   and no other such call has its request. That is what `#rebuildIndexes` sees to, which throws at
   the second Delegation of a request, so that `IndexIsCurrent` is needed as well: what the indexes
   hold when a rebuild throws half-way is still the truth about those requests that do not repeat.
3. `AnswersNameStored`: `Spec => []AnswerNamesStoredChild`; `FailuresLeaveNothing`: `Spec =>
   []RefusedStartLeavesNothing`; `RetriesReopen`: `Spec => []RetriedStoreReopens`. They are about
   orderly histories, but `Orderly` may come back: a crash turns a start that was being taken back
   into a lost one. `Tidy` is weaker and does not come back once it is lost, and under it `Unraced`
   is inductive: calls under way, Delegations and Threads have different requests (`RequestsApart`),
   disk and memory agree but for calls under way and those in `kept` (`FilesInMemory`), a call is
   given the record of another only if a crash has ended that one (`RecordsAreOwn`), and a start
   that fails has given up, at each label, what the code has undone by then (`GivenUp`), or is in
   `kept`. A cleanup that failed is no excuse for others: only answers to its own request, and what
   it left itself, are excluded.

`SessionReplacement_proofs` proves, for any starts, Sessions and lengths of history
(`ReplacementAssumption`: the bounds are positive, `None` is not a Session):

1. `TypeCorrect`: `Spec => []TypeOK`.
2. `LoadedStaysStored`: `Spec => []LoadedIsStored`. During a rollback the two do differ. The invariant
   `Replacing` says what holds instead: before the commit the record of the registered Thread is the
   stored one, or an older one that a refresh has left (`NotAfter`, `RecordsAgree`); after it the record
   that will be registered is the stored one; only the registered
   Thread can have an accepted Turn, so nobody else can write (`TurnsAreLoaded`); and the Thread that
   a rollback works on stays registered until it registers the replacement (`RollbackHolds`).
3. `ChildStaysWithParent`: `Spec => []ChildFollows`. `RestoreFollows` says that from the retirement on
   a restore that has read its snapshot has read the right one: earlier ones were waited for, and
   later ones find the record already rebound.
4. `NoSessionIsLost`: `Spec => []OpenSessionsAreHeld`. `SessionsHeld` sharpens it to the labels at which
   a rollback has a replacement, because a rollback that has opened none holds no Session.
5. `TurnsAreKept`: `Spec => NewTurnsAreKept`. `ReadBefore`: what a rollback read is an older revision of
   the record, or the record, and once the refresh is over it has the Turns of the history that was
   read. The comparison in the Store (`Unchanged`) then makes it the record.

`ThreadSession_proofs` proves, for any requests, Sessions and numbers of deletes and calls:

1. `TypeCorrect`: `Spec => []TypeOK`.
2. `NeverTwoWriters`: `Spec => []OneWriter`. Every Session but the last opened can no longer write
   (`LastWrites`); a new one is only opened when the last one cannot either: by the one restore that
   is under way, when nothing is loaded, and not after a release whose close did not return.
3. `UsersKeepTheirSession`: `Spec => []UsersHoldOpenSession`. `LoadedIsOpen` and `UsersHold`: the
   operation that was given a Session is counted in `Operating` until it ends, and while a release
   closes the loaded Session nothing is counted (`ReleaseIsAlone`).
4. `ShutdownClosesAll`: `Spec => []NoSessionOutlivesHost`, and `BlockedNeverGivenOut`: `Spec =>
   BlockedStaysUnused`.

`OfficialRuntime_proofs` proves, for any Hosts, requests and numbers of processes:

1. `TypeCorrect`: `Spec => []TypeOK`.
2. `AtMostOneProcess`: `Spec => []OneProcess`. `Owning` says for each phase which
   process the owner has, and that no other is alive; `Killing` that a stop under way is about a
   process that is still owned, so that no start takes its place before it is gone.
3. `GateIsHonest`: `Spec => []LeasesHaveWork`, and `AnswersAreCounted`: `Spec =>
   []SecondAnswerNeedsThrownWrite`. `Admitted` says that the gate is open in no phase but `running`,
   and that what waits, or keeps a lease, is on an open connection; `Connected` which connections
   the attached clients have in each phase; `Answering` how many answers a request got where it
   stands.
4. `ClosedIsFinal`: `Spec => ClosedScopeStaysShut`.

`HarnessBroker_proofs` proves, for any clients, connections, opens and native Sessions
(`BrokerAssumption`):

1. `TypeCorrect`: `Spec => []TypeOK`.
2. `LeasesAreExact`: `Spec => []LeasesMatchRecords`. `Holds` and `Backed` are the two directions: a
   record that is open or closing holds the lease of its identity, and a lease has a record, or an
   open, that will give it back.
3. `OneWriterPerIdentity`: `Spec => []OneWriterBesideStrays`. The lease is taken, or moved to the
   identity a fork was given, before anything else runs, and given back after the native Session is
   closed. A native Session that may write and is no stray is that of a record that holds its
   identity (`Backed`), and one record holds it.
4. `WrappersFollow`: `Spec => []WrapperFollowsRecord`, and `NothingForgotten`: `Spec =>
   []NoSessionIsForgotten`. Both compare the two ends when nothing is under way, so the invariant has
   to say what is: `OnTheWay` (`Spec => []WInv`). Until a request on a connection has timed out, what
   is awaited on it is in one place: a request, the work of the server, or one answer among the outputs
   (`InOrder`). A fault that was told is that of the record, or of an earlier generation (`Told`). A
   wrapper that is not faulted is bound to a Session of the present generation, and what it does not
   know of it is among the frames to it, or was dropped (`Bound`, `Follows`). So is the answer that
   will bind it; a reopening has a later generation than the wrapper (`Valid`). A Session that
   the server lists for a connection is in an answer, in the wrapper, or in a request to close it
   (`Remembered`). `ServerKeeps` and `ClientKeeps` reduce a step to the connection it is about, and
   `ChanKept` is the rest.

`TurnSteering_proofs` proves, for any steers, starts, delegated starts and Turns of the Harness, and
any size of the cache of receipts:

1. `TurnsNeverOverlap`: `Spec => []NoOverlappingTurns`, and `HostAndHarnessAgree`: `Spec =>
   []ActiveMatchesHarness`. Numbers of Turns are fresh. A caller that waits for `turn.start` holds
   the active Turn (`Executing`), what the Harness runs is that Turn or one whose begin and end
   are still unread (`NativeRuns`, `Ordered`), and an end that can be read is that of the active Turn
   (`EndsAreDue`).
2. `AtMostOneReplacement`: `Spec => []ReplacedOnce`, and `ReplacementsFollowEnds`: `Spec =>
   ReplacementFollowsEnd`. `ReplacedInTurn`: a pending steer has one holder, who alone can replace
   its Turn (`Holder`, `Reserved`); a Turn that was replaced was announced (`Replaced`), and a Turn
   that was announced is never active again.

The type of the receipts is no part of this: they decide what a repeated steer is told, not who
replaces a Turn.

Each theorem has one lemma for the step, with a case for each action. The invariants were checked with
TLC on the bounds of the runs before they were proved.

Every invariant and action property that a passing run checks is a theorem; liveness is only
model-checked. `TypeOK` of `TurnSteering` is not proved; TLC finds it to hold on the bounds of
`steer_turns`. Out of the prover's reach: liveness under fairness (`SteerSettles`, `RequestsServed`,
`CloseSettles`), `ENABLED`, and induction over data.

## 5. Where code and documents disagree

Each of these has a run:

| Run | What happens |
|---|---|
| `delegation_race_reopen` | Two concurrent starts of one request write two Delegation files; after a crash the Store never opens again (`mapping-store.ts:951-952`). |
| `steer_preempted` | A start that was waiting for the command catalog preempts a replacement reserved meanwhile (`app-server-host.ts:3740`). |

Twelve more are stated as definitions that no run lists; checking one in a configuration of its
module gives the behaviour described:

| Definition | What happens |
|---|---|
| `ThreadStore!ReadyThreadIsRestored` | A damaged file whose backup is still the provisional revision loses a ready Thread: the valid backup is restored, then dropped as provisional (`mapping-store.ts:282`). One Thread, one damage, one crash. |
| `ThreadStore!DamageIsIsolated` | A restored older revision may hold an identity that another Thread has taken since. `#rebuildIndexes` throws and the Store does not open at all (`mapping-store.ts:308`). Two Threads, one damage, one crash. |
| `DelegationStart!FailedStartLeavesNothing` | A status written during the cleanup of a failed start brings its file back (`mapping-store.ts:424`), or a removal of the cleanup fails, which the coordinator ignores (`harness-delegation-coordinator.ts:361-363`): a Delegation or a Thread stays, and a retry may be answered from it. One call, `IdentityAtOpen` FALSE; or one call, one failed file operation. |
| `DelegationStart!StatusOnDisk` | Overlapping status changes leave different statuses in memory and on disk (`mapping-store.ts:424`). One call. |
| `DelegationStart!TerminalStatusSticks` | `running`, checked before an await, replaces `completed` (`mapping-store.ts:411`), which a test of the Store expects it does not (`packages/mapping-store/test/index.test.ts:264-268`). One call. |
| `StoreLock!ExclusiveOwner` | A process that found `store.lock` empty, or naming a dead owner, renames it later, when it may be the lock of a process that has just acquired it (`mapping-store.ts:903`). So is a lock whose reading fails (`mapping-store.ts:897`), whoever has it. Both then own the Store, which acquires "one exclusive process lock" (`openspec/specs/external-thread-mapping-store/spec.md:41`). Four processes, two acquisitions at once; or two processes, one failed read. |
| `ThreadSession!DeletedThreadIsClosed` | A restore under way during `thread/delete` registers an open Session for the deleted Thread (`app-server-host.ts:3405-3411`), although "the Host closes and removes that Thread locally" (`openspec/specs/versioned-renderer-agent-routing/spec.md:154`). One delete, one delegated call. |
| `SessionReplacement!StoreNamesLoaded` | A Subagent cannot be stored after the commit of a rollback: the answer is "External rollback could not be persisted", the replacement is closed, and the Store names it (`external-thread-rollback.ts:199-204`). Or a Turn that began meanwhile makes `replace` throw (`external-thread-runtime.ts:329-335`). The loaded Thread then writes nothing more. `openspec/specs/external-thread-mapping-store/spec.md:60` says that a failure leaves "the prior record and indexes authoritative". One rollback. |
| `OfficialRuntime!NegotiationRetained` | A Host that attaches while `start` connects the clients it listed before (`official-runtime-owner.ts:121-133`) is told that it is initialized, but its connection is not. Two Hosts. |
| `HarnessBroker!NoNativeIsForgotten` | A client whose socket closes while the server reopens its native Session (`server.ts:738`) leaves a native Session without a record, which nobody closes, although "Closing a client also closes its owned sessions" (`docs/platforms/macos/native-aqua-broker.md:48`). One client, one fault. |
| `HarnessBroker!OneNativeWriter` | If the socket of an open closes while the adapter opens, or the Session it opened has another identity than was asked for, or one that has a writer, its reservations go before the native Session is closed (`server.ts:526-575`); so does the pending claim of a Session whose identity turns out to be taken or to have changed (`server.ts:320-375`). Another client may open the same identity meanwhile, or has it already. Two clients, one fault. |
| `SessionReplacement!RefreshKeepsTurns` | A Turn that ends while `refresh` waits for the history is stored, and the alignment to the older history removes it (`external-thread-runtime.ts:443-448`, `mapping-store.ts:606`), or leaves the loaded Thread a record older than the one that `persistTurn` assigned. Reconciliation omits what a Snapshot does not contain, since "the Native Snapshot is authoritative" (`openspec/specs/external-thread-mapping-store/spec.md:157`); that it may be the older of the two is nowhere considered. One rollback, one Turn. |

## 6. Not modelled

`PROJECT.json` lists each component with its status. Left out for good: the user interface,
translation of third-party formats, calls of the operating system, statistics, tooling. Left
for later: section 7. Within the modelled parts: quarantined files and their retention, corrupt
Delegation files, approvals and Subagents that postpone a release, Codex children of
the coordinator, and the coordinator's operations other than `start`; the fork of a Thread, Adapters
that rewind in place, and the creation and nesting of Subagents; the management client, `controlRequest`
and the requests the native server makes of a Desktop in the official runtime; the hello, inspection,
commands, snapshots, model selection and server shutdown of the broker; temporary and malformed
files, file operations that fail and live version 1 contenders of the socket lock.

## 7. Plan

The core came first: the Store (on which every other part relies), then what uses it, then the
official runtime, the broker, rollback and the socket lock. Next, in this order:

1. Leases between processes: `local_runtime_lease.rs`, compared with `StoreLock` and `SocketLock`.
2. Update: operation state, installer with rollback, handing over to a running instance.
3. The fork of a Thread, and rollback by way of a source Thread that runs; creation of Subagents.
4. Thread lists and the item projector as operators, checked against a reference definition.
5. Desktop control sessions, delegation control API.
