----------------------------- MODULE ThreadStore -----------------------------
(***************************************************************************)
(* The Thread half of MappingStore (packages/mapping-store): one JSON file  *)
(* per external Thread, a backup of its previous revision, an in-memory     *)
(* copy that answers every read, and one write queue.                       *)
(*                                                                         *)
(* `records' is #records; `primary' and `backup' are threads/ID.json and    *)
(* backups/ID.json.  `job' is the operation at the head of #writeTail: the  *)
(* part of an operation that runs between two awaits is one action, so a    *)
(* crash, an I/O failure or a damaged file can fall between any two file    *)
(* operations.  The indexes are functions of `records' here, because every  *)
(* operation of this module rebuilds them when it commits; the operations   *)
(* that can leave them behind are the subject of DelegationStart.           *)
(*                                                                         *)
(* Temporary files are left out: nothing ever reads one (the directory      *)
(* listing keeps names ending in .json).  A Turn mapping is its Host Turn   *)
(* and its Native Turn; checkpoints, titles, models and timestamps are data *)
(* no property reads.                                                       *)
(***************************************************************************)
EXTENDS Naturals, Sequences, FiniteSets

CONSTANTS
  Threads,      \* Host Thread IDs (random UUIDs: never allocated twice)
  Sessions,     \* Native Sessions of one Harness
  Requests,     \* create request IDs
  HostTurns,    \* Host Turn IDs
  TurnKeys,     \* Native Turn keys, meaningful inside one Native Session
  Absent,       \* no file, no record
  Malformed,    \* a file that does not parse into a record
  NoThread,     \* the parent of a record that is not a Subagent's
  NoSession,    \* the Session of a record that has none yet
  Idle,         \* the write queue is empty
  MaxRevision,  \* bound: revisions of one record
  MaxTurns,     \* bound: Turn mappings of one record
  MaxCrashes,   \* bound: crashes of the Host process
  MaxIoErrors,  \* bound: file replacements that fail
  MaxRmErrors,  \* bound: file removals that fail
  MaxDamage     \* bound: files damaged from outside

Turn == [host : HostTurns, session : Sessions, key : TurnKeys]
TurnLists == UNION {[1..n -> Turn] : n \in 0..MaxTurns}

ThreadRecord ==
  [revision : 1..MaxRevision,
   request  : Requests,
   state    : {"creating", "ready"},
   session  : Sessions \cup {NoSession},
   forked   : BOOLEAN,
   parent   : Threads \cup {NoThread},
   turns    : TurnLists]

Steps == {"temp", "copy", "copying", "rename", "commit"}

Job == [kind : {"create", "update", "replace"}, thread : Threads,
        next : ThreadRecord, step : Steps]
       \cup [kind : {"remove"}, thread : Threads, left : SUBSET {"primary", "backup"}]

ASSUME StoreAssumption ==
  /\ MaxRevision \in Nat \ {0} /\ MaxTurns \in Nat
  /\ {MaxCrashes, MaxIoErrors, MaxRmErrors, MaxDamage} \subseteq Nat
  /\ Absent \notin ThreadRecord /\ Malformed \notin ThreadRecord
  /\ Absent # Malformed
  /\ NoThread \notin Threads /\ NoSession \notin Sessions
  /\ Idle \notin Job

VARIABLES
  phase,     \* "down", "loading" (initialize), "up", or "refused" (initialize threw)
  unread,    \* the Thread files initialize has not reached yet
  records,   \* #records
  primary,   \* threads/ID.json
  backup,    \* backups/ID.json
  job,       \* the operation running at the head of the write queue, or Idle
  snapshot,  \* the record a caller read before it asks for a Session replacement
  late,      \* removals still under way after their Promise.all was rejected
  used,      \* Host Thread IDs allocated so far
  crashes, ioErrors, rmErrors, damage   \* how often each bounded event has happened

disk == <<primary, backup>>
counters == <<crashes, ioErrors, rmErrors, damage>>
vars == <<phase, unread, records, primary, backup, job, snapshot, late, used, counters>>

-----------------------------------------------------------------------------
(* Records *)

Entries(list) == {list[i] : i \in DOMAIN list}
Hosts(r) == {turn.host : turn \in Entries(r.turns)}
Native(turn) == <<turn.session, turn.key>>

\* The record schema and its superRefine.
Parses(r) ==
  /\ r \in ThreadRecord
  /\ r.state = "ready" => r.session # NoSession
  /\ \A i, j \in DOMAIN r.turns :
        i # j => /\ r.turns[i].host # r.turns[j].host
                 /\ Native(r.turns[i]) # Native(r.turns[j])
  /\ r.session # NoSession => \A turn \in Entries(r.turns) : turn.session = r.session

Stored(m) == {t \in Threads : m[t] # Absent}

\* What #validateGlobal finds in the indexes of m when t is about to hold r.
Clash(r, t, m) ==
  \E u \in Stored(m) :
     \/ /\ u # t
        /\ \/ m[u].request = r.request
           \/ /\ r.session # NoSession /\ m[u].session = r.session
              /\ r.parent = NoThread /\ m[u].parent = NoThread
           \/ Hosts(m[u]) \cap Hosts(r) # {}
     \/ \E x \in Entries(m[u].turns), y \in Entries(r.turns) :
           Native(x) = Native(y) /\ x.host # y.host

\* #rebuildIndexes completes exactly when no stored record clashes with another.
Indexable(m) == \A t \in Stored(m) : ~Clash(m[t], t, m)

\* Host Turn and Native Turn name each other in both lists or in neither.
Agree(old, new) ==
  \A x \in Entries(old), y \in Entries(new) : x.host = y.host <=> Native(x) = Native(y)

Merge(old, new) == old \o SelectSeq(new, LAMBDA turn : turn \notin Entries(old))

\* The first Host Turns of a record, in its order.
HostPrefix(list, r) ==
  /\ Len(list) <= Len(r.turns)
  /\ \A i \in DOMAIN list : list[i].host = r.turns[i].host

\* A record that was never given a Native Session: initialize deletes it.
Provisional(r) == r.state = "creating" /\ r.session = NoSession

\* What initialize makes of one Thread's two files.
Recovered(p, b) ==
  LET r == IF p # Malformed THEN p ELSE b
  IN  IF r \in {Absent, Malformed} THEN Absent
      ELSE IF Provisional(r) THEN Absent ELSE r

-----------------------------------------------------------------------------
Init ==
  /\ phase = "up" /\ unread = {}
  /\ records = [t \in Threads |-> Absent]
  /\ primary = [t \in Threads |-> Absent]
  /\ backup = [t \in Threads |-> Absent]
  /\ job = Idle /\ snapshot = Absent /\ late = {} /\ used = {}
  /\ crashes = 0 /\ ioErrors = 0 /\ rmErrors = 0 /\ damage = 0

(* Operations: the part that runs before the first file operation.  A call   *)
(* that is rejected, or answered without a write, changes nothing.           *)

Ready(t) == phase = "up" /\ job = Idle /\ t \in Stored(records)

\* Mutant: the global validation is forgotten.
ReplaceUnvalidated(kind, t, changed) ==
  LET next == [changed EXCEPT !.revision = records[t].revision + 1]
  IN  /\ Parses(next)
      /\ job' = [kind |-> kind, thread |-> t, next |-> next, step |-> "temp"]
      /\ UNCHANGED <<phase, unread, records, disk, late, used, counters>>

\* #update: revision, schema and global validation, then the replacement.
Replace(kind, t, changed) ==
  LET next == [changed EXCEPT !.revision = records[t].revision + 1]
  IN  /\ Parses(next)
      /\ ~Clash(next, t, records)
      /\ job' = [kind |-> kind, thread |-> t, next |-> next, step |-> "temp"]
      /\ UNCHANGED <<phase, unread, records, disk, late, used, counters>>

CreateProvisional(t, q, forked, parent) ==
  LET r == [revision |-> 1, request |-> q, state |-> "creating", session |-> NoSession,
            forked |-> forked, parent |-> parent, turns |-> <<>>]
  IN  /\ phase = "up" /\ job = Idle
      /\ t \notin used /\ parent \in Stored(records) \cup {NoThread}
      /\ \A u \in Stored(records) : records[u].request # q
      /\ job' = [kind |-> "create", thread |-> t, next |-> r, step |-> "temp"]
      /\ used' = used \cup {t}
      /\ UNCHANGED <<phase, unread, records, disk, snapshot, late, counters>>

CommitReady(t, s, list) ==
  /\ Ready(t) /\ Agree(records[t].turns, list)
  /\ Replace("update", t, [records[t] EXCEPT !.state = "ready", !.session = s,
                             !.turns = Merge(records[t].turns, list)])
  /\ UNCHANGED snapshot

UpsertTurnMappings(t, list) ==
  /\ Ready(t) /\ Agree(records[t].turns, list)
  /\ Replace("update", t, [records[t] EXCEPT !.turns = Merge(records[t].turns, list)])
  /\ UNCHANGED snapshot

ReconcileTurnMappings(t, list) ==
  /\ Ready(t) /\ records[t].state = "ready"
  /\ list # records[t].turns /\ Agree(records[t].turns, list)
  /\ Replace("update", t, [records[t] EXCEPT !.turns = list])
  /\ UNCHANGED snapshot

\* setTitle, and setTransportModelId and setArchived when the value changes.
SetManagement(t) ==
  /\ Ready(t)
  /\ Replace("update", t, records[t])
  /\ UNCHANGED snapshot

RebindSubagentSession(t, q) ==
  /\ Ready(t) /\ records[t].state = "ready" /\ records[t].parent \in Stored(records)
  /\ LET r == records[t]
         s == records[r.parent].session
     IN  /\ records[r.parent].state = "ready"
         /\ s # r.session \/ q # r.request
         /\ Replace("update", t,
              [r EXCEPT !.request = q, !.session = s,
                        !.turns = [i \in DOMAIN @ |-> [@[i] EXCEPT !.session = s]]])
  /\ UNCHANGED snapshot

\* A caller reads the record it will later ask to replace (rollback, fork, edit).
ReadForReplacement(t) ==
  /\ phase = "up" /\ t \in Stored(records) /\ records[t].state = "ready"
  /\ snapshot' = [thread |-> t, read |-> records[t]]
  /\ UNCHANGED <<phase, unread, records, disk, job, late, used, counters>>

\* Mutant: the expected revision is not compared.
ExpectedSession(t) ==
  /\ snapshot # Absent /\ snapshot.thread = t
  /\ records[t].state = "ready"
  /\ records[t].session = snapshot.read.session

\* Both replacements compare the revision and the Session the caller read.
Expected(t) ==
  /\ snapshot # Absent /\ snapshot.thread = t
  /\ records[t].state = "ready"
  /\ records[t].revision = snapshot.read.revision
  /\ records[t].session = snapshot.read.session

ReplaceReadySession(t, s, list) ==
  /\ Ready(t) /\ Expected(t) /\ records[t].forked
  /\ s # records[t].session
  /\ Len(list) \in 1..Len(records[t].turns) - 1 /\ HostPrefix(list, records[t])
  /\ Replace("replace", t, [records[t] EXCEPT !.session = s, !.turns = list])
  /\ UNCHANGED snapshot

ReplaceReadySessionAfterLastTurn(t, s, list) ==
  /\ Ready(t) /\ Expected(t)
  /\ Len(list) + 1 = Len(records[t].turns) /\ HostPrefix(list, records[t])
  /\ Replace("replace", t, [records[t] EXCEPT !.session = s, !.turns = list])
  /\ UNCHANGED snapshot

\* removeThread, and removeProvisional of a record that is not ready.
RemoveThread(t) ==
  /\ Ready(t)
  /\ job' = [kind |-> "remove", thread |-> t, left |-> {"primary", "backup"}]
  /\ UNCHANGED <<phase, unread, records, disk, snapshot, late, used, counters>>

-----------------------------------------------------------------------------
(* File operations of the running job *)

At(step) == phase = "up" /\ job # Idle /\ job.kind # "remove" /\ job.step = step
Goto(step) == job' = [job EXCEPT !.step = step]

\* Mutant: a backup that exists is kept.
WriteTempKeepBackup ==
  /\ At("temp")
  /\ Goto(IF job.kind # "create" /\ backup[job.thread] = Absent THEN "copy" ELSE "rename")
  /\ UNCHANGED <<phase, unread, records, disk, snapshot, late, used, counters>>

\* The temporary file is written and synced; only an update keeps a backup,
\* and only when the primary exists.
WriteTemp ==
  /\ At("temp")
  /\ Goto(IF job.kind # "create" /\ primary[job.thread] # Absent THEN "copy" ELSE "rename")
  /\ UNCHANGED <<phase, unread, records, disk, snapshot, late, used, counters>>

\* copyFile is not atomic: the backup is unreadable until it has been filled.
StartCopy ==
  /\ At("copy") /\ Goto("copying")
  /\ backup' = [backup EXCEPT ![job.thread] = Malformed]
  /\ UNCHANGED <<phase, unread, records, primary, snapshot, late, used, counters>>

FinishCopy ==
  /\ At("copying") /\ Goto("rename")
  /\ backup' = [backup EXCEPT ![job.thread] = primary[job.thread]]
  /\ UNCHANGED <<phase, unread, records, primary, snapshot, late, used, counters>>

RenameTemp ==
  /\ At("rename") /\ Goto("commit")
  /\ primary' = [primary EXCEPT ![job.thread] = job.next]
  /\ UNCHANGED <<phase, unread, records, backup, snapshot, late, used, counters>>

\* The continuation after #replaceFile: memory, then #rebuildIndexes.
Commit ==
  /\ At("commit") /\ job' = Idle
  /\ records' = [records EXCEPT ![job.thread] = job.next]
  /\ UNCHANGED <<phase, unread, disk, snapshot, late, used, counters>>

\* Mutant: the error is swallowed and the operation goes on to its commit.
FailReplacementSilently ==
  /\ At("temp") \/ At("copy") \/ At("copying") \/ At("rename")
  /\ ioErrors < MaxIoErrors /\ ioErrors' = ioErrors + 1
  /\ Goto("commit")
  /\ UNCHANGED <<phase, unread, records, disk, snapshot, late, used, crashes, rmErrors, damage>>

\* Any step before the rename may fail: the operation is rejected.
FailReplacement ==
  /\ At("temp") \/ At("copy") \/ At("copying") \/ At("rename")
  /\ ioErrors < MaxIoErrors /\ ioErrors' = ioErrors + 1
  /\ job' = Idle
  /\ UNCHANGED <<phase, unread, records, disk, snapshot, late, used, crashes, rmErrors, damage>>

Removing == phase = "up" /\ job # Idle /\ job.kind = "remove"

Unlink(file, t) ==
  /\ primary' = IF file = "primary" THEN [primary EXCEPT ![t] = Absent] ELSE primary
  /\ backup' = IF file = "backup" THEN [backup EXCEPT ![t] = Absent] ELSE backup

RemoveFile(file) ==
  /\ Removing /\ file \in job.left
  /\ Unlink(file, job.thread)
  /\ job' = [job EXCEPT !.left = @ \ {file}]
  /\ UNCHANGED <<phase, unread, records, snapshot, late, used, counters>>

CommitRemoval ==
  /\ Removing /\ job.left = {}
  /\ records' = [records EXCEPT ![job.thread] = Absent]
  /\ job' = Idle
  /\ UNCHANGED <<phase, unread, disk, snapshot, late, used, counters>>

\* One removal fails: Promise.all rejects at once, the queue moves on, and the
\* other removal, if it is still under way, completes later.
FailRemoval(file) ==
  /\ Removing /\ file \in job.left
  /\ rmErrors < MaxRmErrors /\ rmErrors' = rmErrors + 1
  /\ late' = late \cup {<<other, job.thread>> : other \in job.left \ {file}}
  /\ job' = Idle
  /\ UNCHANGED <<phase, unread, records, disk, snapshot, used, crashes, ioErrors, damage>>

FinishLateRemoval(file, t) ==
  /\ <<file, t>> \in late
  /\ late' = late \ {<<file, t>>}
  /\ Unlink(file, t)
  /\ UNCHANGED <<phase, unread, records, job, snapshot, used, counters>>

-----------------------------------------------------------------------------
(* Environment and restart *)

\* The process dies: what is in memory and what was under way is gone.
Crash ==
  /\ phase # "down" /\ crashes < MaxCrashes /\ crashes' = crashes + 1
  /\ phase' = "down" /\ unread' = {}
  /\ records' = [t \in Threads |-> Absent]
  /\ job' = Idle /\ snapshot' = Absent /\ late' = {}
  /\ UNCHANGED <<disk, used, ioErrors, rmErrors, damage>>

\* A Thread file, or its backup, is damaged from outside.
Damage(file, t) ==
  /\ damage < MaxDamage /\ damage' = damage + 1
  /\ \/ file = "primary" /\ primary[t] # Absent
        /\ primary' = [primary EXCEPT ![t] = Malformed] /\ UNCHANGED backup
     \/ file = "backup" /\ backup[t] # Absent
        /\ backup' = [backup EXCEPT ![t] = Malformed] /\ UNCHANGED primary
  /\ UNCHANGED <<phase, unread, records, job, snapshot, late, used, crashes, ioErrors, rmErrors>>

\* initialize, with the lock held: list the Thread files.
StartLoading ==
  /\ phase = "down"
  /\ phase' = "loading"
  /\ unread' = {t \in Threads : primary[t] # Absent}
  /\ UNCHANGED <<records, disk, job, snapshot, late, used, counters>>

\* Mutant: the backup is preferred to the primary.
BackupFirst(t) == IF backup[t] \notin {Absent, Malformed} THEN backup[t] ELSE primary[t]

\* The record initialize goes by: the primary's, else its backup's.
Source(t) == IF primary[t] # Malformed THEN primary[t] ELSE backup[t]

Load(t) ==
  /\ phase = "loading" /\ t \in unread
  /\ unread' = unread \ {t}
  /\ UNCHANGED <<phase, job, snapshot, late, used, crashes, rmErrors, damage>>

\* Mutant: the backup is taken over without being parsed.
LoadUnparsed(t) ==
  /\ Load(t)
  /\ Source(t) # Absent
  /\ records' = [records EXCEPT ![t] = Source(t)]
  /\ primary' = [primary EXCEPT ![t] = Source(t)]
  /\ UNCHANGED <<backup, ioErrors>>

\* A good primary is read; a good backup is written over a bad primary.
LoadThread(t) ==
  /\ Load(t)
  /\ Source(t) \notin {Absent, Malformed} /\ ~Provisional(Source(t))
  /\ records' = [records EXCEPT ![t] = Source(t)]
  /\ primary' = [primary EXCEPT ![t] = Source(t)]
  /\ UNCHANGED <<backup, ioErrors>>

\* A record that never got a Native Session is deleted with its backup.
DropProvisional(t) ==
  /\ Load(t)
  /\ Source(t) \notin {Absent, Malformed} /\ Provisional(Source(t))
  /\ primary' = [primary EXCEPT ![t] = Absent]
  /\ backup' = [backup EXCEPT ![t] = Absent]
  /\ UNCHANGED <<records, ioErrors>>

\* Both files are bad, or the good backup cannot be written back: the primary
\* is set aside, and nothing reads the backup that stays behind.
Quarantine(t) ==
  /\ Load(t)
  /\ primary[t] = Malformed
  /\ \/ backup[t] \in {Absent, Malformed} /\ UNCHANGED ioErrors
     \/ backup[t] \notin {Absent, Malformed}
        /\ ioErrors < MaxIoErrors /\ ioErrors' = ioErrors + 1
  /\ primary' = [primary EXCEPT ![t] = Absent]
  /\ UNCHANGED <<records, backup>>

FinishLoading ==
  /\ phase = "loading" /\ unread = {}
  /\ phase' = IF Indexable(records) THEN "up" ELSE "refused"
  /\ UNCHANGED <<unread, records, disk, job, snapshot, late, used, counters>>

-----------------------------------------------------------------------------
Operation ==
  \E t \in Threads :
     \/ \E q \in Requests, forked \in BOOLEAN, p \in Threads \cup {NoThread} :
           CreateProvisional(t, q, forked, p)
     \/ \E s \in Sessions, list \in TurnLists :
           \/ CommitReady(t, s, list)
           \/ ReplaceReadySession(t, s, list)
           \/ ReplaceReadySessionAfterLastTurn(t, s, list)
     \/ \E list \in TurnLists : UpsertTurnMappings(t, list) \/ ReconcileTurnMappings(t, list)
     \/ SetManagement(t)
     \/ \E q \in Requests : RebindSubagentSession(t, q)
     \/ ReadForReplacement(t)
     \/ RemoveThread(t)

FileStep ==
  \/ WriteTemp \/ StartCopy \/ FinishCopy \/ RenameTemp \/ Commit \/ FailReplacement
  \/ \E file \in {"primary", "backup"} : RemoveFile(file) \/ FailRemoval(file)
  \/ CommitRemoval
  \/ \E file \in {"primary", "backup"}, t \in Threads : FinishLateRemoval(file, t)

Restart ==
  \/ StartLoading \/ FinishLoading
  \/ \E t \in Threads : LoadThread(t) \/ DropProvisional(t) \/ Quarantine(t)

Environment ==
  \/ Crash
  \/ \E file \in {"primary", "backup"}, t \in Threads : Damage(file, t)

Next == Operation \/ FileStep \/ Restart \/ Environment

Spec == Init /\ [][Next]_vars

-----------------------------------------------------------------------------
File == ThreadRecord \cup {Absent, Malformed}

TypeOK ==
  /\ phase \in {"down", "loading", "up", "refused"}
  /\ unread \subseteq Threads /\ used \subseteq Threads
  /\ records \in [Threads -> ThreadRecord \cup {Absent}]
  /\ primary \in [Threads -> File] /\ backup \in [Threads -> File]
  /\ job \in Job \cup {Idle}
  /\ snapshot \in [thread : Threads, read : ThreadRecord] \cup {Absent}
  /\ late \subseteq {"primary", "backup"} \X Threads
  /\ crashes \in 0..MaxCrashes /\ ioErrors \in 0..MaxIoErrors
  /\ rmErrors \in 0..MaxRmErrors /\ damage \in 0..MaxDamage

\* While the Store serves, no two records share a create request, a Native
\* Session (Subagents share their parent's), a Host Turn, or a Native Turn under
\* two names: #validateGlobal before each write is enough, with the write queue,
\* for #rebuildIndexes never to throw after one.
IdentitiesUnique == phase = "up" => Indexable(records)

\* As long as no file was damaged from outside, initialize never refuses what a
\* crash left: the files of a crashed Store rebuild their indexes.
RestartSucceeds == damage = 0 => phase # "refused"

\* What a restart would make of the files, Thread by Thread.
OnDisk == [t \in Threads |-> Recovered(primary[t], backup[t])]

\* With the files left alone and no failed removal, a restart at any point finds
\* for each Thread what callers were last told, or the result of the one
\* operation under way: nothing acknowledged is lost, nothing rejected survives.
DiskFollowsMemory ==
  phase = "up" /\ damage = 0 /\ rmErrors = 0 =>
    \A t \in Threads :
       \/ OnDisk[t] = Recovered(records[t], Absent)
       \/ /\ job # Idle /\ job.thread = t
          /\ OnDisk[t] = IF job.kind = "remove" THEN Absent ELSE Recovered(job.next, Absent)

\* Left alone, the files are an atomic map: every step is one abstract change of
\* one Thread or none at all.  A replacement takes effect at its rename, a
\* removal when the primary is unlinked.
Atomic == INSTANCE AtomicThreadMap WITH map <- OnDisk
ImplementsAtomicMap == Atomic!Spec

\* A backup that can be read is the record in memory or the revision before it,
\* through crashes, failed replacements and damaged files: restoring it costs at
\* most one revision.
BackupAtMostOneBehind ==
  phase = "up" /\ rmErrors = 0 =>
    \A t \in Stored(records) :
       backup[t] \notin {Absent, Malformed} =>
         backup[t].revision \in {records[t].revision - 1, records[t].revision}

\* A Session replacement is applied to exactly the record its caller read: the
\* revision and Session it compares are enough to notice any write in between.
ReplacementSeesItsRead ==
  [][job = Idle /\ job' # Idle /\ job'.kind = "replace"
       => records[job'.thread] = snapshot.read]_vars

\* openspec external-thread-mapping-store, "Primary record is malformed": when
\* its latest backup is valid, initialization restores the record.
ReadyThreadIsRestored ==
  phase = "up" =>
    \A t \in Stored(records) :
       /\ records[t].state = "ready" /\ primary[t] = Malformed
       /\ backup[t] \notin {Absent, Malformed}
       => OnDisk[t] # Absent

\* openspec external-thread-mapping-store, "Startup recovers bounded incomplete
\* state": a bad record is recovered or isolated and the others are served.
DamageIsIsolated == phase # "refused"
=============================================================================
