------------------------- MODULE ThreadStore_proofs -------------------------
(***************************************************************************)
(* Proofs about ThreadStore for every value of its constants.               *)
(*                                                                         *)
(* Uniqueness in memory is not inductive by itself: the record a job is     *)
(* about to commit was validated before its first file operation, so the    *)
(* invariant has to say that the validation still holds when the job        *)
(* reaches its commit.  It does because the write queue lets no other       *)
(* operation change `records' in between.                                   *)
(***************************************************************************)
EXTENDS ThreadStore, TLAPS

USE StoreAssumption

\* Jobs run only while the Store serves, and the record a job will commit parses
\* and clashes with nothing in memory.
JobValidated ==
  /\ job # Idle => phase = "up"
  /\ job # Idle /\ job.kind # "remove" =>
       /\ job.thread \in Threads
       /\ Parses(job.next)
       /\ ~Clash(job.next, job.thread, records)

Inv == TypeOK /\ JobValidated /\ IdentitiesUnique

-----------------------------------------------------------------------------

\* An update's job is well typed and validated.
LEMMA ReplaceIsValidated ==
  ASSUME TypeOK, NEW kind \in {"update", "replace"}, NEW t \in Threads, NEW changed,
         Replace(kind, t, changed)
  PROVE  /\ job' \in Job
         /\ Parses(job'.next) /\ ~Clash(job'.next, job'.thread, records)
         /\ job'.kind = kind /\ job'.thread = t
         /\ job'.next.revision = records[t].revision + 1
         /\ UNCHANGED <<phase, unread, records, disk, late, used, counters>>
<1> DEFINE next == [changed EXCEPT !.revision = records[t].revision + 1]
<1>1. /\ Parses(next) /\ ~Clash(next, t, records)
      /\ job' = [kind |-> kind, thread |-> t, next |-> next, step |-> "temp"]
      /\ UNCHANGED <<phase, unread, records, disk, late, used, counters>>
  BY DEF Replace
<1>2. DOMAIN next = DOMAIN changed
  OBVIOUS
<1>3. next \in ThreadRecord /\ "revision" \in DOMAIN next
  <2> HIDE DEF next
  <2> QED
    BY <1>1 DEF Parses, ThreadRecord
<1>4. next.revision = records[t].revision + 1
  BY <1>2, <1>3
<1> HIDE DEF next
<1> QED
  BY <1>1, <1>3, <1>4 DEF Job, Steps

\* A Store that has not started yet, whatever its files, is typed and has no clash.
LEMMA InitialInv == Init => Inv
  BY DEF Init, Inv, TypeOK, JobValidated, IdentitiesUnique, Indexable, Stored, File

\* A removal's job is well typed, and so is what unlinking leaves.
LEMMA UnlinkIsTyped ==
  ASSUME TypeOK, NEW file, NEW t \in Threads, Unlink(file, t)
  PROVE  primary' \in [Threads -> File] /\ backup' \in [Threads -> File]
BY DEF TypeOK, Unlink, File

\* Every step of the Store, its files or its environment keeps the state typed.
LEMMA TypeStep == TypeOK /\ [Next]_vars => TypeOK'
<1> SUFFICES ASSUME TypeOK, [Next]_vars
             PROVE  TypeOK'
  OBVIOUS
<1> USE DEF File
<1>1. CASE Operation
  <2>1. PICK t \in Threads :
          \/ \E q \in Requests, forked \in BOOLEAN, p \in Threads \cup {NoThread} :
                CreateProvisional(t, q, forked, p)
          \/ \E s \in Sessions, list \in TurnLists :
                \/ CommitReady(t, s, list)
                \/ ReplaceReadySession(t, s, list)
                \/ ReplaceReadySessionAfterLastTurn(t, s, list)
          \/ \E list \in TurnLists :
                UpsertTurnMappings(t, list) \/ ReconcileTurnMappings(t, list)
          \/ SetManagement(t)
          \/ \E q \in Requests : RebindSubagentSession(t, q)
          \/ ReadForReplacement(t)
          \/ RemoveThread(t)
    BY <1>1 DEF Operation
  <2>2. ASSUME NEW q \in Requests, NEW forked \in BOOLEAN, NEW p \in Threads \cup {NoThread},
               CreateProvisional(t, q, forked, p)
        PROVE  TypeOK'
    <3>1. <<>> \in TurnLists
      BY DEF TurnLists
    <3>2. [revision |-> 1, request |-> q, state |-> "creating", session |-> NoSession,
           forked |-> forked, parent |-> p, turns |-> <<>>] \in ThreadRecord
      BY <3>1 DEF ThreadRecord
    <3> QED
      BY <2>2, <3>2 DEF CreateProvisional, TypeOK, Job, Steps, disk, counters
  <2>3. ASSUME NEW kind \in {"update", "replace"}, NEW changed,
               Replace(kind, t, changed), UNCHANGED snapshot
        PROVE  TypeOK'
    BY <2>3, ReplaceIsValidated DEF TypeOK, disk, counters
  <2>4. CASE \E s \in Sessions, list \in TurnLists :
               \/ CommitReady(t, s, list)
               \/ ReplaceReadySession(t, s, list)
               \/ ReplaceReadySessionAfterLastTurn(t, s, list)
    BY <2>3, <2>4 DEF CommitReady, ReplaceReadySession, ReplaceReadySessionAfterLastTurn
  <2>5. CASE \E list \in TurnLists :
               UpsertTurnMappings(t, list) \/ ReconcileTurnMappings(t, list)
    BY <2>3, <2>5 DEF UpsertTurnMappings, ReconcileTurnMappings
  <2>6. CASE SetManagement(t) \/ \E q \in Requests : RebindSubagentSession(t, q)
    BY <2>3, <2>6 DEF SetManagement, RebindSubagentSession
  <2>7. CASE ReadForReplacement(t)
    BY <2>7 DEF ReadForReplacement, Stored, TypeOK, disk, counters
  <2>8. CASE RemoveThread(t)
    BY <2>8 DEF RemoveThread, TypeOK, Job, disk, counters
  <2> QED
    BY <2>1, <2>2, <2>4, <2>5, <2>6, <2>7, <2>8
<1>2. CASE WriteTemp \/ StartCopy \/ FinishCopy \/ RenameTemp \/ Commit \/ FailReplacement
  <2>1. /\ job \in [kind : {"create", "update", "replace"}, thread : Threads,
                     next : ThreadRecord, step : Steps]
    BY <1>2 DEF WriteTemp, StartCopy, FinishCopy, RenameTemp, Commit, FailReplacement,
                At, TypeOK, Job
  <2>2. \A step \in Steps : [job EXCEPT !.step = step] \in Job
    BY <2>1 DEF Job
  <2>3. CASE WriteTemp \/ StartCopy \/ FinishCopy
    BY <2>1, <2>2, <2>3 DEF WriteTemp, StartCopy, FinishCopy, Goto, Steps, TypeOK, disk, counters
  <2>4. CASE RenameTemp
    BY <2>1, <2>2, <2>4 DEF RenameTemp, Goto, Steps, TypeOK, counters
  <2>5. CASE Commit \/ FailReplacement
    BY <2>1, <2>5 DEF Commit, FailReplacement, TypeOK, disk, counters
  <2> QED
    BY <1>2, <2>3, <2>4, <2>5
<1>3. CASE \/ \E file \in {"primary", "backup"} : RemoveFile(file) \/ FailRemoval(file)
           \/ CommitRemoval
  <2>1. job \in [kind : {"remove"}, thread : Threads, left : SUBSET {"primary", "backup"}]
    BY <1>3 DEF RemoveFile, FailRemoval, CommitRemoval, Removing, TypeOK, Job
  <2>2. ASSUME NEW file \in {"primary", "backup"}, RemoveFile(file)
        PROVE  TypeOK'
    <3>1. [job EXCEPT !.left = @ \ {file}] \in Job
      BY <2>1 DEF Job
    <3> QED
      BY <2>1, <2>2, <3>1, UnlinkIsTyped DEF RemoveFile, TypeOK, counters
  <2>3. ASSUME NEW file \in {"primary", "backup"}, FailRemoval(file)
        PROVE  TypeOK'
    BY <2>1, <2>3 DEF FailRemoval, TypeOK, disk, counters
  <2>4. CASE CommitRemoval
    BY <2>1, <2>4 DEF CommitRemoval, TypeOK, disk, counters
  <2> QED
    BY <1>3, <2>2, <2>3, <2>4
<1>4. CASE \E file \in {"primary", "backup"}, t \in Threads : FinishLateRemoval(file, t)
  BY <1>4, UnlinkIsTyped DEF FinishLateRemoval, TypeOK, counters
<1>5. CASE Restart
  <2>1. CASE StartLoading \/ FinishLoading
    BY <2>1 DEF StartLoading, FinishLoading, TypeOK, disk, counters
  <2>2. ASSUME NEW t \in Threads, LoadThread(t) \/ DropProvisional(t) \/ Quarantine(t)
        PROVE  TypeOK'
    <3>1. Source(t) \in File
      BY DEF Source, TypeOK
    <3> QED
      BY <2>2, <3>1 DEF LoadThread, DropProvisional, Quarantine, Load, TypeOK, counters
  <2> QED
    BY <1>5, <2>1, <2>2 DEF Restart
<1>6. CASE Environment
  BY <1>6 DEF Environment, Crash, Damage, TypeOK, disk, counters
<1>7. CASE UNCHANGED vars
  BY <1>7 DEF vars, TypeOK, disk, counters
<1> QED
  BY <1>1, <1>2, <1>3, <1>4, <1>5, <1>6, <1>7 DEF Next, FileStep

\* The state every other proof about the Store starts from is well typed.
THEOREM TypeCorrect == Spec => []TypeOK
<1>1. Init => TypeOK
  BY InitialInv DEF Inv
<1> QED
  BY <1>1, TypeStep, PTL DEF Spec

-----------------------------------------------------------------------------
(* Uniqueness *)

\* Writing a validated record leaves the map indexable: a clash is symmetric, and
\* a record that parses does not clash with itself.
LEMMA CommitKeepsIndexable ==
  ASSUME NEW m \in [Threads -> ThreadRecord \cup {Absent}], NEW t \in Threads, NEW r,
         Indexable(m), Parses(r), ~Clash(r, t, m)
  PROVE  Indexable([m EXCEPT ![t] = r])
<1> DEFINE n == [m EXCEPT ![t] = r]
<1>1. r \in ThreadRecord /\ r # Absent
  BY DEF Parses
<1>2. n[t] = r /\ \A u \in Threads : u # t => n[u] = m[u]
  OBVIOUS
<1>3. ~Clash(r, t, n)
  <2>1. \A x \in Entries(r.turns), y \in Entries(r.turns) :
           Native(x) = Native(y) => x.host = y.host
    BY DEF Parses, Entries
  <2> QED
    BY <1>2, <2>1 DEF Clash, Stored
<1>4. ASSUME NEW a \in Stored(n), a # t
      PROVE  ~Clash(n[a], a, n)
  <2>1. a \in Stored(m) /\ n[a] = m[a]
    BY <1>2, <1>4 DEF Stored
  <2>2. ~Clash(m[a], a, m)
    BY <2>1 DEF Indexable
  <2> HIDE DEF n
  <2>3. ASSUME NEW u \in Stored(n), u # t
        PROVE  u \in Stored(m) /\ n[u] = m[u]
    BY <1>2, <2>3 DEF Stored
  <2>4. ASSUME NEW u \in Stored(n)
        PROVE  /\ u # a => /\ n[u].request # m[a].request
                          /\ \/ m[a].session = NoSession \/ n[u].session # m[a].session
                             \/ m[a].parent # NoThread \/ n[u].parent # NoThread
                          /\ Hosts(n[u]) \cap Hosts(m[a]) = {}
               /\ \A x \in Entries(n[u].turns), y \in Entries(m[a].turns) :
                     Native(x) = Native(y) => x.host = y.host
    <3>1. CASE u # t
      BY <2>2, <2>3, <3>1 DEF Clash
    <3>2. CASE u = t
      <4>1. n[u] = r /\ ~Clash(r, t, m) /\ a \in Stored(m) /\ a # t
        BY <1>2, <1>4, <2>1, <3>2
      <4> QED
        BY <4>1 DEF Clash
    <3> QED
      BY <3>1, <3>2
  <2> QED
    BY <2>1, <2>4 DEF Clash
<1> QED
  BY <1>2, <1>3, <1>4 DEF Indexable

\* A record that disappears takes no other record's identities with it.
LEMMA RemovalKeepsIndexable ==
  ASSUME NEW m \in [Threads -> ThreadRecord \cup {Absent}], NEW t \in Threads, Indexable(m)
  PROVE  Indexable([m EXCEPT ![t] = Absent])
<1> DEFINE n == [m EXCEPT ![t] = Absent]
<1>1. \A u \in Stored(n) : u \in Stored(m) /\ n[u] = m[u]
  BY DEF Stored
<1> HIDE DEF n
<1>2. \A u \in Stored(n) : Clash(n[u], u, n) => Clash(m[u], u, m)
  BY <1>1 DEF Clash
<1>3. Indexable(n)
  BY <1>1, <1>2 DEF Indexable
<1> QED
  BY <1>3 DEF n

\* Every step keeps the running job validated and the served records indexable: the
\* only steps that change records while the Store serves are commits and removals.
LEMMA InvStep == Inv /\ [Next]_vars => Inv'
<1> SUFFICES ASSUME Inv, [Next]_vars
             PROVE  JobValidated' /\ IdentitiesUnique'
  BY TypeStep DEF Inv
<1>1. TypeOK /\ JobValidated /\ IdentitiesUnique
  BY DEF Inv
<1>2. ASSUME UNCHANGED <<phase, records>>, UNCHANGED job \/ job' = Idle
      PROVE  JobValidated' /\ IdentitiesUnique'
  <2>1. IdentitiesUnique'
    BY <1>1, <1>2 DEF IdentitiesUnique
  <2>2. CASE job' = Idle
    BY <2>1, <2>2 DEF JobValidated
  <2>3. CASE UNCHANGED job
    BY <1>1, <1>2, <2>1, <2>3 DEF JobValidated
  <2> QED
    BY <1>2, <2>2, <2>3
<1>3. CASE Operation
  <2>1. PICK t \in Threads :
          \/ \E q \in Requests, forked \in BOOLEAN, p \in Threads \cup {NoThread} :
                CreateProvisional(t, q, forked, p)
          \/ \E s \in Sessions, list \in TurnLists :
                \/ CommitReady(t, s, list)
                \/ ReplaceReadySession(t, s, list)
                \/ ReplaceReadySessionAfterLastTurn(t, s, list)
          \/ \E list \in TurnLists :
                UpsertTurnMappings(t, list) \/ ReconcileTurnMappings(t, list)
          \/ SetManagement(t)
          \/ \E q \in Requests : RebindSubagentSession(t, q)
          \/ ReadForReplacement(t)
          \/ RemoveThread(t)
    BY <1>3 DEF Operation
  <2>2. ASSUME NEW q \in Requests, NEW forked \in BOOLEAN, NEW p \in Threads \cup {NoThread},
               CreateProvisional(t, q, forked, p)
        PROVE  JobValidated' /\ IdentitiesUnique'
    <3> DEFINE r == [revision |-> 1, request |-> q, state |-> "creating",
                     session |-> NoSession, forked |-> forked, parent |-> p, turns |-> <<>>]
    <3>1. <<>> \in TurnLists
      BY DEF TurnLists
    <3>2. Parses(r)
      BY <3>1 DEF Parses, ThreadRecord, Entries
    <3>3. ~Clash(r, t, records)
      BY <2>2 DEF CreateProvisional, Clash, Hosts, Entries
    <3>4. job' = [kind |-> "create", thread |-> t, next |-> r, step |-> "temp"]
          /\ UNCHANGED <<phase, records>>
      BY <2>2 DEF CreateProvisional
    <3> HIDE DEF r
    <3> QED
      BY <1>1, <2>2, <3>2, <3>3, <3>4 DEF CreateProvisional, JobValidated, IdentitiesUnique
  <2>3. ASSUME NEW kind \in {"update", "replace"}, NEW changed, Replace(kind, t, changed), Ready(t)
        PROVE  JobValidated' /\ IdentitiesUnique'
    <3>1. /\ Parses(job'.next) /\ ~Clash(job'.next, job'.thread, records)
          /\ job'.thread \in Threads
          /\ UNCHANGED <<phase, records>>
      BY <1>1, <2>3, ReplaceIsValidated
    <3> QED
      BY <1>1, <2>3, <3>1 DEF Ready, JobValidated, IdentitiesUnique
  <2>4. CASE \E s \in Sessions, list \in TurnLists :
               \/ CommitReady(t, s, list)
               \/ ReplaceReadySession(t, s, list)
               \/ ReplaceReadySessionAfterLastTurn(t, s, list)
    BY <2>3, <2>4 DEF CommitReady, ReplaceReadySession, ReplaceReadySessionAfterLastTurn
  <2>5. CASE \E list \in TurnLists :
               UpsertTurnMappings(t, list) \/ ReconcileTurnMappings(t, list)
    BY <2>3, <2>5 DEF UpsertTurnMappings, ReconcileTurnMappings
  <2>6. CASE SetManagement(t) \/ \E q \in Requests : RebindSubagentSession(t, q)
    BY <2>3, <2>6 DEF SetManagement, RebindSubagentSession
  <2>7. CASE ReadForReplacement(t)
    BY <1>2, <2>7 DEF ReadForReplacement
  <2>8. CASE RemoveThread(t)
    BY <1>1, <2>8 DEF RemoveThread, Ready, JobValidated, IdentitiesUnique
  <2> QED
    BY <2>1, <2>2, <2>4, <2>5, <2>6, <2>7, <2>8
<1>4. CASE WriteTemp \/ StartCopy \/ FinishCopy \/ RenameTemp
  <2>1. PICK step \in Steps : Goto(step)
    BY <1>4 DEF WriteTemp, StartCopy, FinishCopy, RenameTemp, Steps
  <2>2. job \in [kind : {"create", "update", "replace"}, thread : Threads,
                 next : ThreadRecord, step : Steps]
    BY <1>1, <1>4 DEF WriteTemp, StartCopy, FinishCopy, RenameTemp, At, TypeOK, Job
  <2>3. /\ UNCHANGED <<phase, records>> /\ job # Idle /\ job.kind # "remove"
        /\ job'.next = job.next /\ job'.thread = job.thread
    BY <1>4, <2>1, <2>2 DEF WriteTemp, StartCopy, FinishCopy, RenameTemp, At, Goto
  <2> QED
    BY <1>1, <2>3 DEF JobValidated, IdentitiesUnique
<1>5. CASE Commit
  <2>1. /\ phase = "up" /\ job # Idle /\ job.kind # "remove" /\ job' = Idle
        /\ records' = [records EXCEPT ![job.thread] = job.next] /\ UNCHANGED phase
    BY <1>5 DEF Commit, At
  <2>2. job.thread \in Threads /\ Parses(job.next) /\ ~Clash(job.next, job.thread, records)
    BY <1>1, <2>1 DEF JobValidated
  <2>3. records \in [Threads -> ThreadRecord \cup {Absent}] /\ Indexable(records)
    BY <1>1, <2>1 DEF TypeOK, IdentitiesUnique
  <2>4. Indexable(records')
    BY <2>1, <2>2, <2>3, CommitKeepsIndexable
  <2> QED
    BY <2>1, <2>4 DEF JobValidated, IdentitiesUnique
<1>6. CASE FailReplacement \/ \E file \in {"primary", "backup"} : FailRemoval(file)
  BY <1>2, <1>6 DEF FailReplacement, FailRemoval
<1>7. CASE \E file \in {"primary", "backup"} : RemoveFile(file)
  <2>1. PICK file \in {"primary", "backup"} : RemoveFile(file)
    BY <1>7
  <2>2. job \in [kind : {"remove"}, thread : Threads, left : SUBSET {"primary", "backup"}]
    BY <1>1, <2>1 DEF RemoveFile, Removing, TypeOK, Job
  <2>3. job'.kind = "remove" /\ phase = "up" /\ UNCHANGED <<phase, records>>
    BY <2>1, <2>2 DEF RemoveFile, Removing
  <2> QED
    BY <1>1, <2>3 DEF JobValidated, IdentitiesUnique
<1>8. CASE CommitRemoval
  <2>1. /\ job.thread \in Threads /\ phase = "up" /\ UNCHANGED phase /\ job' = Idle
        /\ records' = [records EXCEPT ![job.thread] = Absent]
    BY <1>1, <1>8 DEF CommitRemoval, Removing, TypeOK, Job
  <2>2. records \in [Threads -> ThreadRecord \cup {Absent}] /\ Indexable(records)
    BY <1>1, <2>1 DEF TypeOK, IdentitiesUnique
  <2>3. Indexable(records')
    BY <2>1, <2>2, RemovalKeepsIndexable
  <2> QED
    BY <2>1, <2>3 DEF JobValidated, IdentitiesUnique
<1>9. CASE \E file \in {"primary", "backup"}, t \in Threads : FinishLateRemoval(file, t)
  BY <1>2, <1>9 DEF FinishLateRemoval
<1>10. CASE Restart
  <2>1. CASE StartLoading \/ \E t \in Threads : LoadThread(t) \/ DropProvisional(t) \/ Quarantine(t)
    <3>1. phase # "up" /\ phase' = "loading" /\ UNCHANGED job
      BY <2>1 DEF StartLoading, LoadThread, DropProvisional, Quarantine, Load
    <3> QED
      BY <1>1, <3>1 DEF JobValidated, IdentitiesUnique
  <2>2. CASE FinishLoading
    BY <1>1, <2>2 DEF FinishLoading, JobValidated, IdentitiesUnique
  <2> QED
    BY <1>10, <2>1, <2>2 DEF Restart
<1>11. CASE Environment
  <2>1. CASE Crash
    BY <2>1 DEF Crash, JobValidated, IdentitiesUnique
  <2>2. CASE \E file \in {"primary", "backup"}, t \in Threads : Damage(file, t)
    BY <1>2, <2>2 DEF Damage
  <2> QED
    BY <1>11, <2>1, <2>2 DEF Environment
<1>12. CASE UNCHANGED vars
  BY <1>2, <1>12 DEF vars
<1> QED
  BY <1>3, <1>4, <1>5, <1>6, <1>7, <1>8, <1>9, <1>10, <1>11, <1>12 DEF Next, FileStep

\* However operations, crashes, failures, damage and restarts interleave, a Store
\* that serves holds every create request, Native Session, Host Turn and Native
\* Turn once: #rebuildIndexes never throws after a committed write.
THEOREM IdentitiesStayUnique == Spec => []IdentitiesUnique
<1>1. Inv => IdentitiesUnique
  BY DEF Inv
<1> QED
  BY InitialInv, InvStep, <1>1, PTL DEF Spec

-----------------------------------------------------------------------------
(* Compare-and-swap *)

\* Every job that rewrites a record numbers it one higher; a new record belongs to
\* a Thread nobody has read.
JobNumbered ==
  job # Idle =>
    /\ job.thread \in used
    /\ job.kind \in {"update", "replace"} =>
         /\ records[job.thread] # Absent
         /\ job.next.revision = records[job.thread].revision + 1
    /\ job.kind = "create" =>
         /\ records[job.thread] = Absent
         /\ snapshot # Absent => snapshot.thread # job.thread

\* What a caller read is the record in memory, an older revision, or gone.
SnapshotBehind ==
  snapshot # Absent =>
    /\ phase = "up" /\ snapshot.thread \in used
    /\ records[snapshot.thread] # Absent =>
         \/ records[snapshot.thread] = snapshot.read
         \/ records[snapshot.thread].revision > snapshot.read.revision

UsedInv ==
  /\ \A t \in Threads : records[t] # Absent \/ primary[t] # Absent => t \in used
  /\ job # Idle => phase = "up"

CasInv == TypeOK /\ UsedInv /\ JobNumbered /\ SnapshotBehind

\* Every step keeps revisions in step: a Thread is used once, the job of a Thread
\* is one revision ahead, and a snapshot is never newer than its record.
LEMMA CasStep == CasInv /\ [Next]_vars => CasInv'
<1> SUFFICES ASSUME TypeOK, UsedInv, JobNumbered, SnapshotBehind, [Next]_vars
             PROVE  UsedInv' /\ JobNumbered' /\ SnapshotBehind'
  BY TypeStep DEF CasInv
<1> USE DEF UsedInv
<1>1. ASSUME UNCHANGED <<phase, records, snapshot, used>>, UNCHANGED job \/ job' = Idle,
             \A t \in Threads : primary'[t] # Absent => t \in used
      PROVE  UsedInv' /\ JobNumbered' /\ SnapshotBehind'
  BY <1>1 DEF JobNumbered, SnapshotBehind
<1>2. CASE Operation
  <2>1. PICK t \in Threads :
          \/ \E q \in Requests, forked \in BOOLEAN, p \in Threads \cup {NoThread} :
                CreateProvisional(t, q, forked, p)
          \/ \E s \in Sessions, list \in TurnLists :
                \/ CommitReady(t, s, list)
                \/ ReplaceReadySession(t, s, list)
                \/ ReplaceReadySessionAfterLastTurn(t, s, list)
          \/ \E list \in TurnLists :
                UpsertTurnMappings(t, list) \/ ReconcileTurnMappings(t, list)
          \/ SetManagement(t)
          \/ \E q \in Requests : RebindSubagentSession(t, q)
          \/ ReadForReplacement(t)
          \/ RemoveThread(t)
    BY <1>2 DEF Operation
  <2>2. CASE \E q \in Requests, forked \in BOOLEAN, p \in Threads \cup {NoThread} :
                CreateProvisional(t, q, forked, p)
    <3>1. /\ phase = "up" /\ t \notin used /\ used' = used \cup {t}
          /\ job'.kind = "create" /\ job'.thread = t
          /\ UNCHANGED <<phase, records, primary, snapshot>>
      BY <2>2 DEF CreateProvisional, disk
    <3> QED
      BY <3>1 DEF JobNumbered, SnapshotBehind
  <2>3. ASSUME NEW kind \in {"update", "replace"}, NEW changed,
               Ready(t), UNCHANGED snapshot, Replace(kind, t, changed)
        PROVE  UsedInv' /\ JobNumbered' /\ SnapshotBehind'
    <3>1. /\ job'.kind = kind /\ job'.thread = t
          /\ job'.next.revision = records[t].revision + 1
          /\ UNCHANGED <<phase, records, primary, used>>
      BY <2>3, ReplaceIsValidated DEF disk
    <3>2. phase = "up" /\ records[t] # Absent /\ t \in used
      BY <2>3 DEF Ready, Stored
    <3>3. UsedInv' /\ JobNumbered'
      BY <3>1, <3>2 DEF JobNumbered
    <3>4. SnapshotBehind'
      BY <2>3, <3>1 DEF SnapshotBehind
    <3> QED
      BY <3>3, <3>4
  <2>4. CASE \E s \in Sessions, list \in TurnLists :
               \/ CommitReady(t, s, list)
               \/ ReplaceReadySession(t, s, list)
               \/ ReplaceReadySessionAfterLastTurn(t, s, list)
    BY <2>3, <2>4 DEF CommitReady, ReplaceReadySession, ReplaceReadySessionAfterLastTurn
  <2>5. CASE \E list \in TurnLists :
               UpsertTurnMappings(t, list) \/ ReconcileTurnMappings(t, list)
    BY <2>3, <2>5 DEF UpsertTurnMappings, ReconcileTurnMappings
  <2>6. CASE SetManagement(t) \/ \E q \in Requests : RebindSubagentSession(t, q)
    BY <2>3, <2>6 DEF SetManagement, RebindSubagentSession
  <2>7. CASE ReadForReplacement(t)
    <3>1. /\ phase = "up" /\ records[t] # Absent
          /\ snapshot' = [thread |-> t, read |-> records[t]]
          /\ UNCHANGED <<phase, records, primary, job, used>>
      BY <2>7 DEF ReadForReplacement, Stored, disk
    <3>2. job # Idle /\ job.kind = "create" => job.thread # t
      BY <3>1 DEF JobNumbered
    <3> QED
      BY <3>1, <3>2 DEF JobNumbered, SnapshotBehind
  <2>8. CASE RemoveThread(t)
    BY <2>8 DEF RemoveThread, Ready, Stored, JobNumbered, SnapshotBehind, disk
  <2> QED
    BY <2>1, <2>2, <2>4, <2>5, <2>6, <2>7, <2>8
<1>3. CASE WriteTemp \/ StartCopy \/ FinishCopy \/ RenameTemp
  <2>1. PICK step \in Steps : Goto(step)
    BY <1>3 DEF WriteTemp, StartCopy, FinishCopy, RenameTemp, Steps
  <2>2. job \in [kind : {"create", "update", "replace"}, thread : Threads,
                 next : ThreadRecord, step : Steps]
    BY <1>3 DEF WriteTemp, StartCopy, FinishCopy, RenameTemp, At, TypeOK, Job
  <2>3. /\ UNCHANGED <<phase, records, snapshot, used>> /\ job # Idle
        /\ job'.next = job.next /\ job'.thread = job.thread /\ job'.kind = job.kind
    BY <1>3, <2>1, <2>2 DEF WriteTemp, StartCopy, FinishCopy, RenameTemp, At, Goto
  <2>4. \A t \in Threads : primary'[t] # Absent => t \in used
    BY <1>3, <2>2 DEF WriteTemp, StartCopy, FinishCopy, RenameTemp, At, JobNumbered, TypeOK, disk
  <2> QED
    BY <2>3, <2>4 DEF JobNumbered, SnapshotBehind
<1>4. CASE Commit
  <2>1. job \in [kind : {"create", "update", "replace"}, thread : Threads,
                 next : ThreadRecord, step : Steps]
    BY <1>4 DEF Commit, At, TypeOK, Job
  <2>2. /\ phase = "up" /\ job # Idle /\ job' = Idle
        /\ records' = [records EXCEPT ![job.thread] = job.next]
        /\ UNCHANGED <<phase, primary, snapshot, used>>
    BY <1>4 DEF Commit, At, disk
  <2>3. UsedInv' /\ JobNumbered'
    BY <2>1, <2>2 DEF JobNumbered, TypeOK
  <2>4. SnapshotBehind'
    <3>1. CASE snapshot = Absent \/ snapshot.thread # job.thread
      BY <2>1, <2>2, <3>1 DEF SnapshotBehind, TypeOK
    <3>2. CASE snapshot # Absent /\ snapshot.thread = job.thread
      <4>1. /\ records[job.thread] # Absent
            /\ job.next.revision = records[job.thread].revision + 1
        BY <2>1, <2>2, <3>2 DEF JobNumbered
      <4>2. /\ records[job.thread].revision \in Nat
            /\ snapshot.read.revision \in Nat /\ job.next.revision \in Nat
        BY <2>1, <3>2, <4>1 DEF TypeOK, ThreadRecord
      <4>3. job.next.revision > snapshot.read.revision
        BY <3>2, <4>1, <4>2 DEF SnapshotBehind
      <4> QED
        BY <2>1, <2>2, <3>2, <4>3 DEF SnapshotBehind, TypeOK
    <3> QED
      BY <3>1, <3>2
  <2> QED
    BY <2>3, <2>4
<1>5. CASE FailReplacement \/ \E file \in {"primary", "backup"} : FailRemoval(file)
  BY <1>1, <1>5 DEF FailReplacement, FailRemoval, disk
<1>6. ASSUME NEW file \in {"primary", "backup"}, NEW t \in Threads, Unlink(file, t)
      PROVE  \A u \in Threads : primary'[u] # Absent => u \in used
  BY <1>6 DEF Unlink, TypeOK
<1>7. CASE \E file \in {"primary", "backup"} : RemoveFile(file)
  <2>1. PICK file \in {"primary", "backup"} : RemoveFile(file)
    BY <1>7
  <2>2. job \in [kind : {"remove"}, thread : Threads, left : SUBSET {"primary", "backup"}]
    BY <2>1 DEF RemoveFile, Removing, TypeOK, Job
  <2>3. /\ job # Idle /\ job'.kind = "remove" /\ job'.thread = job.thread
        /\ UNCHANGED <<phase, records, snapshot, used>>
    BY <2>1, <2>2 DEF RemoveFile, Removing
  <2>4. \A u \in Threads : primary'[u] # Absent => u \in used
    BY <1>6, <2>1, <2>2 DEF RemoveFile
  <2> QED
    BY <2>3, <2>4 DEF JobNumbered, SnapshotBehind
<1>8. CASE CommitRemoval
  <2>1. /\ job.thread \in Threads /\ job' = Idle
        /\ records' = [records EXCEPT ![job.thread] = Absent]
        /\ UNCHANGED <<phase, primary, snapshot, used>>
    BY <1>8 DEF CommitRemoval, Removing, TypeOK, Job, disk
  <2> QED
    BY <2>1 DEF JobNumbered, SnapshotBehind, TypeOK
<1>9. CASE \E file \in {"primary", "backup"}, t \in Threads : FinishLateRemoval(file, t)
  BY <1>1, <1>6, <1>9 DEF FinishLateRemoval
<1>10. CASE Restart
  <2>1. CASE StartLoading \/ FinishLoading
    <3>1. /\ phase # "up" /\ UNCHANGED <<records, primary, job, snapshot, used>>
      BY <2>1 DEF StartLoading, FinishLoading, disk
    <3> QED
      BY <3>1 DEF JobNumbered, SnapshotBehind
  <2>2. ASSUME NEW t \in Threads, LoadThread(t) \/ DropProvisional(t) \/ Quarantine(t)
        PROVE  UsedInv' /\ JobNumbered' /\ SnapshotBehind'
    <3>1. /\ phase # "up" /\ UNCHANGED <<phase, job, snapshot, used>>
      BY <2>2 DEF LoadThread, DropProvisional, Quarantine, Load
    <3>2. \A u \in Threads : records'[u] # Absent \/ primary'[u] # Absent => u \in used
      BY <2>2 DEF LoadThread, DropProvisional, Quarantine, Load, Source, TypeOK
    <3> QED
      BY <3>1, <3>2 DEF JobNumbered, SnapshotBehind
  <2> QED
    BY <1>10, <2>1, <2>2 DEF Restart
<1>11. CASE Environment
  <2>1. CASE Crash
    BY <2>1 DEF Crash, JobNumbered, SnapshotBehind, disk
  <2>2. ASSUME NEW file \in {"primary", "backup"}, NEW t \in Threads, Damage(file, t)
        PROVE  UsedInv' /\ JobNumbered' /\ SnapshotBehind'
    <3>1. \A u \in Threads : primary'[u] # Absent => u \in used
      BY <2>2 DEF Damage, TypeOK
    <3> QED
      BY <1>1, <2>2, <3>1 DEF Damage
  <2> QED
    BY <1>11, <2>1, <2>2 DEF Environment
<1>12. CASE UNCHANGED vars
  BY <1>1, <1>12 DEF vars, disk
<1> QED
  BY <1>2, <1>3, <1>4, <1>5, <1>7, <1>8, <1>9, <1>10, <1>11, <1>12 DEF Next, FileStep

\* A replacement starts only from the record its caller read.
LEMMA CasAction ==
  CasInv /\ [Next]_vars =>
    (job = Idle /\ job' # Idle /\ job'.kind = "replace" => records[job'.thread] = snapshot.read)
<1> SUFFICES ASSUME CasInv, [Next]_vars, job = Idle, job' # Idle, job'.kind = "replace"
             PROVE  records[job'.thread] = snapshot.read
  OBVIOUS
<1>1. TypeOK /\ SnapshotBehind
  BY DEF CasInv
<1>2. Operation
  BY DEF Next, FileStep, WriteTemp, StartCopy, FinishCopy, RenameTemp, Commit, FailReplacement,
         At, RemoveFile, FailRemoval, CommitRemoval, Removing, FinishLateRemoval, Restart,
         StartLoading, FinishLoading, LoadThread, DropProvisional, Quarantine, Load,
         Environment, Crash, Damage, vars
<1>3. PICK t \in Threads, s \in Sessions, list \in TurnLists :
        \/ ReplaceReadySession(t, s, list)
        \/ ReplaceReadySessionAfterLastTurn(t, s, list)
  <2>1. ASSUME NEW t \in Threads, NEW changed, Replace("update", t, changed)
        PROVE  FALSE
    BY <1>1, <2>1, ReplaceIsValidated
  <2>2. ASSUME NEW t \in Threads,
               \/ \E q \in Requests, forked \in BOOLEAN, p \in Threads \cup {NoThread} :
                     CreateProvisional(t, q, forked, p)
               \/ ReadForReplacement(t)
               \/ RemoveThread(t)
        PROVE  FALSE
    BY <2>2 DEF CreateProvisional, ReadForReplacement, RemoveThread
  <2>3. ASSUME NEW t \in Threads,
               \/ \E s \in Sessions, list \in TurnLists : CommitReady(t, s, list)
               \/ \E list \in TurnLists :
                     UpsertTurnMappings(t, list) \/ ReconcileTurnMappings(t, list)
               \/ SetManagement(t)
               \/ \E q \in Requests : RebindSubagentSession(t, q)
        PROVE  FALSE
    BY <2>1, <2>3 DEF CommitReady, UpsertTurnMappings, ReconcileTurnMappings, SetManagement,
       RebindSubagentSession
  <2> QED
    BY <1>2, <2>2, <2>3 DEF Operation
<1>4. /\ Expected(t) /\ t \in Stored(records)
      /\ \E changed : Replace("replace", t, changed)
  BY <1>3 DEF ReplaceReadySession, ReplaceReadySessionAfterLastTurn, Ready
<1>5. job'.thread = t
  BY <1>1, <1>4, ReplaceIsValidated
<1>6. /\ snapshot # Absent /\ snapshot.thread = t /\ records[t] # Absent
      /\ records[t].revision = snapshot.read.revision
      /\ records[t].revision \in Nat
  BY <1>1, <1>4 DEF Expected, Stored, TypeOK, ThreadRecord
<1> QED
  BY <1>1, <1>5, <1>6 DEF SnapshotBehind

\* Comparing the revision a caller read is enough: no write, removal, crash or
\* restart can leave another record under the same revision for it to replace.
THEOREM ReplacementIsCompareAndSwap == Spec => ReplacementSeesItsRead
<1>1. Init => CasInv
  BY InitialInv DEF Inv, Init, CasInv, UsedInv, JobNumbered, SnapshotBehind
<1>2. CasInv /\ [Next]_vars =>
        [job = Idle /\ job' # Idle /\ job'.kind = "replace"
           => records[job'.thread] = snapshot.read]_vars
  BY CasAction
<1> QED
  BY <1>1, <1>2, CasStep, PTL DEF Spec, ReplacementSeesItsRead

-----------------------------------------------------------------------------
(* Memory and files                                                        *)
(*                                                                         *)
(* What a file holds is told by what memory holds and by how far the running*)
(* job has come. The primary of a Thread is its record in memory, or the    *)
(* record its job has just renamed into place; it is missing only when a    *)
(* removal took it. The backup is what the primary was before the rename.   *)

Writing == job # Idle /\ job.kind # "remove"
Removed(t) == job # Idle /\ job.kind = "remove" /\ job.thread = t /\ "primary" \notin job.left

\* The record of t that memory holds, or will hold without another file operation.
Current(t) == IF Writing /\ job.thread = t /\ job.step = "commit" THEN job.next ELSE records[t]

Readable(r) == r \notin {Absent, Malformed}

\* A Thread ID that was never allocated has no backup.
Fresh == \A t \in Threads : t \notin used => backup[t] = Absent

\* What there cannot be in each phase.
Quiet ==
  /\ phase # "up" => late = {}
  /\ phase # "loading" => unread = {}
  /\ phase = "down" => \A t \in Threads : records[t] = Absent
  /\ \A t \in unread : records[t] = Absent
  /\ late # {} => rmErrors > 0

\* A creation keeps no backup; a removal that has unlinked the primary has done so.
JobOnFiles ==
  job # Idle =>
    /\ job.kind = "create" => job.step \notin {"copy", "copying"} /\ backup[job.thread] = Absent
    /\ job.kind = "remove" /\ "primary" \notin job.left => primary[job.thread] = Absent

PrimaryOf(t) ==
  phase # "down" /\ t \notin unread =>
    /\ primary[t] \in {Current(t), Absent, Malformed}
    /\ primary[t] = Absent => Current(t) = Absent \/ (phase = "up" /\ (rmErrors > 0 \/ Removed(t)))

BackupOf(t) ==
  rmErrors = 0 /\ Readable(backup[t]) =>
    /\ Readable(primary[t]) => backup[t].revision \in {primary[t].revision - 1, primary[t].revision}
    /\ records[t] # Absent =>
         /\ backup[t].revision \in {records[t].revision - 1, records[t].revision}
         /\ Writing /\ job.thread = t /\ job.step \in {"rename", "commit"}
              => backup[t].revision = records[t].revision

FilesInv ==
  /\ Fresh /\ Quiet /\ JobOnFiles
  /\ \A t \in Threads : PrimaryOf(t)
  /\ \A t \in Threads : BackupOf(t)
  /\ damage = 0 => \A t \in Threads : primary[t] # Malformed

\* The first part of an operation touches no file and no record: it ends by
\* queueing a job that has still to do everything, or queues none.
LEMMA OperationStep ==
  ASSUME TypeOK, Operation
  PROVE  /\ UNCHANGED <<phase, unread, records, primary, backup, late, rmErrors, damage>>
         /\ used \subseteq used'
         /\ \/ job' = job
            \/ /\ job = Idle /\ job' # Idle
               /\ \/ job'.kind \in {"update", "replace"} /\ job'.step = "temp"
                  \/ job'.kind = "create" /\ job'.step = "temp" /\ job'.thread \in Threads \ used
                  \/ job'.kind = "remove" /\ job'.left = {"primary", "backup"}
<1> USE DEF disk, counters
<1>1. PICK t \in Threads :
          \/ \E q \in Requests, forked \in BOOLEAN, p \in Threads \cup {NoThread} :
                CreateProvisional(t, q, forked, p)
          \/ \E s \in Sessions, list \in TurnLists :
                \/ CommitReady(t, s, list)
                \/ ReplaceReadySession(t, s, list)
                \/ ReplaceReadySessionAfterLastTurn(t, s, list)
          \/ \E list \in TurnLists :
                UpsertTurnMappings(t, list) \/ ReconcileTurnMappings(t, list)
          \/ SetManagement(t)
          \/ \E q \in Requests : RebindSubagentSession(t, q)
          \/ ReadForReplacement(t)
          \/ RemoveThread(t)
  BY DEF Operation
<1>2. CASE \E q \in Requests, forked \in BOOLEAN, p \in Threads \cup {NoThread} :
                CreateProvisional(t, q, forked, p)
  <2>1. /\ UNCHANGED <<phase, unread, records, primary, backup, late, rmErrors, damage>>
        /\ used' = used \cup {t} /\ t \notin used /\ job = Idle
        /\ job'.kind = "create" /\ job'.step = "temp" /\ job'.thread = t
    BY <1>2 DEF CreateProvisional
  <2>2. job' # Idle
    <3>1. PICK q \in Requests, forked \in BOOLEAN, p \in Threads \cup {NoThread} :
                CreateProvisional(t, q, forked, p)
      BY <1>2
    <3>2. <<>> \in TurnLists
      BY DEF TurnLists
    <3>3. [revision |-> 1, request |-> q, state |-> "creating", session |-> NoSession,
           forked |-> forked, parent |-> p, turns |-> <<>>] \in ThreadRecord
      BY <3>2 DEF ThreadRecord
    <3>4. job' \in Job
      BY <3>1, <3>3 DEF CreateProvisional, Job, Steps
    <3> QED BY <3>4
  <2> QED BY <2>1, <2>2
<1>3. ASSUME NEW kind \in {"update", "replace"}, NEW changed, Ready(t), Replace(kind, t, changed)
      PROVE  /\ UNCHANGED <<phase, unread, records, primary, backup, late, rmErrors, damage, used>>
             /\ job = Idle /\ job' # Idle
             /\ job'.kind \in {"update", "replace"} /\ job'.step = "temp"
  <2>1. job' \in Job /\ job'.kind = kind /\ UNCHANGED <<phase, unread, records, disk, late, used, counters>>
    BY <1>3, ReplaceIsValidated
  <2>2. job'.step = "temp"
    BY <1>3 DEF Replace
  <2> QED BY <1>3, <2>1, <2>2 DEF Ready
<1>4. CASE \E s \in Sessions, list \in TurnLists :
               \/ CommitReady(t, s, list)
               \/ ReplaceReadySession(t, s, list)
               \/ ReplaceReadySessionAfterLastTurn(t, s, list)
  BY <1>3, <1>4 DEF CommitReady, ReplaceReadySession, ReplaceReadySessionAfterLastTurn
<1>5. CASE \E list \in TurnLists :
               UpsertTurnMappings(t, list) \/ ReconcileTurnMappings(t, list)
  BY <1>3, <1>5 DEF UpsertTurnMappings, ReconcileTurnMappings
<1>6. CASE SetManagement(t) \/ \E q \in Requests : RebindSubagentSession(t, q)
  BY <1>3, <1>6 DEF SetManagement, RebindSubagentSession
<1>7. CASE ReadForReplacement(t)
  BY <1>7 DEF ReadForReplacement
<1>8. CASE RemoveThread(t)
  <2>1. job' \in Job /\ job = Idle /\ job'.kind = "remove" /\ job'.left = {"primary", "backup"}
    BY <1>8 DEF RemoveThread, Ready, Job
  <2> QED BY <1>8, <2>1 DEF RemoveThread
<1> QED BY <1>1, <1>2, <1>4, <1>5, <1>6, <1>7, <1>8

\* A step that touches neither files nor records, and at most ends the job before
\* its rename or its removals, or queues one.
LEMMA FilesUntouched ==
  ASSUME TypeOK, FilesInv, phase' = phase,
         UNCHANGED <<unread, records, primary, backup, damage>>, used \subseteq used',
         late' = late, rmErrors' = rmErrors,
         \/ job' = job
         \/ job' = Idle /\ Writing /\ job.step # "commit"
         \/ /\ job = Idle /\ job' # Idle
            /\ \/ job'.kind \in {"update", "replace"} /\ job'.step = "temp"
               \/ job'.kind = "create" /\ job'.step = "temp" /\ job'.thread \in Threads \ used
               \/ job'.kind = "remove" /\ job'.left = {"primary", "backup"}
  PROVE  FilesInv'
<1>1. Fresh' /\ Quiet'
  BY DEF FilesInv, Fresh, Quiet
<1>2. JobOnFiles'
  BY DEF FilesInv, JobOnFiles, Fresh
<1>3. \A t \in Threads : Current(t)' = Current(t) /\ (Removed(t) => Removed(t)')
  BY DEF Current, Writing, Removed
<1>4. ASSUME NEW t \in Threads PROVE PrimaryOf(t)'
  BY <1>3 DEF FilesInv, PrimaryOf
<1>5. ASSUME NEW t \in Threads PROVE BackupOf(t)'
  BY DEF FilesInv, BackupOf, Writing, Readable
<1> QED BY <1>1, <1>2, <1>4, <1>5 DEF FilesInv

\* The file operations of an update.
LEMMA WritingStep ==
  ASSUME CasInv, FilesInv, WriteTemp \/ StartCopy \/ FinishCopy \/ RenameTemp
  PROVE  FilesInv'
<1> DEFINE w == job.thread
<1>1. /\ job \in [kind : {"create", "update", "replace"}, thread : Threads, next : ThreadRecord, step : Steps]
      /\ job # Idle /\ phase = "up"
  BY DEF WriteTemp, StartCopy, FinishCopy, RenameTemp, At, CasInv, TypeOK, Job
<1>2. /\ job' # Idle /\ job'.kind = job.kind /\ job'.thread = job.thread /\ job'.next = job.next
      /\ UNCHANGED <<phase, unread, records, late, used, rmErrors, damage>>
  <2>1. PICK step \in Steps : Goto(step)
    BY DEF WriteTemp, StartCopy, FinishCopy, RenameTemp, Steps
  <2>2. job' \in Job /\ job'.kind = job.kind /\ job'.thread = job.thread /\ job'.next = job.next
    BY <1>1, <2>1 DEF Goto, Job
  <2> QED BY <2>2 DEF WriteTemp, StartCopy, FinishCopy, RenameTemp, counters
<1>3. /\ job.step = "temp" => job'.step \in {"copy", "rename"}
      /\ job.step = "copy" => job'.step = "copying"
      /\ job.step = "copying" => job'.step = "rename"
      /\ job.step = "rename" => job'.step = "commit"
      /\ job.step # "commit"
  BY <1>1 DEF WriteTemp, StartCopy, FinishCopy, RenameTemp, At, Goto
<1>4. \A t \in Threads :
        /\ primary'[t] = IF t = w /\ job.step = "rename" THEN job.next ELSE primary[t]
        /\ backup'[t] = IF t = w /\ job.step = "copy" THEN Malformed
                        ELSE IF t = w /\ job.step = "copying" THEN primary[t] ELSE backup[t]
  BY <1>1 DEF WriteTemp, StartCopy, FinishCopy, RenameTemp, At, disk, CasInv, TypeOK
<1>5. /\ job.kind # "create" =>
           /\ records[w] # Absent /\ job.next.revision = records[w].revision + 1
      /\ job.kind = "create" => records[w] = Absent /\ job.step \in {"temp", "rename"} /\ backup[w] = Absent
      /\ w \in used
  BY <1>1, <1>3 DEF CasInv, JobNumbered, FilesInv, JobOnFiles, Steps
<1>6. /\ job.next \in ThreadRecord /\ job.next # Absent /\ job.next # Malformed
      /\ \A t \in Threads : records[t] # Absent => records[t].revision \in Nat /\ Readable(records[t])
  BY <1>1 DEF CasInv, TypeOK, ThreadRecord, Readable
<1>7. Fresh' /\ Quiet'
  BY <1>2, <1>4, <1>5 DEF FilesInv, Fresh, Quiet
<1>8. JobOnFiles'
  <2>1. job.kind = "create" /\ job.step = "temp" => job'.step = "rename"
    BY <1>1 DEF WriteTemp, StartCopy, FinishCopy, RenameTemp, At, Goto
  <2> QED BY <1>1, <1>2, <1>3, <1>4, <1>5, <2>1 DEF FilesInv, JobOnFiles
<1>9. \A t \in Threads : Current(t)' = IF t = w /\ job.step = "rename" THEN job.next ELSE Current(t)
  BY <1>1, <1>2, <1>3 DEF Current, Writing, Steps
<1>10. ASSUME NEW t \in Threads PROVE PrimaryOf(t)'
  BY <1>1, <1>2, <1>4, <1>6, <1>9 DEF FilesInv, PrimaryOf, Removed
<1>11. ASSUME NEW t \in Threads PROVE BackupOf(t)'
  <2>1. PrimaryOf(t) /\ BackupOf(t) /\ t \notin unread
    BY <1>1 DEF FilesInv, Quiet
  <2>2. CASE t # w
    BY <1>2, <1>4, <2>1, <2>2 DEF BackupOf, Writing
  <2>3. CASE t = w /\ job.kind = "create"
    BY <1>3, <1>4, <1>5, <2>3 DEF BackupOf, Readable
  <2>4. CASE t = w /\ job.kind # "create"
    <3>1. Current(w) = records[w] /\ ~Removed(w)
      BY <1>1, <1>3 DEF Current, Writing, Removed
    <3>2. primary[w] \in {records[w], Malformed} \/ rmErrors > 0
      BY <1>1, <1>5, <2>1, <2>4, <3>1 DEF PrimaryOf
    <3>3. CASE job.step = "temp"
      <4>1. job'.step = "rename" => primary[w] = Absent
        BY <1>1, <2>4, <3>3 DEF WriteTemp, StartCopy, FinishCopy, RenameTemp, At, Goto
      <4>2. job'.step = "rename" => rmErrors > 0
        BY <1>5, <2>4, <3>2, <4>1
      <4>3. ~(rmErrors > 0 /\ rmErrors = 0)
        OBVIOUS
      <4> QED BY <1>2, <1>3, <1>4, <2>1, <2>4, <3>3, <4>2, <4>3 DEF BackupOf, Writing
    <3>4. CASE job.step = "copy"
      BY <1>2, <1>3, <1>4, <2>1, <2>4, <3>4 DEF BackupOf, Writing, Readable
    <3>5. CASE job.step = "copying"
      BY <1>2, <1>3, <1>4, <1>5, <1>6, <2>1, <2>4, <3>2, <3>5 DEF BackupOf, Writing, Readable
    <3>6. CASE job.step = "rename"
      BY <1>1, <1>2, <1>3, <1>4, <1>5, <1>6, <2>1, <2>4, <3>6 DEF BackupOf, Writing, Readable
    <3> QED BY <1>1, <1>3, <3>3, <3>4, <3>5, <3>6 DEF Steps
  <2> QED BY <2>2, <2>3, <2>4
<1>12. damage' = 0 => \A t \in Threads : primary'[t] # Malformed
  BY <1>2, <1>4, <1>6 DEF FilesInv
<1> QED BY <1>7, <1>8, <1>10, <1>11, <1>12 DEF FilesInv

\* The continuation of a write, and a failed one.
LEMMA CommitStep == ASSUME CasInv, FilesInv, Commit PROVE FilesInv'
<1>1. /\ job \in [kind : {"create", "update", "replace"}, thread : Threads, next : ThreadRecord, step : Steps]
      /\ job # Idle /\ phase = "up" /\ job.step = "commit" /\ job' = Idle
      /\ UNCHANGED <<phase, unread, primary, backup, late, used, rmErrors, damage>>
      /\ \A t \in Threads : records'[t] = IF t = job.thread THEN job.next ELSE records[t]
  BY DEF Commit, At, CasInv, TypeOK, Job, disk, counters
<1>2. /\ job.kind # "create" =>
           /\ records[job.thread] # Absent /\ job.next.revision = records[job.thread].revision + 1
      /\ job.kind = "create" => backup[job.thread] = Absent
      /\ records[job.thread] # Absent => records[job.thread].revision \in Nat
  BY <1>1 DEF CasInv, JobNumbered, FilesInv, JobOnFiles, TypeOK, ThreadRecord
<1>3. Fresh' /\ Quiet' /\ JobOnFiles'
  BY <1>1 DEF FilesInv, Fresh, Quiet, JobOnFiles
<1>4. \A t \in Threads : Current(t)' = Current(t) /\ ~Removed(t)
  BY <1>1 DEF Current, Writing, Removed
<1>5. ASSUME NEW t \in Threads PROVE PrimaryOf(t)'
  BY <1>1, <1>4 DEF FilesInv, PrimaryOf
<1>6. ASSUME NEW t \in Threads PROVE BackupOf(t)'
  <2>1. CASE t # job.thread
    BY <1>1, <2>1 DEF FilesInv, BackupOf, Writing
  <2>2. CASE t = job.thread
    BY <1>1, <1>2, <2>2 DEF FilesInv, BackupOf, Writing, Readable
  <2> QED BY <2>1, <2>2
<1> QED BY <1>1, <1>3, <1>5, <1>6 DEF FilesInv

LEMMA FailReplacementStep == ASSUME CasInv, FilesInv, FailReplacement PROVE FilesInv'
<1>1. /\ UNCHANGED <<phase, unread, records, primary, backup, damage, used, late, rmErrors>>
      /\ job' = Idle /\ Writing /\ job.step # "commit"
  BY DEF FailReplacement, At, Writing, disk
<1> QED BY <1>1, FilesUntouched DEF CasInv

\* A removal unlinks the two files in any order, forgets the record, or fails and
\* may leave the other unlinking for later.
LEMMA RemovalStep ==
  ASSUME CasInv, FilesInv, NEW file \in {"primary", "backup"}, RemoveFile(file) \/ FailRemoval(file) \/ CommitRemoval
  PROVE  FilesInv'
<1>1. /\ job \in [kind : {"remove"}, thread : Threads, left : SUBSET {"primary", "backup"}]
      /\ job # Idle /\ phase = "up" /\ ~Writing /\ job.thread \in used
  BY DEF RemoveFile, FailRemoval, CommitRemoval, Removing, CasInv, TypeOK, Job, JobNumbered, Writing
<1>2. \A t \in Threads : Current(t) = records[t] /\ (Removed(t) <=> t = job.thread /\ "primary" \notin job.left)
  BY <1>1 DEF Current, Removed
<1>3. CASE RemoveFile(file)
  <2>1. /\ job' # Idle /\ job'.kind = "remove" /\ job'.thread = job.thread /\ job'.left = job.left \ {file}
        /\ UNCHANGED <<phase, unread, records, late, used, rmErrors, damage>>
    <3>1. job' \in Job
      BY <1>1, <1>3 DEF RemoveFile, Job
    <3> QED BY <1>1, <1>3, <3>1 DEF RemoveFile, counters
  <2>2. \A t \in Threads : /\ primary'[t] = IF t = job.thread /\ file = "primary" THEN Absent ELSE primary[t]
                           /\ backup'[t] = IF t = job.thread /\ file = "backup" THEN Absent ELSE backup[t]
    BY <1>1, <1>3 DEF RemoveFile, Unlink, CasInv, TypeOK
  <2>3. Fresh' /\ Quiet' /\ JobOnFiles'
    BY <1>1, <2>1, <2>2 DEF FilesInv, Fresh, Quiet, JobOnFiles
  <2>4. \A t \in Threads : Current(t)' = records[t] /\ (Removed(t)' <=> t = job.thread /\ "primary" \notin job.left \ {file})
    BY <2>1 DEF Current, Writing, Removed
  <2>5. ASSUME NEW t \in Threads PROVE PrimaryOf(t)'
    BY <1>1, <1>2, <2>1, <2>2, <2>4 DEF FilesInv, PrimaryOf
  <2>6. ASSUME NEW t \in Threads PROVE BackupOf(t)'
    BY <1>1, <2>1, <2>2 DEF FilesInv, BackupOf, Writing, Readable
  <2>7. damage' = 0 => \A t \in Threads : primary'[t] # Malformed
    BY <2>1, <2>2 DEF FilesInv
  <2> QED BY <2>3, <2>5, <2>6, <2>7 DEF FilesInv
<1>4. CASE FailRemoval(file)
  <2>1. /\ job' = Idle /\ rmErrors' = rmErrors + 1 /\ rmErrors \in Nat
        /\ UNCHANGED <<phase, unread, records, primary, backup, used, damage>>
    BY <1>4 DEF FailRemoval, CasInv, TypeOK, disk
  <2>2. Fresh' /\ Quiet' /\ JobOnFiles'
    BY <1>1, <2>1 DEF FilesInv, Fresh, Quiet, JobOnFiles
  <2>3. \A t \in Threads : Current(t)' = records[t]
    BY <2>1 DEF Current, Writing
  <2>4. ASSUME NEW t \in Threads PROVE PrimaryOf(t)'
    BY <1>1, <1>2, <2>1, <2>3 DEF FilesInv, PrimaryOf
  <2>5. ASSUME NEW t \in Threads PROVE BackupOf(t)'
    BY <2>1 DEF BackupOf
  <2> QED BY <2>1, <2>2, <2>4, <2>5 DEF FilesInv
<1>5. CASE CommitRemoval
  <2>1. /\ job' = Idle /\ job.left = {}
        /\ UNCHANGED <<phase, unread, primary, backup, late, used, rmErrors, damage>>
        /\ \A t \in Threads : records'[t] = IF t = job.thread THEN Absent ELSE records[t]
    BY <1>1, <1>5 DEF CommitRemoval, CasInv, TypeOK, disk, counters
  <2>2. primary[job.thread] = Absent
    BY <1>1, <2>1 DEF FilesInv, JobOnFiles
  <2>3. Fresh' /\ Quiet' /\ JobOnFiles'
    BY <1>1, <2>1 DEF FilesInv, Fresh, Quiet, JobOnFiles
  <2>4. \A t \in Threads : Current(t)' = records'[t]
    BY <2>1 DEF Current, Writing
  <2>5. ASSUME NEW t \in Threads PROVE PrimaryOf(t)'
    BY <1>1, <1>2, <2>1, <2>2, <2>4 DEF FilesInv, PrimaryOf
  <2>6. ASSUME NEW t \in Threads PROVE BackupOf(t)'
    BY <1>1, <2>1 DEF FilesInv, BackupOf, Writing
  <2> QED BY <2>1, <2>3, <2>5, <2>6 DEF FilesInv
<1> QED BY <1>3, <1>4, <1>5

\* An unlinking that outlived its rejected operation.
LEMMA LateRemovalStep ==
  ASSUME CasInv, FilesInv, NEW file \in {"primary", "backup"}, NEW u \in Threads, FinishLateRemoval(file, u)
  PROVE  FilesInv'
<1>1. /\ UNCHANGED <<phase, unread, records, job, used, rmErrors, damage>> /\ late' \subseteq late
      /\ phase = "up" /\ rmErrors > 0 /\ rmErrors # 0
      /\ \A t \in Threads : primary'[t] \in {primary[t], Absent} /\ backup'[t] \in {backup[t], Absent}
  BY DEF FinishLateRemoval, Unlink, CasInv, TypeOK, counters, FilesInv, Quiet
<1>2. Fresh' /\ Quiet'
  BY <1>1 DEF FilesInv, Fresh, Quiet
<1>3. JobOnFiles'
  BY <1>1 DEF FilesInv, JobOnFiles, CasInv, TypeOK, Job
<1>4. \A t \in Threads : Current(t)' = Current(t)
  BY <1>1 DEF Current, Writing
<1>5. ASSUME NEW t \in Threads PROVE PrimaryOf(t)'
  BY <1>1, <1>4 DEF FilesInv, PrimaryOf
<1>6. ASSUME NEW t \in Threads PROVE BackupOf(t)'
  BY <1>1 DEF BackupOf
<1>7. damage' = 0 => \A t \in Threads : primary'[t] # Malformed
  BY <1>1 DEF FilesInv
<1> QED BY <1>2, <1>3, <1>5, <1>6, <1>7 DEF FilesInv

\* initialize reads, deletes or sets aside the files of one Thread.
LEMMA LoadStep ==
  ASSUME CasInv, FilesInv, NEW u \in Threads, LoadThread(u) \/ DropProvisional(u) \/ Quarantine(u)
  PROVE  FilesInv'
<1>1. /\ phase = "loading" /\ phase' = "loading" /\ unread' = unread \ {u} /\ job' = job /\ job = Idle
      /\ u \in unread
      /\ UNCHANGED <<late, used, rmErrors, damage>>
  BY DEF LoadThread, DropProvisional, Quarantine, Load, CasInv, UsedInv
<1>2. \A t \in Threads : t # u =>
        primary'[t] = primary[t] /\ backup'[t] = backup[t] /\ records'[t] = records[t]
  BY DEF LoadThread, DropProvisional, Quarantine, CasInv, TypeOK
<1>3. \/ /\ primary'[u] = Source(u) /\ records'[u] = Source(u) /\ backup'[u] = backup[u]
         /\ Readable(Source(u))
      \/ primary'[u] = Absent /\ records'[u] = records[u] /\ backup'[u] = Absent
      \/ primary'[u] = Absent /\ records'[u] = records[u] /\ backup'[u] = backup[u]
  BY DEF LoadThread, DropProvisional, Quarantine, CasInv, TypeOK, Readable
<1>4. /\ primary[u] # Malformed => Source(u) = primary[u]
      /\ primary[u] = Malformed => Source(u) = backup[u]
  BY DEF Source
<1>5. \A r \in ThreadRecord : r.revision \in Nat
  BY DEF ThreadRecord
<1>6. Fresh' /\ Quiet' /\ JobOnFiles'
  <2>1. Fresh' /\ JobOnFiles'
    BY <1>1, <1>2, <1>3 DEF FilesInv, Fresh, JobOnFiles
  <2>2. \A t \in unread' : records'[t] = Absent
    BY <1>1, <1>2 DEF FilesInv, Quiet, CasInv, TypeOK
  <2> QED BY <1>1, <2>1, <2>2 DEF FilesInv, Quiet
<1>7. \A t \in Threads : Current(t) = records[t] /\ Current(t)' = records'[t]
  BY <1>1 DEF Current, Writing
<1>8. ASSUME NEW t \in Threads PROVE PrimaryOf(t)'
  <2>1. CASE t # u
    BY <1>1, <1>2, <1>7, <2>1 DEF FilesInv, PrimaryOf
  <2>2. CASE t = u
    BY <1>1, <1>3, <1>7, <2>2 DEF FilesInv, Quiet, PrimaryOf, Readable
  <2> QED BY <2>1, <2>2
<1>9. ASSUME NEW t \in Threads PROVE BackupOf(t)'
  <2>1. CASE t # u
    BY <1>1, <1>2, <2>1 DEF FilesInv, BackupOf, Writing
  <2>2. CASE t = u
    <3>1. backup[u] \in File /\ BackupOf(u) /\ ~Writing'
      BY <1>1 DEF FilesInv, CasInv, TypeOK, Writing
    <3>2. Readable(backup[u]) => backup[u].revision \in Nat
      BY <1>5, <3>1 DEF Readable, File
    <3> QED BY <1>1, <1>3, <1>4, <2>2, <3>1, <3>2 DEF BackupOf, Readable
  <2> QED BY <2>1, <2>2
<1>10. damage' = 0 => \A t \in Threads : primary'[t] # Malformed
  BY <1>1, <1>2, <1>3 DEF FilesInv, Readable
<1> QED BY <1>6, <1>8, <1>9, <1>10 DEF FilesInv

\* A file damaged from outside can be read no more.
LEMMA DamageStep ==
  ASSUME CasInv, FilesInv, NEW file \in {"primary", "backup"}, NEW u \in Threads, Damage(file, u)
  PROVE  FilesInv'
<1>1. /\ UNCHANGED <<phase, unread, records, job, late, used, rmErrors>>
      /\ damage' = damage + 1 /\ damage \in Nat
      /\ \A t \in Threads : /\ primary'[t] = primary[t] \/ (primary[t] # Absent /\ primary'[t] = Malformed)
                            /\ backup'[t] = backup[t] \/ (backup[t] # Absent /\ backup'[t] = Malformed)
  BY DEF Damage, CasInv, TypeOK
<1>2. Fresh' /\ Quiet'
  BY <1>1 DEF FilesInv, Fresh, Quiet
<1>3. JobOnFiles'
  BY <1>1 DEF FilesInv, JobOnFiles, CasInv, TypeOK, Job
<1>4. \A t \in Threads : Current(t)' = Current(t) /\ Removed(t)' = Removed(t)
  BY <1>1 DEF Current, Writing, Removed
<1>5. ASSUME NEW t \in Threads PROVE PrimaryOf(t)'
  BY <1>1, <1>4, StoreAssumption DEF FilesInv, PrimaryOf
<1>6. ASSUME NEW t \in Threads PROVE BackupOf(t)'
  BY <1>1 DEF FilesInv, BackupOf, Writing, Readable
<1> QED BY <1>1, <1>2, <1>3, <1>5, <1>6 DEF FilesInv

\* Every step keeps files and memory in step.
LEMMA FilesStep == ASSUME CasInv, FilesInv, [Next]_vars PROVE FilesInv'
<1>1. CASE Operation
  BY <1>1, OperationStep, FilesUntouched DEF CasInv
<1>2. CASE FileStep
  BY <1>2, WritingStep, CommitStep, FailReplacementStep, RemovalStep, LateRemovalStep DEF FileStep
<1>3. CASE StartLoading \/ FinishLoading
  <2>1. /\ UNCHANGED <<records, primary, backup, job, late, used, rmErrors, damage>> /\ phase # "up" /\ job = Idle
        /\ late = {}
    BY <1>3 DEF StartLoading, FinishLoading, disk, counters, CasInv, UsedInv, FilesInv, Quiet
  <2>2. /\ phase = "down" => phase' = "loading" /\ unread' = {t \in Threads : primary[t] # Absent}
        /\ phase # "down" => phase = "loading" /\ unread = {} /\ unread' = {} /\ phase' \in {"up", "refused"}
    BY <1>3 DEF StartLoading, FinishLoading
  <2>3. Fresh' /\ Quiet' /\ JobOnFiles'
    BY <2>1, <2>2 DEF FilesInv, Fresh, Quiet, JobOnFiles
  <2>4. \A t \in Threads : Current(t)' = records[t] /\ Current(t) = records[t]
    BY <2>1 DEF Current, Writing
  <2>5. ASSUME NEW t \in Threads PROVE PrimaryOf(t)'
    BY <2>1, <2>2, <2>4 DEF FilesInv, Quiet, PrimaryOf
  <2>6. ASSUME NEW t \in Threads PROVE BackupOf(t)'
    BY <2>1 DEF FilesInv, BackupOf, Writing
  <2> QED BY <2>1, <2>3, <2>5, <2>6 DEF FilesInv
<1>4. CASE \E t \in Threads : LoadThread(t) \/ DropProvisional(t) \/ Quarantine(t)
  BY <1>4, LoadStep
<1>5. CASE Crash
  <2>1. /\ phase' = "down" /\ unread' = {} /\ late' = {} /\ job' = Idle
        /\ records' = [t \in Threads |-> Absent]
        /\ UNCHANGED <<primary, backup, used, rmErrors, damage>>
    BY <1>5 DEF Crash, disk
  <2>2. Fresh' /\ Quiet' /\ JobOnFiles'
    BY <2>1 DEF FilesInv, Fresh, Quiet, JobOnFiles
  <2>3. ASSUME NEW t \in Threads PROVE PrimaryOf(t)' /\ BackupOf(t)'
    BY <2>1 DEF FilesInv, PrimaryOf, BackupOf
  <2> QED BY <2>1, <2>2, <2>3 DEF FilesInv
<1>6. CASE \E file \in {"primary", "backup"}, t \in Threads : Damage(file, t)
  BY <1>6, DamageStep
<1>7. CASE UNCHANGED vars
  BY <1>7, FilesUntouched DEF vars, disk, counters, CasInv
<1> QED BY <1>1, <1>2, <1>3, <1>4, <1>5, <1>6, <1>7 DEF Next, Restart, Environment

LEMMA FilesInit == Init => CasInv /\ FilesInv
<1>1. Init => CasInv
  BY InitialInv DEF Inv, Init, CasInv, UsedInv, JobNumbered, SnapshotBehind
<1>2. Init => FilesInv
  BY DEF Init, FilesInv, Fresh, Quiet, JobOnFiles, PrimaryOf, BackupOf, Current, Writing, Readable
<1> QED BY <1>1, <1>2

\* However writes, crashes, failures and damage interleave, restoring a backup costs
\* one revision at most: it was copied before a rename that was the last one.
THEOREM BackupIsRecent == Spec => []BackupAtMostOneBehind
<1>1. CasInv /\ FilesInv => BackupAtMostOneBehind
  BY DEF FilesInv, BackupOf, BackupAtMostOneBehind, Stored, Readable
<1> QED
  BY FilesInit, CasStep, FilesStep, <1>1, PTL DEF Spec

\* What a crash at any point leaves for a restart is what callers were told, or the
\* result of the operation that was under way.
THEOREM FilesKeepWhatWasTold == Spec => []DiskFollowsMemory
<1>1. CasInv /\ FilesInv => DiskFollowsMemory
  <2> SUFFICES ASSUME CasInv, FilesInv, phase = "up", damage = 0, rmErrors = 0, NEW t \in Threads
               PROVE  \/ OnDisk[t] = Recovered(records[t], Absent)
                      \/ /\ job # Idle /\ job.thread = t
                         /\ OnDisk[t] = IF job.kind = "remove" THEN Absent ELSE Recovered(job.next, Absent)
    BY DEF DiskFollowsMemory
  <2>1. /\ primary[t] \in {Current(t), Absent} /\ primary[t] # Malformed
        /\ primary[t] = Absent => Current(t) = Absent \/ Removed(t)
    BY DEF FilesInv, Quiet, PrimaryOf
  <2>2. OnDisk[t] = Recovered(primary[t], Absent)
    BY <2>1 DEF OnDisk, Recovered
  <2>3. Recovered(Absent, Absent) = Absent
    BY DEF Recovered
  <2> QED BY <2>1, <2>2, <2>3 DEF Current, Removed, Writing
<1> QED
  BY FilesInit, CasStep, FilesStep, <1>1, PTL DEF Spec

-----------------------------------------------------------------------------
(* Restart *)

\* Records that are all in an indexable map are indexable.
LEMMA SubmapIsIndexable ==
  ASSUME NEW m, NEW n, Indexable(m), \A t \in Threads : n[t] # Absent => n[t] = m[t]
  PROVE  Indexable(n)
<1>1. \A u \in Stored(n) : u \in Stored(m) /\ n[u] = m[u]
  BY DEF Stored
<1>2. \A u \in Stored(n) : Clash(n[u], u, n) => Clash(m[u], u, m)
  BY <1>1 DEF Clash
<1> QED BY <1>1, <1>2 DEF Indexable

\* The primaries a restart will find, if nothing damaged them, rebuild their indexes.
DiskIndexable == damage = 0 /\ phase # "up" => Indexable(primary)

\* While the Store serves: every primary is the record in memory, or the one that
\* was validated against the others before it was written.
LEMMA ServingIsIndexable ==
  ASSUME Inv, FilesInv, phase = "up", damage = 0
  PROVE  Indexable(primary)
<1> DEFINE m == [t \in Threads |-> Current(t)]
<1>1. records \in [Threads -> ThreadRecord \cup {Absent}] /\ Indexable(records)
  BY DEF Inv, TypeOK, IdentitiesUnique
<1>2. Indexable(m)
  <2>1. CASE Writing /\ job.step = "commit"
    <3>1. job.thread \in Threads /\ Parses(job.next) /\ ~Clash(job.next, job.thread, records)
      BY <2>1 DEF Inv, JobValidated, Writing
    <3>2. m = [records EXCEPT ![job.thread] = job.next]
      BY <1>1, <2>1, <3>1 DEF Current
    <3> QED BY <1>1, <3>1, <3>2, CommitKeepsIndexable
  <2>2. CASE ~(Writing /\ job.step = "commit")
    <3>1. m = records
      BY <1>1, <2>2 DEF Current
    <3> QED BY <1>1, <3>1
  <2> QED BY <2>1, <2>2
<1>3. \A t \in Threads : primary[t] # Absent => primary[t] = m[t]
  BY DEF FilesInv, Quiet, PrimaryOf
<1> HIDE DEF m
<1> QED BY <1>2, <1>3, SubmapIsIndexable

StoreInv == Inv /\ CasInv /\ FilesInv /\ DiskIndexable

\* A crash keeps the primaries, and loading them only ever removes one.
LEMMA StoreStep == ASSUME StoreInv, [Next]_vars PROVE StoreInv'
<1>1. Inv' /\ CasInv' /\ FilesInv'
  BY InvStep, CasStep, FilesStep DEF StoreInv
<1>2. CASE ~(phase' # "up" /\ damage' = 0)
  BY <1>1, <1>2 DEF StoreInv, DiskIndexable
<1>3. CASE phase' # "up" /\ damage' = 0
  <2>1. /\ damage = 0
        /\ \A t \in Threads : primary'[t] # Absent => primary'[t] = primary[t]
    <3>1. /\ TypeOK /\ (damage = 0 => \A t \in Threads : primary[t] # Malformed)
          /\ job # Idle => phase = "up"
          /\ late # {} => phase = "up"
      BY DEF StoreInv, CasInv, UsedInv, FilesInv, Quiet
    <3>2. CASE Operation
      BY <3>2, <1>3, OperationStep, <3>1
    <3>3. CASE FileStep
      <4>1. phase = "up" /\ phase' = phase
        BY <3>1, <3>3 DEF FileStep, WriteTemp, StartCopy, FinishCopy, RenameTemp, Commit, FailReplacement,
           RemoveFile, FailRemoval, CommitRemoval, FinishLateRemoval, At, Removing
      <4> QED BY <1>3, <4>1
    <3>4. CASE StartLoading \/ FinishLoading \/ Crash
      BY <1>3, <3>4 DEF StartLoading, FinishLoading, Crash, disk, counters
    <3>5. ASSUME NEW t \in Threads, LoadThread(t) \/ DropProvisional(t) \/ Quarantine(t)
          PROVE  /\ damage = 0
                 /\ \A u \in Threads : primary'[u] # Absent => primary'[u] = primary[u]
      BY <1>3, <3>1, <3>5 DEF LoadThread, DropProvisional, Quarantine, Load, Source, TypeOK
    <3>6. CASE \E file \in {"primary", "backup"}, t \in Threads : Damage(file, t)
      BY <1>3, <3>1, <3>6 DEF Damage, TypeOK
    <3>7. CASE UNCHANGED vars
      BY <1>3, <3>7 DEF vars, disk, counters
    <3> QED BY <3>2, <3>3, <3>4, <3>5, <3>6, <3>7 DEF Next, Restart, Environment, StoreInv
  <2>2. Indexable(primary')
    <3>1. Indexable(primary)
      BY <2>1, ServingIsIndexable DEF StoreInv, DiskIndexable
    <3> QED BY <2>1, <3>1, SubmapIsIndexable, Zenon
  <2> QED BY <1>1, <2>2 DEF StoreInv, DiskIndexable
<1> QED BY <1>1, <1>2, <1>3 DEF StoreInv, DiskIndexable

LEMMA StoreInvHolds == Spec => []StoreInv
<1>1. Init => StoreInv
  <2>1. Init => DiskIndexable
    BY DEF Init, DiskIndexable, Indexable, Stored
  <2> QED BY <2>1, InitialInv, FilesInit DEF StoreInv
<1> QED BY <1>1, StoreStep, PTL DEF Spec

\* A Store whose files nothing damaged always starts again, whatever the crash cut
\* short and whichever writes and removals failed before it.
THEOREM UndamagedStoreRestarts == Spec => []RestartSucceeds
<1>1. StoreInv /\ RestartSucceeds /\ [Next]_vars => RestartSucceeds'
  <2> SUFFICES ASSUME StoreInv, RestartSucceeds, [Next]_vars, damage' = 0, phase' = "refused"
               PROVE  FALSE
    BY DEF RestartSucceeds
  <2>1. CASE FinishLoading
    <3>1. phase = "loading" /\ unread = {} /\ damage = 0 /\ ~Indexable(records) /\ job = Idle
      BY <2>1 DEF FinishLoading, counters, StoreInv, CasInv, UsedInv
    <3>2. \A t \in Threads : records[t] # Absent => records[t] = primary[t]
      BY <3>1 DEF StoreInv, FilesInv, PrimaryOf, Current, Writing
    <3> QED BY <3>1, <3>2, SubmapIsIndexable DEF StoreInv, DiskIndexable
  <2>2. CASE ~FinishLoading
    <3>1. damage = 0 /\ phase = "refused"
      <4>1. CASE Operation
        BY <4>1, OperationStep DEF StoreInv, CasInv
      <4>2. CASE FileStep
        BY <4>2 DEF FileStep, WriteTemp, StartCopy, FinishCopy, RenameTemp, Commit, FailReplacement,
           RemoveFile, FailRemoval, CommitRemoval, FinishLateRemoval, counters
      <4>3. CASE StartLoading \/ Crash
        BY <4>3 DEF StartLoading, Crash
      <4>4. ASSUME NEW t \in Threads, LoadThread(t) \/ DropProvisional(t) \/ Quarantine(t)
            PROVE  FALSE
        BY <4>4 DEF LoadThread, DropProvisional, Quarantine, Load
      <4>5. CASE \E file \in {"primary", "backup"}, t \in Threads : Damage(file, t)
        BY <4>5 DEF Damage, StoreInv, Inv, TypeOK
      <4>6. CASE UNCHANGED vars
        BY <4>6 DEF vars, counters
      <4> QED BY <2>2, <4>1, <4>2, <4>3, <4>4, <4>5, <4>6 DEF Next, Restart, Environment
    <3> QED BY <3>1 DEF RestartSucceeds
  <2> QED BY <2>1, <2>2
<1>2. Init => RestartSucceeds
  BY DEF Init, RestartSucceeds
<1> QED BY <1>1, <1>2, StoreInvHolds, PTL DEF Spec

-----------------------------------------------------------------------------
(* Refinement *)

\* A job never takes its Native Session from a Thread that has one.
JobStaysBound ==
  job # Idle /\ job.kind \in {"update", "replace"} /\ Provisional(job.next)
    => Provisional(records[job.thread])

LEMMA ReplaceStaysBound ==
  ASSUME TypeOK, NEW kind \in {"update", "replace"}, NEW t \in Threads, NEW changed, Replace(kind, t, changed)
  PROVE  job'.next.state = changed.state /\ job'.next.session = changed.session
<1> DEFINE next == [changed EXCEPT !.revision = records[t].revision + 1]
<1>1. Parses(next) /\ job' = [kind |-> kind, thread |-> t, next |-> next, step |-> "temp"]
  BY DEF Replace
<1>2. DOMAIN next = DOMAIN changed
  OBVIOUS
<1>3. "state" \in DOMAIN next /\ "session" \in DOMAIN next
  <2> HIDE DEF next
  <2> QED BY <1>1 DEF Parses, ThreadRecord
<1>4. next.state = changed.state /\ next.session = changed.session
  BY <1>2, <1>3
<1> HIDE DEF next
<1> QED BY <1>1, <1>4

LEMMA OperationStaysBound ==
  ASSUME TypeOK, JobStaysBound, Operation
  PROVE  JobStaysBound'
<1>1. PICK t \in Threads :
          \/ \E q \in Requests, forked \in BOOLEAN, p \in Threads \cup {NoThread} :
                CreateProvisional(t, q, forked, p)
          \/ \E s \in Sessions, list \in TurnLists :
                \/ CommitReady(t, s, list)
                \/ ReplaceReadySession(t, s, list)
                \/ ReplaceReadySessionAfterLastTurn(t, s, list)
          \/ \E list \in TurnLists :
                UpsertTurnMappings(t, list) \/ ReconcileTurnMappings(t, list)
          \/ SetManagement(t)
          \/ \E q \in Requests : RebindSubagentSession(t, q)
          \/ ReadForReplacement(t)
          \/ RemoveThread(t)
  BY DEF Operation
<1>2. ASSUME Ready(t), NEW kind \in {"update", "replace"}, NEW changed, Replace(kind, t, changed),
             \/ changed.session # NoSession \/ changed.state = "ready"
             \/ changed.session = records[t].session /\ changed.state = records[t].state
      PROVE  JobStaysBound'
  BY <1>2, ReplaceStaysBound, ReplaceIsValidated DEF JobStaysBound, Provisional
<1>3. Ready(t) => records[t] \in ThreadRecord
  BY DEF Ready, Stored, TypeOK
<1>4. CASE \E s \in Sessions, list \in TurnLists :
               \/ CommitReady(t, s, list)
               \/ ReplaceReadySession(t, s, list)
               \/ ReplaceReadySessionAfterLastTurn(t, s, list)
  <2>1. PICK s \in Sessions, list \in TurnLists :
               \/ CommitReady(t, s, list)
               \/ ReplaceReadySession(t, s, list)
               \/ ReplaceReadySessionAfterLastTurn(t, s, list)
    BY <1>4
  <2>2. Ready(t) /\ s # NoSession
    BY <2>1, StoreAssumption DEF CommitReady, ReplaceReadySession, ReplaceReadySessionAfterLastTurn
  <2>3. /\ [records[t] EXCEPT !.state = "ready", !.session = s, !.turns = Merge(records[t].turns, list)].session = s
        /\ [records[t] EXCEPT !.session = s, !.turns = list].session = s
    BY <1>3, <2>2 DEF ThreadRecord
  <2> QED BY <1>2, <2>1, <2>2, <2>3 DEF CommitReady, ReplaceReadySession, ReplaceReadySessionAfterLastTurn
<1>5. CASE \E list \in TurnLists :
               UpsertTurnMappings(t, list) \/ ReconcileTurnMappings(t, list)
  <2>1. PICK list \in TurnLists : UpsertTurnMappings(t, list) \/ ReconcileTurnMappings(t, list)
    BY <1>5
  <2>2. Ready(t)
    BY <2>1 DEF UpsertTurnMappings, ReconcileTurnMappings
  <2>3. \A turns : /\ [records[t] EXCEPT !.turns = turns].session = records[t].session
                   /\ [records[t] EXCEPT !.turns = turns].state = records[t].state
    BY <1>3, <2>2 DEF ThreadRecord
  <2> QED BY <1>2, <2>1, <2>2, <2>3 DEF UpsertTurnMappings, ReconcileTurnMappings
<1>6. CASE SetManagement(t)
  BY <1>2, <1>6 DEF SetManagement
<1>7. CASE \E q \in Requests : RebindSubagentSession(t, q)
  <2>1. PICK q \in Requests : RebindSubagentSession(t, q)
    BY <1>7
  <2>2. Ready(t) /\ records[t].state = "ready"
    BY <2>1 DEF RebindSubagentSession
  <2>3. \A session, turns :
          [records[t] EXCEPT !.request = q, !.session = session, !.turns = turns].state = records[t].state
    BY <1>3, <2>2 DEF ThreadRecord
  <2> QED BY <1>2, <2>1, <2>2, <2>3 DEF RebindSubagentSession
<1>8. CASE \/ \E q \in Requests, forked \in BOOLEAN, p \in Threads \cup {NoThread} :
                CreateProvisional(t, q, forked, p)
           \/ RemoveThread(t)
  BY <1>8 DEF CreateProvisional, RemoveThread, JobStaysBound
<1>9. CASE ReadForReplacement(t)
  BY <1>9 DEF ReadForReplacement, JobStaysBound
<1> QED BY <1>1, <1>4, <1>5, <1>6, <1>7, <1>8, <1>9

LEMMA BoundStep == ASSUME StoreInv, JobStaysBound, [Next]_vars PROVE JobStaysBound'
<1>0. /\ TypeOK /\ (job # Idle => phase = "up")
  BY DEF StoreInv, CasInv, UsedInv
<1>1. CASE Operation
  BY <1>0, <1>1, OperationStaysBound
<1>2. CASE WriteTemp \/ StartCopy \/ FinishCopy \/ RenameTemp
  <2>1. PICK step \in Steps : Goto(step)
    BY <1>2 DEF WriteTemp, StartCopy, FinishCopy, RenameTemp, Steps
  <2>2. job \in [kind : {"create", "update", "replace"}, thread : Threads, next : ThreadRecord, step : Steps]
    BY <1>0, <1>2 DEF WriteTemp, StartCopy, FinishCopy, RenameTemp, At, TypeOK, Job
  <2>3. /\ records' = records /\ job # Idle
        /\ job'.next = job.next /\ job'.thread = job.thread /\ job'.kind = job.kind
    BY <1>2, <2>1, <2>2 DEF WriteTemp, StartCopy, FinishCopy, RenameTemp, At, Goto
  <2> QED BY <2>3 DEF JobStaysBound
<1>3. CASE job' = Idle
  BY <1>3 DEF JobStaysBound
<1>4. CASE \E file \in {"primary", "backup"} : RemoveFile(file)
  <2>1. job \in [kind : {"remove"}, thread : Threads, left : SUBSET {"primary", "backup"}]
    BY <1>0, <1>4 DEF RemoveFile, Removing, TypeOK, Job
  <2>2. job'.kind = "remove"
    BY <1>4, <2>1 DEF RemoveFile
  <2> QED BY <2>2 DEF JobStaysBound
<1>5. CASE UNCHANGED <<job, records>>
  BY <1>5 DEF JobStaysBound
<1>6. CASE Restart
  <2>1. job = Idle /\ job' = job
    BY <1>0, <1>6 DEF Restart, StartLoading, FinishLoading, LoadThread, DropProvisional, Quarantine, Load
  <2> QED BY <1>3, <2>1
<1>7. CASE FileStep \/ Environment
  BY <1>2, <1>3, <1>4, <1>5, <1>7 DEF FileStep, Environment, Commit, FailReplacement, FailRemoval,
     CommitRemoval, FinishLateRemoval, Crash, Damage
<1> QED BY <1>1, <1>5, <1>6, <1>7 DEF Next, vars

\* What a restart would find of a Thread, when no primary is damaged.
LEMMA OnDiskIs ==
  ASSUME NEW t \in Threads, primary[t] # Malformed
  PROVE  OnDisk[t] = IF primary[t] = Absent \/ Provisional(primary[t]) THEN Absent ELSE primary[t]
BY DEF OnDisk, Recovered

\* Left alone, a step changes one Thread as the abstract map does, or none.
LEMMA MapStep ==
  ASSUME MaxDamage = 0, MaxRmErrors = 0, StoreInv, JobStaysBound, [Next]_vars
  PROVE  [Atomic!Next]_OnDisk
<1>1. /\ damage = 0 /\ rmErrors = 0 /\ damage' = 0 /\ StoreInv'
      /\ late = {} /\ (job # Idle => phase = "up") /\ TypeOK
  <2>1. StoreInv'
    BY StoreStep
  <2>2. TypeOK /\ TypeOK'
    BY <2>1 DEF StoreInv, Inv
  <2> QED BY <2>1, <2>2 DEF TypeOK, StoreInv, CasInv, UsedInv, FilesInv, Quiet
<1>2. \A t \in Threads : primary[t] # Malformed /\ primary'[t] # Malformed
  BY <1>1 DEF StoreInv, FilesInv
<1>3. \A t \in Threads :
        /\ OnDisk[t] = IF primary[t] = Absent \/ Provisional(primary[t]) THEN Absent ELSE primary[t]
        /\ OnDisk'[t] = IF primary'[t] = Absent \/ Provisional(primary'[t]) THEN Absent ELSE primary'[t]
  BY <1>2 DEF OnDisk, Recovered
<1>4. /\ OnDisk = [t \in Threads |-> OnDisk[t]]
      /\ OnDisk' = [t \in Threads |-> OnDisk'[t]]
  BY DEF OnDisk
<1>5. CASE \A t \in Threads : primary'[t] # primary[t] => Provisional(primary[t]) /\ primary'[t] = Absent
  <2>1. \A t \in Threads : OnDisk'[t] = OnDisk[t]
    BY <1>3, <1>5
  <2>2. OnDisk' = OnDisk
    <3> DEFINE a == OnDisk
               b == OnDisk'
    <3>1. a = [t \in Threads |-> a[t]] /\ b = [t \in Threads |-> b[t]] /\ \A t \in Threads : b[t] = a[t]
      BY <1>4, <2>1
    <3> HIDE DEF a, b
    <3>2. b = a
      BY <3>1
    <3> QED BY <3>2 DEF a, b
  <2> QED BY <2>2
<1>6. ASSUME NEW w \in Threads, \A t \in Threads : t # w => OnDisk'[t] = OnDisk[t],
             NEW m, Indexable(m), \A t \in Threads : OnDisk'[t] # Absent => OnDisk'[t] = m[t],
             \/ OnDisk'[w] = OnDisk[w]
             \/ OnDisk[w] = Absent /\ OnDisk'[w] # Absent
             \/ OnDisk[w] # Absent /\ OnDisk'[w] # Absent /\ OnDisk'[w].revision = OnDisk[w].revision + 1
             \/ OnDisk[w] # Absent /\ OnDisk'[w] = Absent
      PROVE  [Atomic!Next]_OnDisk
  <2> DEFINE a == OnDisk
             b == OnDisk'
  <2>1. a = [t \in Threads |-> a[t]] /\ b = [t \in Threads |-> b[t]]
    BY <1>4
  <2>2. Indexable(b)
    BY <1>6, SubmapIsIndexable, Zenon
  <2>3. \A t \in Threads : t # w => b[t] = a[t]
    BY <1>6
  <2>4. \/ b[w] = a[w]
        \/ a[w] = Absent /\ b[w] # Absent
        \/ a[w] # Absent /\ b[w] # Absent /\ b[w].revision = a[w].revision + 1
        \/ a[w] # Absent /\ b[w] = Absent
    BY <1>6
  <2>5. b = [a EXCEPT ![w] = b[w]]
    <3> HIDE DEF a, b
    <3> QED BY <2>1, <2>3
  <2>6. CASE b[w] = a[w]
    <3>1. b = a
      <4> HIDE DEF a, b
      <4> QED BY <2>1, <2>3, <2>6
    <3> QED BY <3>1
  <2>7. CASE b[w] # a[w]
    <3>1. Atomic!Next
      BY <2>2, <2>4, <2>5, <2>7 DEF Atomic!Next, Atomic!Enter, Atomic!Advance, Atomic!Remove
    <3> QED BY <3>1
  <2> QED BY <2>6, <2>7
<1>7. ASSUME phase = "up", NEW t \in Threads, ~(Writing /\ job.thread = t /\ job.step = "commit")
      PROVE  /\ primary[t] \in {records[t], Absent}
             /\ primary[t] = Absent => records[t] = Absent \/ Removed(t)
  BY <1>1, <1>2, <1>7 DEF StoreInv, FilesInv, Quiet, PrimaryOf, Current
<1>8. ASSUME RenameTemp
      PROVE  [Atomic!Next]_OnDisk
  <2> DEFINE w == job.thread
             m == [records EXCEPT ![w] = job.next]
  <2>1. /\ job \in [kind : {"create", "update", "replace"}, thread : Threads, next : ThreadRecord, step : Steps]
        /\ job # Idle /\ job.kind # "remove" /\ job.step = "rename" /\ phase = "up"
    BY <1>1, <1>8 DEF RenameTemp, At, TypeOK, Job
  <2>2. \A t \in Threads : primary'[t] = IF t = w THEN job.next ELSE primary[t]
    BY <1>1, <1>8, <2>1 DEF RenameTemp, TypeOK
  <2>3. \A t \in Threads : t # w => OnDisk'[t] = OnDisk[t]
    BY <1>3, <2>2
  <2>4. Indexable(m)
    <3>1. Parses(job.next) /\ ~Clash(job.next, w, records) /\ Indexable(records)
      BY <2>1 DEF StoreInv, Inv, JobValidated, IdentitiesUnique
    <3> QED BY <1>1, <2>1, <3>1, CommitKeepsIndexable DEF TypeOK
  <2>5. \A t \in Threads : m[t] = IF t = w THEN job.next ELSE records[t]
    BY <1>1, <2>1 DEF TypeOK
  <2>6. ~Removed(w) /\ \A t \in Threads : ~Removed(t)
    BY <2>1 DEF Removed
  <2>7. \A t \in Threads : primary[t] = records[t]
    BY <1>7, <2>1, <2>6
  <2>8. job.next # Absent
    BY <2>1
  <2>9. \A t \in Threads : OnDisk'[t] # Absent => OnDisk'[t] = m[t]
    BY <1>3, <2>2, <2>5, <2>7
  <2>10. /\ OnDisk[w] # Absent => /\ OnDisk[w] = records[w] /\ ~Provisional(records[w])
                                 /\ records[w] # Absent
         /\ OnDisk'[w] = IF Provisional(job.next) THEN Absent ELSE job.next
    BY <1>3, <2>1, <2>2, <2>7, <2>8
  <2>11. OnDisk[w] # Absent => OnDisk'[w] # Absent /\ OnDisk'[w].revision = OnDisk[w].revision + 1
    <3> HAVE OnDisk[w] # Absent
    <3>1. job.kind \in {"update", "replace"}
      BY <2>1, <2>10 DEF StoreInv, CasInv, JobNumbered
    <3>2. job.next.revision = records[w].revision + 1 /\ ~Provisional(job.next)
      BY <2>1, <2>10, <3>1 DEF StoreInv, CasInv, JobNumbered, JobStaysBound
    <3> QED BY <2>8, <2>10, <3>2
  <2> HIDE DEF w, m
  <2>12. w \in Threads
    BY <2>1 DEF w
  <2> QED BY <1>6, <2>3, <2>4, <2>9, <2>11, <2>12
<1>9. ASSUME NEW file \in {"primary", "backup"}, RemoveFile(file)
      PROVE  [Atomic!Next]_OnDisk
  <2>1. /\ job \in [kind : {"remove"}, thread : Threads, left : SUBSET {"primary", "backup"}]
        /\ job # Idle /\ phase = "up" /\ ~Writing
    BY <1>1, <1>9 DEF RemoveFile, Removing, TypeOK, Job, Writing
  <2>2. \A t \in Threads : primary'[t] = IF t = job.thread /\ file = "primary" THEN Absent ELSE primary[t]
    BY <1>1, <1>9, <2>1 DEF RemoveFile, Unlink, TypeOK
  <2>3. \A t \in Threads : t # job.thread => OnDisk'[t] = OnDisk[t]
    BY <1>3, <2>2
  <2>4. OnDisk'[job.thread] \in {OnDisk[job.thread], Absent}
    BY <1>3, <2>1, <2>2
  <2>5. \A t \in Threads : OnDisk'[t] # Absent => OnDisk'[t] = records[t]
    BY <1>3, <1>7, <2>1, <2>2
  <2>6. Indexable(records)
    BY <2>1 DEF StoreInv, Inv, IdentitiesUnique
  <2> DEFINE w == job.thread
  <2>7. w \in Threads
    BY <2>1
  <2> HIDE DEF w
  <2>8. (\A t \in Threads : t # w => OnDisk'[t] = OnDisk[t]) /\ OnDisk'[w] \in {OnDisk[w], Absent}
    BY <2>3, <2>4 DEF w
  <2> QED BY <1>6, <2>5, <2>6, <2>7, <2>8
<1>10. ASSUME NEW u \in Threads, LoadThread(u) \/ DropProvisional(u) \/ Quarantine(u)
       PROVE  [Atomic!Next]_OnDisk
  <2>1. Source(u) = primary[u]
    BY <1>2 DEF Source
  <2>2. \A t \in Threads : primary'[t] # primary[t] => Provisional(primary[t]) /\ primary'[t] = Absent
    BY <1>1, <1>2, <1>10, <2>1 DEF LoadThread, DropProvisional, Quarantine, TypeOK
  <2> QED BY <1>5, <2>2
<1>11. CASE primary' = primary
  BY <1>5, <1>11
<1>12. CASE Operation
  BY <1>1, <1>11, <1>12, OperationStep
<1>13. CASE FileStep
  BY <1>1, <1>8, <1>9, <1>11, <1>13 DEF FileStep, WriteTemp, StartCopy, FinishCopy, Commit, FailReplacement,
     FailRemoval, CommitRemoval, FinishLateRemoval, disk
<1>14. CASE Restart
  BY <1>10, <1>11, <1>14 DEF Restart, StartLoading, FinishLoading, disk
<1>15. CASE Environment
  <2>1. ASSUME NEW file \in {"primary", "backup"}, NEW t \in Threads, Damage(file, t) PROVE FALSE
    BY <1>1, <2>1 DEF Damage
  <2> QED BY <1>11, <1>15, <2>1 DEF Environment, Crash, disk
<1>16. CASE UNCHANGED vars
  BY <1>11, <1>16 DEF vars, disk
<1> QED BY <1>12, <1>13, <1>14, <1>15, <1>16 DEF Next

\* Where no file is damaged and no removal fails, the files of the Store, seen as a
\* restart would see them, are a map that changes one Thread at a time, keeps every
\* identity unique and numbers revisions without gaps, through crashes and failed
\* writes.
THEOREM FilesAreAnAtomicMap ==
  ASSUME MaxDamage = 0, MaxRmErrors = 0
  PROVE  Spec => ImplementsAtomicMap
<1>1. Init => Atomic!Init
  BY DEF Init, Atomic!Init, OnDisk, Recovered
<1>2. Init => JobStaysBound
  BY DEF Init, JobStaysBound
<1>3. StoreInv /\ JobStaysBound /\ [Next]_vars => JobStaysBound'
  BY BoundStep
<1>4. StoreInv /\ JobStaysBound /\ [Next]_vars => [Atomic!Next]_OnDisk
  BY MapStep
<1> QED
  BY <1>1, <1>2, <1>3, <1>4, StoreInvHolds, PTL DEF Spec, ImplementsAtomicMap, Atomic!Spec
=============================================================================
