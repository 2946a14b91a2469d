----------------------------- MODULE SocketLock -----------------------------
(***************************************************************************)
(* withRemoteAppServerSocketInitializationLock: the lock that serializes    *)
(* the binding and unlinking of the control socket of a remote app-server.  *)
(*                                                                         *)
(* Lamport's Bakery with one file per contender.  A contender is one call,  *)
(* with an owner token of its own; its register appears, changes and goes   *)
(* atomically, by rename and unlink.  A catalog is read name by name, and   *)
(* registers that look abandoned are unlinked on the way.  The guard is the *)
(* one path of version 1, which the winner takes as well.                   *)
(*                                                                         *)
(* A contender crashes by itself, as if each were a process.  Temporary     *)
(* files, failed file operations and malformed files are left out, and so   *)
(* are live contenders of version 1, whose code is not in the repository.   *)
(***************************************************************************)
EXTENDS Naturals, FiniteSets

CONSTANTS
  Contenders,   \* calls, named by their owner tokens, which are ordered
  Absent,       \* no file
  MaxTicket,    \* the largest ticket, Number.MAX_SAFE_INTEGER in the code
  MaxFaults     \* bound: crashes and lapses

ASSUME LockAssumption ==
  /\ Contenders \subseteq Nat \ {0}
  /\ Absent \notin Nat
  /\ MaxTicket \in Nat /\ MaxFaults \in Nat

VARIABLES
  pc,
  register,    \* of each contender: its ticket, 0 while it is choosing, or Absent
  guard,       \* the contender whose guard lies at the path of version 1, 0 when
               \* a process of version 1 left one behind, or Absent
  todo,        \* the names of the catalog still to be read
  ticket,      \* maximumTicket of the catalog, then the ticket of the contender
  clear,       \* nothing read so far blocks, nothing is unsettled
  own,         \* the register of the contender itself has been read
  doomed,      \* the register about to be unlinked, Absent when none is
  aged,        \* contenders whose register looks abandoned though they live
  guardAged,   \* the guard of a live contender looks abandoned
  lapses       \* history: how often that happened

memory == <<todo, ticket, clear, own, doomed>>
clocks == <<aged, guardAged, lapses>>
vars == <<pc, register, guard, memory, clocks>>

Goto(c, l) == pc' = [pc EXCEPT ![c] = l]
Dead == {c \in Contenders : pc[c] = "crashed"}

\* recordHasPriority
Priority(d, c) == register[d] < ticket[c] \/ (register[d] = ticket[c] /\ d < c)

\* Mutant: a contender that has not chosen yet is not waited for.
BlocksTicketed(d, c) == d # c /\ register[d] # 0 /\ Priority(d, c)

Blocks(d, c) == d # c /\ (register[d] = 0 \/ Priority(d, c))

\* Mutant: a register without a ticket is taken for abandoned.
AbandonedUnticketed(d) == d \in Dead \cup aged \/ register[d] = 0

\* ownerIsAbandoned may say so of a dead owner, unless its process ID is in use
\* again, and of a live one thirty seconds after its last write.
MayBeAbandoned(d) == d \in Dead \cup aged
MayBeOwned(d) == d \notin aged

\* The catalog goes out of scope.
DropCatalog(c) ==
  clear' = [clear EXCEPT ![c] = TRUE] /\ own' = [own EXCEPT ![c] = FALSE]

-----------------------------------------------------------------------------
(* Choosing a ticket, and the scan before the action.                      *)

Enter(c) ==
  /\ pc[c] = "idle"
  /\ register' = [register EXCEPT ![c] = 0]
  /\ Goto(c, "choosing")
  /\ UNCHANGED <<guard, memory, clocks>>

\* readdir
List(c) ==
  /\ \/ pc[c] = "choosing" /\ Goto(c, "maximum")
     \/ pc[c] = "waiting" /\ Goto(c, "scan")
  /\ todo' = [todo EXCEPT ![c] = {d \in Contenders : register[d] # Absent}]
  /\ UNCHANGED <<register, guard, ticket, clear, own, doomed, clocks>>

Reads(c, d) ==
  /\ d \in todo[c] /\ doomed[c] = Absent
  /\ todo' = [todo EXCEPT ![c] = @ \ {d}]
  /\ UNCHANGED <<pc, register, guard, clocks>>

ReadNothing(c, d) ==
  /\ Reads(c, d) /\ register[d] = Absent
  /\ UNCHANGED <<ticket, clear, own, doomed>>

ReadEntry(c, d) ==
  /\ Reads(c, d) /\ register[d] # Absent /\ MayBeOwned(d)
  /\ \/ /\ pc[c] = "maximum"
        /\ ticket' = [ticket EXCEPT ![c] = IF register[d] > @ THEN register[d] ELSE @]
        /\ UNCHANGED <<clear, own>>
     \/ /\ pc[c] = "scan"
        /\ clear' = [clear EXCEPT ![c] = @ /\ ~Blocks(d, c)]
        /\ own' = [own EXCEPT ![c] = @ \/ d = c]
        /\ UNCHANGED ticket
  /\ UNCHANGED doomed

\* The register is read once more, and unlinked unless it has changed.
ReadAbandoned(c, d) ==
  /\ Reads(c, d) /\ register[d] # Absent /\ MayBeAbandoned(d)
  /\ \/ doomed' = [doomed EXCEPT ![c] = d] /\ UNCHANGED clear
     \/ clear' = [clear EXCEPT ![c] = FALSE] /\ UNCHANGED doomed
  /\ UNCHANGED <<ticket, own>>

Unlink(c) ==
  /\ doomed[c] # Absent
  /\ register' = [register EXCEPT ![doomed[c]] = Absent]
  /\ doomed' = [doomed EXCEPT ![c] = Absent]
  /\ UNCHANGED <<pc, guard, todo, ticket, clear, own, clocks>>

CatalogRead(c) == todo[c] = {} /\ doomed[c] = Absent

\* The register is young again; what a moved clock did to it stays, since its boot time
\* is the one the contender began with.
Publish(c) ==
  /\ pc[c] = "maximum" /\ CatalogRead(c) /\ ticket[c] < MaxTicket
  /\ ticket' = [ticket EXCEPT ![c] = @ + 1]
  /\ register' = [register EXCEPT ![c] = ticket[c] + 1]
  /\ aged' \in {aged, aged \ {c}}
  /\ Goto(c, "waiting") /\ DropCatalog(c)
  /\ UNCHANGED <<guard, todo, doomed, guardAged, lapses>>

Overflow(c) ==
  /\ pc[c] = "maximum" /\ CatalogRead(c) /\ ticket[c] = MaxTicket
  /\ Goto(c, "leaving") /\ DropCatalog(c)
  /\ UNCHANGED <<register, guard, todo, ticket, doomed, clocks>>

\* Without its own register the contender gives up; with a rival it waits, or gives
\* up after the last attempt.
Decide(c) ==
  /\ pc[c] = "scan" /\ CatalogRead(c)
  /\ \/ ~own[c] /\ Goto(c, "lost")
     \/ own[c] /\ clear[c] /\ Goto(c, "guard")
     \/ own[c] /\ ~clear[c] /\ (Goto(c, "waiting") \/ Goto(c, "leaving"))
  /\ DropCatalog(c)
  /\ UNCHANGED <<register, guard, todo, ticket, doomed, clocks>>

-----------------------------------------------------------------------------
(* The guard, the action, and the way out.                                 *)

\* After a moved clock the guard looks abandoned as soon as it is there.
TakeGuard(c) ==
  /\ pc[c] = "guard"
  /\ \/ /\ guard = Absent /\ guard' = c /\ Goto(c, "inside")
        /\ guardAged' \in BOOLEAN /\ (guardAged' => c \in aged)
     \/ guard # Absent /\ Goto(c, "legacy") /\ UNCHANGED <<guard, guardAged>>
  /\ UNCHANGED <<register, memory, aged, lapses>>

GuardMayBeAbandoned == guard = 0 \/ guard \in Dead \/ guardAged
GuardMayBlock == guard # 0 /\ ~guardAged

\* legacyLockState: an abandoned guard stays where it is, and the action runs
\* without one.
ReadGuard(c) ==
  /\ pc[c] = "legacy"
  /\ \/ guard # Absent /\ GuardMayBeAbandoned /\ Goto(c, "inside")
     \/ /\ guard = Absent \/ GuardMayBlock
        /\ Goto(c, "waiting") \/ Goto(c, "leaving")
  /\ UNCHANGED <<register, guard, memory, clocks>>

\* Mutant: a guard that has grown old is left where it is.
EndActionKeepsAged(c) ==
  /\ pc[c] = "inside" /\ Goto(c, "leaving")
  /\ guard' = IF guard = c /\ ~guardAged THEN Absent ELSE guard
  /\ guardAged' = (guardAged /\ guard # c)
  /\ UNCHANGED <<register, memory, aged, lapses>>

EndAction(c) ==
  /\ pc[c] = "inside" /\ Goto(c, "leaving")
  /\ guard' = IF guard = c THEN Absent ELSE guard
  /\ guardAged' = (guardAged /\ guard # c)
  /\ UNCHANGED <<register, memory, aged, lapses>>

\* removeOwnedLockEntry
Leave(c) ==
  /\ pc[c] \in {"leaving", "lost"} /\ Goto(c, "done")
  /\ register' = [register EXCEPT ![c] = Absent]
  /\ ticket' = [ticket EXCEPT ![c] = 0]
  /\ UNCHANGED <<guard, todo, clear, own, doomed, clocks>>

-----------------------------------------------------------------------------
(* Crashes, and what thirty seconds or a moved clock do.                   *)

Crash(c) ==
  /\ Cardinality(Dead) + lapses < MaxFaults
  /\ pc[c] \notin {"idle", "done", "crashed"} /\ Goto(c, "crashed")
  /\ todo' = [todo EXCEPT ![c] = {}] /\ ticket' = [ticket EXCEPT ![c] = 0]
  /\ doomed' = [doomed EXCEPT ![c] = Absent] /\ DropCatalog(c)
  /\ UNCHANGED <<register, guard, clocks>>

Age(c) ==
  /\ Cardinality(Dead) + lapses < MaxFaults
  /\ c \notin Dead \cup aged /\ register[c] # Absent
  /\ aged' = aged \cup {c} /\ lapses' = lapses + 1
  /\ UNCHANGED <<pc, register, guard, memory, guardAged>>

AgeGuard ==
  /\ Cardinality(Dead) + lapses < MaxFaults
  /\ guard \in Contenders \ Dead /\ ~guardAged
  /\ guardAged' = TRUE /\ lapses' = lapses + 1
  /\ UNCHANGED <<pc, register, guard, memory, aged>>

-----------------------------------------------------------------------------
Init ==
  /\ pc = [c \in Contenders |-> "idle"]
  /\ register = [c \in Contenders |-> Absent]
  /\ guard \in {Absent, 0}
  /\ todo = [c \in Contenders |-> {}] /\ ticket = [c \in Contenders |-> 0]
  /\ clear = [c \in Contenders |-> TRUE] /\ own = [c \in Contenders |-> FALSE]
  /\ doomed = [c \in Contenders |-> Absent]
  /\ aged = {} /\ guardAged = FALSE /\ lapses = 0

Step(c) ==
  \/ Enter(c) \/ List(c) \/ Unlink(c) \/ Publish(c) \/ Overflow(c) \/ Decide(c)
  \/ \E d \in Contenders : ReadNothing(c, d) \/ ReadEntry(c, d) \/ ReadAbandoned(c, d)
  \/ TakeGuard(c) \/ ReadGuard(c) \/ EndAction(c) \/ Leave(c)

Next == AgeGuard \/ \E c \in Contenders : Step(c) \/ Crash(c) \/ Age(c)

Spec == Init /\ [][Next]_vars

-----------------------------------------------------------------------------
Labels == {"idle", "choosing", "maximum", "waiting", "scan", "guard", "legacy",
           "inside", "leaving", "lost", "done", "crashed"}

TypeOK ==
  /\ pc \in [Contenders -> Labels]
  /\ register \in [Contenders -> Nat \cup {Absent}]
  /\ guard \in Contenders \cup {0, Absent}
  /\ todo \in [Contenders -> SUBSET Contenders] /\ ticket \in [Contenders -> Nat]
  /\ clear \in [Contenders -> BOOLEAN] /\ own \in [Contenders -> BOOLEAN]
  /\ doomed \in [Contenders -> Contenders \cup {Absent}]
  /\ aged \subseteq Contenders /\ guardAged \in BOOLEAN /\ lapses \in Nat

\* Two contenders never bind or unlink the socket at once, whatever registers and
\* guards crashes leave behind and however the catalogs were read, as long as no
\* live contender was taken for abandoned.
ExclusiveUnlessLapsed ==
  lapses = 0 => \A c, d \in Contenders : pc[c] = "inside" /\ pc[d] = "inside" => c = d

\* No contender finds that its own register is gone, unless someone was slow.
OwnershipLostOnlyIfLapsed ==
  \A c \in Contenders : pc[c] = "lost" => lapses > 0

\* A contender that has returned leaves neither register nor guard behind, even
\* if others thought it dead meanwhile.
ReturnLeavesNothing ==
  \A c \in Contenders : pc[c] = "done" => register[c] = Absent /\ guard # c

\* Nobody but the owner unlinks the register of a contender that lives, unless
\* someone was slow.
LiveRegistersStay ==
  [][\A c \in Contenders :
       register[c] # Absent /\ register'[c] = Absent
         => c \in Dead \/ pc'[c] = "done" \/ lapses > 0]_vars
=============================================================================
