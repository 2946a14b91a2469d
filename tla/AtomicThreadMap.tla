--------------------------- MODULE AtomicThreadMap ---------------------------
(***************************************************************************)
(* What the Thread half of MappingStore promises its callers: a map from    *)
(* Threads to records that changes one Thread at a time, keeps identities   *)
(* unique, numbers the revisions of a Thread without gaps, and does not     *)
(* change in a crash, a failed write or a restart.  A Thread enters the map *)
(* when it first has a Native Session; until then a restart may forget it.  *)
(***************************************************************************)
EXTENDS Naturals

CONSTANTS Threads, Absent, Indexable(_)

VARIABLE map

Init == map = [t \in Threads |-> Absent]

Enter(t) == map[t] = Absent /\ map'[t] # Absent

Advance(t) ==
  /\ map[t] # Absent /\ map'[t] # Absent
  /\ map'[t].revision = map[t].revision + 1

Remove(t) == map[t] # Absent /\ map'[t] = Absent

Next ==
  \E t \in Threads :
     /\ Enter(t) \/ Advance(t) \/ Remove(t)
     /\ map' = [map EXCEPT ![t] = map'[t]]
     /\ Indexable(map')

Spec == Init /\ [][Next]_map
=============================================================================
