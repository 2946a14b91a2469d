---------------------------- MODULE MCThreadStore ----------------------------
(* ThreadStore on small sets, with its abstract specification. *)
EXTENDS ThreadStore, TLC

Symmetry == Permutations(Threads) \cup Permutations(Requests)
            \cup Permutations(HostTurns) \cup Permutations(Sessions)
            \cup Permutations(TurnKeys)
=============================================================================
