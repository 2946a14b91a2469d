---------------------------- MODULE MCThreadSession ----------------------------
(* ThreadSession with interchangeable callers of each kind. *)
EXTENDS ThreadSession, TLC

Symmetry == Permutations(Uses) \cup Permutations(Deletes) \cup Permutations(Calls)
=============================================================================
