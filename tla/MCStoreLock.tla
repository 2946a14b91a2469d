----------------------------- MODULE MCStoreLock -----------------------------
(* StoreLock with interchangeable processes. *)
EXTENDS StoreLock, TLC

Symmetry == Permutations(Processes)
=============================================================================
