-------------------------- MODULE MCDelegationStart --------------------------
(* DelegationStart with interchangeable calls and request IDs. *)
EXTENDS DelegationStart, TLC

Symmetry == Permutations(Calls) \cup Permutations(Requests)
=============================================================================
