---------------------------- MODULE MCHarnessBroker ----------------------------
(* HarnessBroker with interchangeable clients and identities. *)
EXTENDS HarnessBroker, TLC

Symmetry == Permutations(Clients) \cup Permutations(Identities)
=============================================================================
