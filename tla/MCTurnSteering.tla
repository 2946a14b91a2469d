--------------------------- MODULE MCTurnSteering ---------------------------
(* TurnSteering with interchangeable requests of each kind. *)
EXTENDS TurnSteering, TLC

Symmetry == Permutations(Steers) \cup Permutations(Starts) \cup Permutations(Sends)
=============================================================================
