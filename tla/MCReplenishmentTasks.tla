------------------------ MODULE MCReplenishmentTasks ------------------------
(***************************************************************************)
(* A store with a picker and a manager, two tasks and two moves.           *)
(***************************************************************************)
EXTENDS ReplenishmentTasks, TLC

CONSTANTS picker, manager

Symmetry == Permutations(Move)

=============================================================================
