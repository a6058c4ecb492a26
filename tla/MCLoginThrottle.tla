-------------------------- MODULE MCLoginThrottle --------------------------
(***************************************************************************)
(* Three threads, an address and accounts that do not all fit in the table.*)
(***************************************************************************)
EXTENDS LoginThrottle, TLC

Symmetry == Permutations(Thread) \cup Permutations(Account)

=============================================================================
