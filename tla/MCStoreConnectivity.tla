------------------------- MODULE MCStoreConnectivity -------------------------
(***************************************************************************)
(* A store that three batches are received for.                            *)
(***************************************************************************)
EXTENDS StoreConnectivity, TLC

Symmetry == Permutations(Receipt)

=============================================================================
