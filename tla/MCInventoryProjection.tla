------------------------ MODULE MCInventoryProjection ------------------------
(***************************************************************************)
(* Small instances of InventoryProjection: two items and two stores with   *)
(* one bucket each.                                                        *)
(***************************************************************************)
EXTENDS InventoryProjection

CONSTANTS e1, e2, s1, s2, front, remote

MCStoreOf == [b \in Bucket |-> IF b = remote THEN s2 ELSE s1]

=============================================================================
