-------------------------- MODULE MCIdentityAccess --------------------------
(***************************************************************************)
(* The configured administrator and one more user, whom the API, the       *)
(* earlier API or the deployment command for the reviewer creates, with one*)
(* store.                                                                  *)
(***************************************************************************)
EXTENDS IdentityAccess, TLC

CONSTANTS adm, rev, s1

AdminOrManager == {<<{"TENANT_ADMIN"}, {}>>, <<{"STORE_MANAGER"}, {s1}>>}

Fresh == [u \in User |-> {}]
FreshOrLegacy == {Fresh, [Fresh EXCEPT ![Reviewer] = {<<"STORE_MANAGER", s1>>}]}

Symmetry == Permutations(Request)

=============================================================================
