---------------------------- MODULE MCCatalogJobs ----------------------------
(***************************************************************************)
(* Instances of CatalogJobs: one import and two or three workers.          *)
(***************************************************************************)
EXTENDS CatalogJobs

=============================================================================
