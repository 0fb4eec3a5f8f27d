--------------------------- MODULE MCPublicOutputs ---------------------------
(***************************************************************************)
(* A site of two pages in two revisions, and a portal that mounts it.      *)
(***************************************************************************)
EXTENDS PublicOutputs

=============================================================================
