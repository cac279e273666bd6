-------------------------- MODULE MCUploadSession --------------------------
(***************************************************************************)
(* UploadSession on small instances.                                       *)
(***************************************************************************)
EXTENDS UploadSession, TLC

Symmetry == Permutations(Handlers)
=============================================================================
