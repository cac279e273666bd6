--------------------------- MODULE MCArchiveCache ---------------------------
(***************************************************************************)
(* ArchiveCache on small instances.  Builds form a chain, each the parent  *)
(* of the next.                                                            *)
(***************************************************************************)
EXTENDS ArchiveCache, TLC

Symmetry == Permutations(Requests)

Chain == [b \in Builds |-> b - 1]
=============================================================================
