-------------------------- MODULE MCBuildPipeline --------------------------
(***************************************************************************)
(* BuildPipeline on small instances.  Workers is a set of model values,    *)
(* interchangeable in the safety runs.                                     *)
(***************************************************************************)
EXTENDS BuildPipeline, TLC

Symmetry == Permutations(Workers)

ButlerKinds == {"patch", "signature"}
AllKinds == Kinds
=============================================================================
