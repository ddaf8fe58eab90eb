--------------------------- MODULE MCResolverCache ---------------------------
(***************************************************************************)
(* Instances of ResolverCache for TLC.                                     *)
(***************************************************************************)
EXTENDS ResolverCache, TLC

Symmetry == Permutations(Callers) \cup Permutations(Keys)
=============================================================================
