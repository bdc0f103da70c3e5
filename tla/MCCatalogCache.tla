--------------------------- MODULE MCCatalogCache ---------------------------
(***************************************************************************)
(* Small instances of CatalogCache for TLC.                                *)
(***************************************************************************)
EXTENDS CatalogCache, TLC

Symmetric == Permutations(Lists) \cup Permutations(Details) \cup Permutations(Writers)
=============================================================================
