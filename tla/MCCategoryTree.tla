--------------------------- MODULE MCCategoryTree ---------------------------
(***************************************************************************)
(* Small instances of CategoryTree for TLC.                                *)
(***************************************************************************)
EXTENDS CategoryTree, TLC

\* Calls are alike.  Categories are not: SomeCategory is one of them.
Symmetric == Permutations(Calls)
=============================================================================
