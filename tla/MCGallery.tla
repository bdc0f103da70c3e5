----------------------------- MODULE MCGallery -----------------------------
(***************************************************************************)
(* Small instances of Gallery for TLC.                                     *)
(***************************************************************************)
EXTENDS Gallery, TLC

CONSTANTS p1, p2, k1, k2, k3

\* Two keys of one product and one of the other.
MCPrefix == [k \in Keys |-> IF k = k3 THEN p2 ELSE p1]
Symmetric == Permutations(Calls) \cup Permutations(Images) \cup Permutations({k1, k2})
=============================================================================
