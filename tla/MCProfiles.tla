----------------------------- MODULE MCProfiles -----------------------------
(***************************************************************************)
(* A small instance of Profiles for TLC: a seller's row, with two keys     *)
(* for the avatar.  The columns are independent of each other, so that     *)
(* the logo needs no key of its own.                                       *)
(***************************************************************************)
EXTENDS Profiles, TLC

MCFields == {"avatar", "logo"}
MCFieldOf == [k \in Keys |-> "avatar"]
Symmetric == Permutations(Calls) \cup Permutations(Keys)
=============================================================================
