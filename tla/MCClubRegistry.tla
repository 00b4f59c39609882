-------------------------- MODULE MCClubRegistry --------------------------
(* Bounded instance of ClubRegistry: finite sets of model values, and the   *)
(* symmetry of the users (they enter no order in this module).              *)
EXTENDS ClubRegistry, TLC

Symmetry == Permutations(Users) \cup Permutations(Clubs)
=============================================================================
