--------------------------- MODULE MCClubContent ---------------------------
(* Bounded instances of ClubContent.                                       *)
EXTENDS ClubContent, TLC
Symmetry == Permutations(Users) \cup Permutations(Rows) \cup Permutations(Workers)

=============================================================================
