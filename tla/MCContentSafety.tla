-------------------------- MODULE MCContentSafety --------------------------
(* Bounded instance of ContentSafety: everybody may be an author, a         *)
(* reporter and a viewer; the two workers are two administrators, or an     *)
(* administrator and a member.                                             *)
EXTENDS ContentSafety, TLC
Symmetry == Permutations(Users) \cup Permutations(Items) \cup Permutations(Workers)
=============================================================================
