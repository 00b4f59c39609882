---------------------------- MODULE MCComplaints ----------------------------
(* Bounded instance of Complaints: one complaint, its owner and a member of *)
(* the staff.                                                              *)
EXTENDS Complaints, TLC
Symmetry == Permutations(Workers) \cup Permutations(Texts)
=============================================================================
