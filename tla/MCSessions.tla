----------------------------- MODULE MCSessions -----------------------------
(* Bounded instance of Sessions.                                            *)
EXTENDS Sessions, TLC

Symmetry == Permutations(Devices) \cup Permutations(Workers)
=============================================================================
