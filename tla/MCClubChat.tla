---------------------------- MODULE MCClubChat ----------------------------
(* Bounded instances of ClubChat.                                          *)
EXTENDS ClubChat, TLC
CONSTANTS u1, u2, u3

\* Every assignment: with two connections somebody is always offline.
AnyOwners == [Conns -> Members]

\* Nobody blocks anybody, one blocks another, two block each other.
NoneOneTwo == {{}, {<<u1, u2>>}, {<<u1, u2>>, <<u2, u1>>}}

\* One of those who may block or be blocked has no push token.
AllButOne == {Members \ {u2}}
Symmetry == Permutations(Conns)
=============================================================================
