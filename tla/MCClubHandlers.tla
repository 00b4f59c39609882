--------------------------- MODULE MCClubHandlers ---------------------------
(* Bounded instances of ClubHandlers.  The configurations differ in the     *)
(* number of requests in flight and in the operations the callers use.      *)
EXTENDS ClubHandlers, TLC

Symmetry == Permutations(Users) \cup Permutations(Workers) \cup Permutations(Clubs)

\* Suspending an account only narrows who may call and who may inherit; the
\* serial configuration covers it.
ConcurrentOps == AllOps \ {"set_active"}

\* What it takes to have a join request answered twice.
AnswerOps == {"create", "join", "accept", "reject"}
=============================================================================
