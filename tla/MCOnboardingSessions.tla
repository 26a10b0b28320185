------------------------ MODULE MCOnboardingSessions ------------------------
(* OnboardingSessions on small instances. *)
EXTENDS OnboardingSessions, TLC

CONSTANTS r1, r2, own, other

MCRequests == {r1, r2}
MCWebsites == {own, other}
MCOwnDomain == {own}

Symmetry == Permutations(Requests)
=============================================================================
