--------------------------- MODULE MCWhatsAppSignup ---------------------------
(* WhatsAppSignup on small instances. *)
EXTENDS WhatsAppSignup, TLC

CONSTANTS a1, a2, a3, p1, p2

MCTwoAttempts == {a1, a2}
MCThreeAttempts == {a1, a2, a3}
MCPhones == {p1, p2}

Symmetry == Permutations(Attempts) \union Permutations(Phones)
=============================================================================
