------------------------- MODULE MCWhatsAppDelivery -------------------------
(* WhatsAppDelivery on small instances: one chat with an echo, one without. *)
EXTENDS WhatsAppDelivery, TLC

CONSTANTS m1, m2, a1, c1, c2, h1, h2

MCMessages == {m1, m2}
MCEchoes == {a1}
MCChats == {c1, c2}
MCSameChat == (m1 :> c1) @@ (m2 :> c1) @@ (a1 :> c1)
MCTwoChats == (m1 :> c1) @@ (m2 :> c2) @@ (a1 :> c1)
MCHandlers == {h1, h2}

Symmetry == Permutations(Handlers)
=============================================================================
