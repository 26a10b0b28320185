------------------------------ MODULE IssueChain ------------------------------
(***************************************************************************)
(* What issue processing promises for one conversation: each turn is       *)
(* folded into the issue once, in the order the turns were stored, and no  *)
(* turn is folded before the embedding of the one before is published.     *)
(* Jobs, retries, locks and crashes do not appear.                         *)
(***************************************************************************)
EXTENDS Naturals

CONSTANT Events

VARIABLES
    order,      \* order[e]: place of turn e in the conversation, 0 before it arrives
    folded,     \* turns the summary accounts for
    settled,    \* folded turns whose embedding phase is over
    version,    \* version of the summary
    published   \* version of the stored embedding

vars == <<order, folded, settled, version, published>>

Init ==
    /\ order = [e \in Events |-> 0]
    /\ folded = {} /\ settled = {}
    /\ version = 0 /\ published = 0

\* A turn arrives after all those that already have.
Arrive(e) ==
    /\ order[e] = 0
    /\ \A f \in Events \ {e} : order'[f] = order[f] /\ order[f] < order'[e]
    /\ UNCHANGED <<folded, settled, version, published>>

\* The next turn is folded; it gives the issue a new version, or none.
Fold(e) ==
    /\ order[e] # 0 /\ e \notin folded
    /\ \A f \in Events : order[f] # 0 /\ order[f] < order[e] => f \in settled
    /\ folded' = folded \union {e}
    /\ version' \in {version, version + 1}
    /\ UNCHANGED <<order, settled, published>>

Publish ==
    /\ published' = version
    /\ UNCHANGED <<order, folded, settled, version>>

Settle(e) ==
    /\ e \in folded \ settled
    /\ published = version
    /\ settled' = settled \union {e}
    /\ UNCHANGED <<order, folded, version, published>>

Next == Publish \/ \E e \in Events : Arrive(e) \/ Fold(e) \/ Settle(e)

Spec == Init /\ [][Next]_vars
=============================================================================
