--------------------------- MODULE CustomerReplies ---------------------------
(***************************************************************************)
(* What the WhatsApp side promises a customer and whoever reads its        *)
(* records.  A message is either archive or taken for an answer once; it   *)
(* gets at most one reply, and none after the outcome has been told; and   *)
(* what is told is final and true.  Requests, redeliveries, the delivery   *)
(* lock, pauses and crashes do not appear.                                 *)
(***************************************************************************)
EXTENDS Naturals

CONSTANT Messages

VARIABLES
    archived,   \* messages that were imported
    told,       \* told[m]: "none", "taken", and in the end what became of the reply
    replies     \* replies[m]: replies the customer got

vars == <<archived, told, replies>>

Init ==
    /\ archived = {}
    /\ told = [m \in Messages |-> "none"]
    /\ replies = [m \in Messages |-> 0]

Archive(m) ==
    /\ archived' = archived \union {m}
    /\ UNCHANGED <<told, replies>>

\* Messages for a number without a tenant are told to be ignored at once.
Take(m) ==
    /\ told[m] = "none" /\ m \notin archived
    /\ told' \in {[told EXCEPT ![m] = s] : s \in {"taken", "ignored"}}
    /\ UNCHANGED <<archived, replies>>

Reply(m) ==
    /\ told[m] = "taken" /\ replies[m] = 0
    /\ replies' = [replies EXCEPT ![m] = 1]
    /\ UNCHANGED <<archived, told>>

\* Failed leaves open whether the reply went out.
Tell(m, outcome) ==
    /\ told[m] = "taken"
    /\ outcome = "sent" => replies[m] = 1
    /\ outcome = "ignored" => replies[m] = 0
    /\ told' = [told EXCEPT ![m] = outcome]
    /\ UNCHANGED <<archived, replies>>

Next ==
    \E m \in Messages :
        \/ Archive(m) \/ Take(m) \/ Reply(m)
        \/ \E outcome \in {"sent", "ignored", "failed"} : Tell(m, outcome)

Spec == Init /\ [][Next]_vars
=============================================================================
