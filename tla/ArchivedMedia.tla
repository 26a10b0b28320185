---------------------------- MODULE ArchivedMedia ----------------------------
(***************************************************************************)
(* What the media archive promises of an attachment: it is copied at most  *)
(* once, what it reports as complete was copied intact and stays complete, *)
(* media that Meta does not offer is never tried, and everything else is   *)
(* owed or has failed and may be asked for again.  Executions, queue rows, *)
(* locks, upload sessions and the drive's consent do not appear.           *)
(***************************************************************************)
CONSTANT Attachments

VARIABLES
    state,   \* state[a]: "none", "unavailable", "owed", "failed" or "complete"
    copy     \* copy[a]: the file of a holds "none", "good" or "bad" bytes

vars == <<state, copy>>

Init ==
    /\ state = [a \in Attachments |-> "none"]
    /\ copy = [a \in Attachments |-> "none"]

Move(a, from, to) ==
    /\ state[a] = from
    /\ state' = [state EXCEPT ![a] = to]
    /\ UNCHANGED copy

Offer(a) == Move(a, "none", "owed") \/ Move(a, "none", "unavailable")

\* An execution that was given up may still copy what is marked as failed.
Copy(a) ==
    /\ state[a] \in {"owed", "failed"} /\ copy[a] = "none"
    /\ \E bytes \in {"good", "bad"} : copy' = [copy EXCEPT ![a] = bytes]
    /\ UNCHANGED state

Complete(a) == copy[a] = "good" /\ Move(a, "owed", "complete")

Fail(a) == Move(a, "owed", "failed")

Retry(a) == Move(a, "failed", "owed")

Next == \E a \in Attachments : Offer(a) \/ Copy(a) \/ Complete(a) \/ Fail(a) \/ Retry(a)

Spec == Init /\ [][Next]_vars
=============================================================================
