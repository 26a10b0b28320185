--------------------------- MODULE NumberConnection ---------------------------
(***************************************************************************)
(* What the WhatsApp signup promises a business that connects a number.    *)
(* Of its attempts at most one can be completed at a time, and each once;  *)
(* the number is chosen once and for good; what was set up for it is never *)
(* undone; and it counts as connected only when everything is set up, the  *)
(* history request included if the history is to be imported.  Locks,      *)
(* steps, resumed and failing completions do not appear.                   *)
(***************************************************************************)
CONSTANTS
    Attempts,
    Phones,
    NoPhone     \* no number is chosen yet

VARIABLES
    live,       \* attempts that can be completed
    spent,      \* attempts that were completed, cancelled or superseded
    number,     \* the number of the business
    state,      \* "none", "open", "failed", "connected" or "active"
    setup,      \* what is set up for the number
    import      \* its history is to be imported

vars == <<live, spent, number, state, setup, import>>

Steps == {"token", "subscription", "registration", "history"}

Init ==
    /\ live = {} /\ spent = {}
    /\ number = NoPhone
    /\ state = "none"
    /\ setup = {}
    /\ import = FALSE

Issue(a) ==
    /\ a \notin live \union spent
    /\ live' = {a}
    /\ spent' = spent \union live
    /\ UNCHANGED <<number, state, setup, import>>

Spend(a) ==
    /\ a \in live
    /\ live' = live \ {a}
    /\ spent' = spent \union {a}
    /\ UNCHANGED <<number, state, setup, import>>

\* A completion begins, or begins again, to set the number up.
Open(a, p) ==
    /\ a \in spent
    /\ number \in {NoPhone, p}
    /\ number' = p
    /\ state' = "open"
    /\ UNCHANGED <<live, spent, setup, import>>

Choose ==
    /\ state = "open"
    /\ import' \in BOOLEAN
    /\ UNCHANGED <<live, spent, number, state, setup>>

SetUp(step) ==
    /\ number # NoPhone
    /\ setup' = setup \union {step}
    /\ UNCHANGED <<live, spent, number, state, import>>

GiveUp ==
    /\ state = "open"
    /\ state' = "failed"
    /\ UNCHANGED <<live, spent, number, setup, import>>

Connect ==
    /\ state = "open"
    /\ Steps \ {"history"} \subseteq setup
    /\ import => "history" \in setup
    /\ state' = "connected"
    /\ UNCHANGED <<live, spent, number, setup, import>>

\* The onboarding job's.
Activate ==
    /\ state = "connected"
    /\ state' = "active"
    /\ UNCHANGED <<live, spent, number, setup, import>>

Next ==
    \/ \E a \in Attempts : Issue(a) \/ Spend(a) \/ \E p \in Phones : Open(a, p)
    \/ Choose
    \/ \E step \in Steps : SetUp(step)
    \/ GiveUp \/ Connect \/ Activate

Spec == Init /\ [][Next]_vars
=============================================================================
