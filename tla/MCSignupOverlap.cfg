\* MCSignupOverlap
CONSTANTS
    a1 = a1
    a2 = a2
    a3 = a3
    p1 = p1
    p2 = p2
    NoAttempt = NoAttempt
    NoPhone = NoPhone
    Attempts <- MCTwoAttempts
    Phones <- MCPhones
    Coexistence = TRUE
    MaxFaults = 2
SPECIFICATION Spec
SYMMETRY Symmetry
INVARIANT LiveAttemptFreezes
CHECK_DEADLOCK FALSE
