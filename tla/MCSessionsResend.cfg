\* MCSessionsResend
CONSTANTS
    r1 = r1
    r2 = r2
    own = own
    other = other
    NoWebsite = NoWebsite
    Requests <- MCRequests
    Websites <- MCWebsites
    OwnDomain <- MCOwnDomain
    MaxAttempts = 1
    MaxIssued = 3
    MaxFaults = 1
SPECIFICATION Spec
SYMMETRY Symmetry
INVARIANT VerificationFresh
