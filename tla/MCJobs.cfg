CONSTANTS
    w1 = w1
    t1 = t1
    s1 = s1
    r1 = r1
    r2 = r2
    Admin = Admin
    NoTenant = NoTenant
    NoOne = NoOne
    NoJob = NoJob
    Jobs <- MCJobs
    WhatsAppJobs <- MCWhatsAppJobs
    Slugs <- MCSlugs
    SlugOf <- MCSlugOf
    Runs <- MCTwoRuns
    MaxRequests = 4
    MaxFaults = 2
SPECIFICATION Spec
SYMMETRY Symmetry
INVARIANT TenantHasOneOwner
INVARIANT SucceededIsProvisioned
PROPERTY ImplementsProvisioning
CHECK_DEADLOCK FALSE
