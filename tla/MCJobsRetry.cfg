CONSTANTS
    w1 = w1
    t1 = t1
    s1 = s1
    r1 = r1
    r2 = r2
    Admin = Admin
    NoTenant = NoTenant
    NoOne = NoOne
    NoJob = NoJob
    Jobs <- MCTelegramJobs
    WhatsAppJobs <- MCNoJobs
    Slugs <- MCSlugs
    SlugOf <- MCTelegramSlugOf
    Runs <- MCOneRun
    MaxRequests = 3
    MaxFaults = 2
SPECIFICATION Spec
PROPERTY RetryKnowsItsTenant
CHECK_DEADLOCK FALSE
