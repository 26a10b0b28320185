SPECIFICATION Spec
CHECK_DEADLOCK FALSE
CONSTANTS
    Settings = {model}
    Updates = {u1, u2}
    Readers = {r1}
    Default = Default
    MaxCacheFaults = 1
    Pages = {home, menu}
    Home = home
    Job = Job
    Refreshes = {t1}
    Versions = {0, 1}
    MaxRuns = 2
    MaxStoreFaults = 1
    Messages = {m1}
    Handlers = {h1, h2}
    Replicas = {p1}
    NoMessage = NoMessage
    MaxTakeovers = 1
    MaxTurnFaults = 2
    Categories = {"shop"}
    MaxTries = 1
INVARIANT StaleByOverlapOnly
INVARIANT SettingsLostToOverlapOnly
INVARIANT RefreshReplacesPage
INVARIANT OnboardedKnowledgeStays
INVARIANT StoresAgree
PROPERTY CacheConverges
PROPERTY OperatorOverriddenByOverlapOnly
PROPERTY TelegramReplyArrives
