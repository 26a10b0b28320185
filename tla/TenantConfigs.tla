---------------------------- MODULE TenantConfigs ----------------------------
(***************************************************************************)
(* The configuration of one tenant and its entry in the Redis cache.       *)
(*                                                                         *)
(* PostgresTenantConfigRepository.upsert reads the row, writes every       *)
(* column of it back, and replaces the rows of the enabled features with a *)
(* DELETE and an INSERT: four statements, each a transaction of its own.   *)
(* RedisTenantConfigRepository stands before it: get answers from the      *)
(* cache or fills it, get_existing and upsert refresh it, and a Redis that *)
(* fails is passed over.  Requests of all replicas interleave at every     *)
(* statement.  The row is there: the onboarding job has created it.        *)
(***************************************************************************)
EXTENDS Naturals, FiniteSets

CONSTANTS
    Settings,        \* columns of tenant_configs
    Updates,         \* PUT requests; the value each one writes is its own name
    Readers,         \* requests that need the configuration, one after another
    Default,         \* value of a column that no request has set
    MaxCacheFaults   \* bound on failures of Redis and of requests

ASSUME ConfigAssumption ==
    /\ Default \notin Updates
    /\ Updates \intersect Readers = {}
    /\ "cache" \notin Updates \union Readers
    /\ "features" \notin Settings
    /\ MaxCacheFaults \in Nat

VARIABLES
    config,          \* tenant_configs: the value of each column
    features,        \* tenant_enabled_features: the updates whose keys are stored
    cache,           \* the Redis entry: {} or one entry
    step,            \* step[p]: the next statement of request p
    held,            \* held[p]: the configuration p has read
    changes,         \* changes[u]: the columns that u sets
    cacheFaults,     \* failures so far, at most MaxCacheFaults
    newest,          \* history: newest[s]: the last update that set column s
    newestFeatures,  \* history: the features of the last update that stored any
    overlap,         \* history: two updates ran at once
    unfinished,      \* history: an update stopped half way
    stale            \* history: requests whose copy an update has overtaken, and
                     \* "cache" if Redis keeps such a copy or missed an update

storeVars == <<config, features>>
requestVars == <<step, held, changes>>
configHistory == <<newest, newestFeatures, overlap, unfinished, stale>>
configVars == <<storeVars, cache, requestVars, cacheFaults, configHistory>>

Requests == Updates \union Readers

Stored == [config |-> config, features |-> features]

\* held of a request that has read nothing.
Nothing == [config |-> [s \in Settings |-> Default], features |-> {}]

CacheFault == cacheFaults < MaxCacheFaults /\ cacheFaults' = cacheFaults + 1

Writing == {u \in Updates : step[u] \notin {"new", "done"}}

\* Requests that a statement of u overtakes: their copy of the configuration, which they
\* are about to put into the cache, becomes an old one.
Overtaken(u) == {p \in Requests \ {u} : step[p] \in {"filling", "refreshing"}}

\* Nothing is left of what p has read.
Forget(p) == held' = [held EXCEPT ![p] = Nothing]

-----------------------------------------------------------------------------
(* RedisTenantConfigRepository. *)

\* Variant: SET without its expiry.
SetCachedForever(p) ==
    /\ cache' = {[value |-> held[p], expires |-> FALSE]}
    /\ stale' = (stale \ {p, "cache"}) \union (IF p \in stale THEN {"cache"} ELSE {})
    /\ UNCHANGED cacheFaults

\* SET with an expiry; an error is logged and the entry stays what it was.
SetCached(p) ==
    \/ /\ cache' = {[value |-> held[p], expires |-> TRUE]}
       /\ stale' = (stale \ {p, "cache"}) \union (IF p \in stale THEN {"cache"} ELSE {})
       /\ UNCHANGED cacheFaults
    \/ /\ CacheFault
       /\ stale' = (stale \ {p}) \union (IF p \in Updates THEN {"cache"} ELSE {})
       /\ UNCHANGED cache

Expire ==
    /\ \E e \in cache : e.expires
    /\ cache' = {}
    /\ stale' = stale \ {"cache"}
    /\ UNCHANGED <<storeVars, requestVars, cacheFaults, newest, newestFeatures, overlap,
                   unfinished>>

\* get: a hit answers the request, a miss and a Redis that fails lead to the database.
GetCached(r) ==
    /\ step[r] = "new"
    /\ \/ cache = {} /\ UNCHANGED cacheFaults
       \/ cache # {} /\ CacheFault
    /\ step' = [step EXCEPT ![r] = "loading"]
    /\ UNCHANGED <<storeVars, cache, held, changes, configHistory>>

\* get_existing: the API reads past the cache.
GetExisting(r) ==
    /\ step[r] = "new"
    /\ step' = [step EXCEPT ![r] = "loading"]
    /\ UNCHANGED <<storeVars, cache, held, changes, cacheFaults, configHistory>>

Load(r) ==
    /\ step[r] = "loading"
    /\ held' = [held EXCEPT ![r] = Stored]
    /\ step' = [step EXCEPT ![r] = "filling"]
    /\ UNCHANGED <<storeVars, cache, changes, cacheFaults, configHistory>>

Fill(r) ==
    /\ step[r] = "filling"
    /\ SetCached(r)
    /\ Forget(r)
    /\ step' = [step EXCEPT ![r] = "new"]
    /\ UNCHANGED <<storeVars, changes, newest, newestFeatures, overlap, unfinished>>

-----------------------------------------------------------------------------
(* PostgresTenantConfigRepository.upsert, then the refresh of the cache. *)

\* Variant: the update starts from the cached configuration.
ReadFromCache(u) ==
    /\ step[u] = "new"
    /\ held' = [held EXCEPT ![u] = IF cache = {} THEN Stored
                                   ELSE (CHOOSE e \in cache : TRUE).value]
    /\ \E c \in SUBSET (Settings \union {"features"}) : changes' = [changes EXCEPT ![u] = c]
    /\ step' = [step EXCEPT ![u] = "writing"]
    /\ overlap' = (overlap \/ Writing # {})
    /\ UNCHANGED <<storeVars, cache, cacheFaults, newest, newestFeatures, unfinished, stale>>

\* existing = await self.get(...), which is the repository's own and not the cache's.
ReadExisting(u) ==
    /\ step[u] = "new"
    /\ held' = [held EXCEPT ![u] = Stored]
    /\ \E c \in SUBSET (Settings \union {"features"}) : changes' = [changes EXCEPT ![u] = c]
    /\ step' = [step EXCEPT ![u] = "writing"]
    /\ overlap' = (overlap \/ Writing # {})
    /\ UNCHANGED <<storeVars, cache, cacheFaults, newest, newestFeatures, unfinished, stale>>

\* INSERT ... ON CONFLICT DO UPDATE: what the request leaves out is written back as it
\* was read.
WriteColumns(u) ==
    /\ step[u] = "writing"
    /\ config' = [s \in Settings |-> IF s \in changes[u] THEN u ELSE held[u].config[s]]
    /\ newest' = [s \in Settings |-> IF s \in changes[u] THEN u ELSE newest[s]]
    /\ step' = [step EXCEPT ![u] = IF "features" \in changes[u] THEN "clearing" ELSE "reading"]
    /\ stale' = stale \union Overtaken(u)
    /\ changes' = [changes EXCEPT ![u] = {}]
    /\ Forget(u)
    /\ UNCHANGED <<features, cache, cacheFaults, newestFeatures, overlap, unfinished>>

DeleteFeatures(u) ==
    /\ step[u] = "clearing"
    /\ features' = {}
    /\ step' = [step EXCEPT ![u] = "inserting"]
    /\ stale' = stale \union Overtaken(u)
    /\ UNCHANGED <<config, cache, held, changes, cacheFaults, newest, newestFeatures,
                   overlap, unfinished>>

\* executemany is one transaction; ON CONFLICT DO NOTHING.
InsertFeatures(u) ==
    /\ step[u] = "inserting"
    /\ features' = features \union {u}
    /\ newestFeatures' = {u}
    /\ step' = [step EXCEPT ![u] = "reading"]
    /\ stale' = stale \union Overtaken(u)
    /\ UNCHANGED <<config, cache, held, changes, cacheFaults, newest, overlap, unfinished>>

ReadUpdated(u) ==
    /\ step[u] = "reading"
    /\ held' = [held EXCEPT ![u] = Stored]
    /\ step' = [step EXCEPT ![u] = "refreshing"]
    /\ UNCHANGED <<storeVars, cache, changes, cacheFaults, configHistory>>

\* Variant: the cache is left to its expiry.
RefreshNothing(u) ==
    /\ step[u] = "refreshing"
    /\ Forget(u)
    /\ step' = [step EXCEPT ![u] = "done"]
    /\ UNCHANGED <<storeVars, cache, changes, cacheFaults, configHistory>>

Refresh(u) ==
    /\ step[u] = "refreshing"
    /\ SetCached(u)
    /\ Forget(u)
    /\ step' = [step EXCEPT ![u] = "done"]
    /\ UNCHANGED <<storeVars, changes, newest, newestFeatures, overlap, unfinished>>

\* A statement fails, the client goes away or the process ends.
AbortUpdate(u) ==
    /\ u \in Writing
    /\ CacheFault
    /\ step' = [step EXCEPT ![u] = "done"]
    /\ Forget(u)
    /\ unfinished' = TRUE
    /\ stale' = stale \ {u}
    /\ UNCHANGED <<storeVars, cache, changes, newest, newestFeatures, overlap>>

-----------------------------------------------------------------------------
(* Specification *)

ConfigInit ==
    /\ config = [s \in Settings |-> Default]
    /\ features = {}
    /\ cache = {}
    /\ step = [p \in Requests |-> "new"]
    /\ held = [p \in Requests |-> Nothing]
    /\ changes = [u \in Updates |-> {}]
    /\ cacheFaults = 0
    /\ newest = config
    /\ newestFeatures = {}
    /\ overlap = FALSE
    /\ unfinished = FALSE
    /\ stale = {}

Serve(r) == Load(r) \/ Fill(r)

Update(u) ==
    \/ WriteColumns(u) \/ DeleteFeatures(u) \/ InsertFeatures(u) \/ ReadUpdated(u)
    \/ Refresh(u)

ConfigNext ==
    \/ Expire
    \/ \E r \in Readers : GetCached(r) \/ GetExisting(r) \/ Serve(r)
    \/ \E u \in Updates : ReadExisting(u) \/ Update(u) \/ AbortUpdate(u)

\* Requests that have begun go on, and Redis drops what has expired.
ConfigFairness ==
    /\ WF_configVars(Expire)
    /\ \A r \in Readers : WF_configVars(Serve(r))
    /\ \A u \in Updates : WF_configVars(Update(u))

ConfigSpec == ConfigInit /\ [][ConfigNext]_configVars /\ ConfigFairness

-----------------------------------------------------------------------------
(* Properties *)

Configs == [config : [Settings -> Updates \union {Default}], features : SUBSET Updates]

ConfigTypeOK ==
    /\ Stored \in Configs
    /\ cache \in SUBSET [value : Configs, expires : {TRUE}]
    /\ Cardinality(cache) <= 1
    /\ step \in [Requests -> {"new", "loading", "filling", "writing", "clearing",
                              "inserting", "reading", "refreshing", "done"}]
    /\ held \in [Requests -> Configs]
    /\ changes \in [Updates -> SUBSET (Settings \union {"features"})]
    /\ cacheFaults \in 0 .. MaxCacheFaults
    /\ newest \in [Settings -> Updates \union {Default}]
    /\ newestFeatures \in SUBSET Updates
    /\ {overlap, unfinished} \subseteq BOOLEAN
    /\ stale \in SUBSET (Requests \union {"cache"})

\* "The cache TTL provides a safety net": once updates have ceased, whatever failed or
\* overlapped, every request is soon answered with what the database holds.
CacheConverges == <>[](\A e \in cache : e.value = Stored)

\* While no update is under way the cache holds what the database holds, unless Redis
\* failed, an update stopped half way, or a request put in a copy that an update had
\* overtaken.
StaleByOverlapOnly ==
    Writing = {} /\ (\E e \in cache : e.value # Stored)
        => \/ "cache" \in stale
           \/ unfinished

\* No request takes back a setting that another request has stored, and the features
\* are those of the last request that gave any, unless two requests overlap or one
\* stopped between deleting the features and storing its own.
SettingsLostToOverlapOnly ==
    /\ config # newest => overlap
    /\ features # newestFeatures
       => overlap \/ unfinished \/ \E u \in Updates : step[u] = "inserting"
=============================================================================
