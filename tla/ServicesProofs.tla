---------------------------- MODULE ServicesProofs ----------------------------
(***************************************************************************)
(* Proofs about TenantConfigs: an update that meets no other one loses     *)
(* nothing, and the cache is stale only for a reason; about TelegramTurns: *)
(* a person keeps a conversation unless a turn had read its state before;  *)
(* and about KnowledgeStore: what the onboarding stored outlives refreshes *)
(* of other pages, and a refresh leaves one text of its page.              *)
(***************************************************************************)
EXTENDS TenantConfigs, TelegramTurns, KnowledgeStore, FiniteSetTheorems, TLAPS

CacheRefresh == {"filling", "refreshing"}

\* Of two writing updates at least one began while the other was writing; one that is
\* alone has read what is stored.
AloneInv ==
    ~overlap => /\ \A u, v \in Writing : u = v
                /\ \A u \in Updates : step[u] = "writing" => held[u].config = config
                /\ config = newest

\* The features are gone while an update has deleted them and has not stored its own.
FeaturesInv ==
    ~overlap /\ ~unfinished
        => /\ \A u \in Updates : step[u] = "inserting" => features = {}
           /\ (\A u \in Updates : step[u] # "inserting") => features = newestFeatures

\* A copy that is about to be cached and has not been overtaken is what is stored.
CopyInv ==
    \A p \in Requests : step[p] \in CacheRefresh /\ p \notin stale => held[p] = Stored

\* An entry that is not what is stored has its reason, or will be replaced by an update.
EntryInv ==
    (\E e \in cache : e.value # Stored) => "cache" \in stale \/ unfinished \/ Writing # {}

\* Readers take no step of an update.
ReaderInv == \A r \in Readers : step[r] \in {"new", "loading", "filling"}

ConfigInv ==
    ConfigTypeOK /\ ReaderInv /\ AloneInv /\ FeaturesInv /\ CopyInv /\ EntryInv

-----------------------------------------------------------------------------

\* The stored configuration has its type.
LEMMA StoredType ==
    ASSUME ConfigTypeOK
    PROVE  /\ config \in [Settings -> Updates \union {Default}]
           /\ features \in SUBSET Updates
<1>1. Stored \in Configs
  BY DEF ConfigTypeOK
<1>2. Stored.config \in [Settings -> Updates \union {Default}] /\ Stored.features \in SUBSET Updates
  BY <1>1 DEF Configs
<1> QED
  BY <1>2 DEF Stored

\* ... and so has every copy that is read.
LEMMA CopyType ==
    ASSUME ConfigTypeOK
    PROVE  \A p \in Requests :
               /\ held[p].config \in [Settings -> Updates \union {Default}]
               /\ held[p].features \in SUBSET Updates
BY DEF ConfigTypeOK, Configs

\* Filling the cache keeps its type.
LEMMA SetCachedType ==
    ASSUME ConfigTypeOK, NEW p \in Requests, SetCached(p)
    PROVE  /\ cache' \in SUBSET [value : Configs, expires : {TRUE}]
           /\ Cardinality(cache') <= 1
           /\ cacheFaults' \in 0 .. MaxCacheFaults
           /\ stale' \in SUBSET (Requests \union {"cache"})
<1> USE ConfigAssumption
<1>1. held[p] \in Configs
  BY DEF ConfigTypeOK
<1>2. CASE cache' = {[value |-> held[p], expires |-> TRUE]} /\ UNCHANGED cacheFaults
  <2>1. Cardinality(cache') = 1
    BY <1>2, FS_Singleton
  <2>2. cache' \in SUBSET [value : Configs, expires : {TRUE}]
    BY <1>1, <1>2
  <2>3. stale' \in SUBSET (Requests \union {"cache"})
    BY DEF SetCached, ConfigTypeOK
  <2> QED
    BY <1>2, <2>1, <2>2, <2>3 DEF ConfigTypeOK
<1>3. CASE UNCHANGED cache /\ CacheFault
  <2>1. cacheFaults' \in 0 .. MaxCacheFaults
    BY <1>3 DEF CacheFault, ConfigTypeOK
  <2>2. stale' \in SUBSET (Requests \union {"cache"})
    BY DEF SetCached, ConfigTypeOK
  <2> QED
    BY <1>3, <2>1, <2>2 DEF ConfigTypeOK
<1> QED
  BY <1>2, <1>3 DEF SetCached

\* Types are preserved.
LEMMA ConfigTypeStep == ConfigTypeOK /\ [ConfigNext]_configVars => ConfigTypeOK'
<1> SUFFICES ASSUME ConfigTypeOK, [ConfigNext]_configVars PROVE ConfigTypeOK'
  OBVIOUS
<1> USE ConfigAssumption DEF Requests
<1>0. /\ config \in [Settings -> Updates \union {Default}]
      /\ features \in SUBSET Updates
  BY StoredType
<1>1. \A u \in Updates : held[u].config \in [Settings -> Updates \union {Default}]
  BY CopyType
<1>2. Nothing \in Configs
  BY DEF Nothing, Configs
<1>3. Cardinality({}) <= 1
  BY FS_EmptySet
<1>4. CASE UNCHANGED configVars
  BY <1>4 DEF configVars, storeVars, requestVars, configHistory, ConfigTypeOK, Stored, Configs
<1>5. CASE Expire
  BY <1>3, <1>5 DEF Expire, ConfigTypeOK, Stored, Configs, storeVars, requestVars
<1>6. ASSUME NEW r \in Readers, GetCached(r) \/ GetExisting(r) PROVE ConfigTypeOK'
  <2>1. cacheFaults' \in 0 .. MaxCacheFaults
    BY <1>6 DEF GetCached, GetExisting, CacheFault, ConfigTypeOK
  <2>2. step' \in [Requests -> {"new", "loading", "filling", "writing", "clearing",
                              "inserting", "reading", "refreshing", "done"}]
    BY <1>6 DEF GetCached, GetExisting, ConfigTypeOK
  <2> QED
    BY <1>6, <2>1, <2>2, ZenonT(60)
       DEF GetCached, GetExisting, ConfigTypeOK, storeVars, configHistory,
                            Stored, Configs
<1>7. ASSUME NEW r \in Readers, Load(r) PROVE ConfigTypeOK'
  <2>1. held' \in [Requests -> Configs]
    BY <1>7 DEF Load, ConfigTypeOK
  <2> QED
    BY <1>7, <2>1 DEF Load, ConfigTypeOK, storeVars, configHistory, Stored, Configs
<1>8. ASSUME NEW r \in Readers, Fill(r) PROVE ConfigTypeOK'
  <2>1. held' \in [Requests -> Configs]
    BY <1>2, <1>8 DEF Fill, Forget, ConfigTypeOK
  <2>2. SetCached(r)
    BY <1>8 DEF Fill
  <2> QED
    BY <1>8, <2>1, <2>2, SetCachedType DEF Fill, ConfigTypeOK, storeVars, Stored, Configs
<1>9. ASSUME NEW u \in Updates, ReadExisting(u) PROVE ConfigTypeOK'
  <2>1. held' \in [Requests -> Configs] /\ changes' \in [Updates -> SUBSET (Settings \union {"features"})]
    BY <1>9 DEF ReadExisting, ConfigTypeOK
  <2>2. overlap' \in BOOLEAN
    BY <1>9 DEF ReadExisting, ConfigTypeOK
  <2> QED
    BY <1>9, <2>1, <2>2 DEF ReadExisting, ConfigTypeOK, storeVars, Stored, Configs
<1>10. ASSUME NEW u \in Updates, WriteColumns(u) PROVE ConfigTypeOK'
  <2>1. config' \in [Settings -> Updates \union {Default}]
    BY <1>1, <1>10 DEF WriteColumns
  <2>2. newest' \in [Settings -> Updates \union {Default}]
    BY <1>10 DEF WriteColumns, ConfigTypeOK
  <2>3. held' \in [Requests -> Configs]
    BY <1>2, <1>10 DEF WriteColumns, Forget, ConfigTypeOK
  <2>4. stale' \in SUBSET (Requests \union {"cache"})
    BY <1>10 DEF WriteColumns, Overtaken, ConfigTypeOK
  <2>5. Stored' \in Configs
    BY <1>0, <1>10, <2>1 DEF WriteColumns, Stored, Configs
  <2>6. step' \in [Requests -> {"new", "loading", "filling", "writing", "clearing",
                              "inserting", "reading", "refreshing", "done"}]
    BY <1>10 DEF WriteColumns, ConfigTypeOK
  <2>7. changes' \in [Updates -> SUBSET (Settings \union {"features"})]
    BY <1>10 DEF WriteColumns, ConfigTypeOK
  <2> QED
    BY <1>10, <2>2, <2>3, <2>4, <2>5, <2>6, <2>7 DEF WriteColumns, ConfigTypeOK, Configs
<1>11. ASSUME NEW u \in Updates, DeleteFeatures(u) \/ InsertFeatures(u) PROVE ConfigTypeOK'
  <2>1. features' \in SUBSET Updates /\ newestFeatures' \in SUBSET Updates
    BY <1>0, <1>11 DEF DeleteFeatures, InsertFeatures, ConfigTypeOK
  <2>2. stale' \in SUBSET (Requests \union {"cache"})
    BY <1>11 DEF DeleteFeatures, InsertFeatures, Overtaken, ConfigTypeOK
  <2>3. Stored' \in Configs
    BY <1>0, <1>11, <2>1 DEF DeleteFeatures, InsertFeatures, Stored, Configs
  <2> QED
    BY <1>11, <2>1, <2>2, <2>3, ZenonT(60)
       DEF DeleteFeatures, InsertFeatures, ConfigTypeOK, Configs
<1>12. ASSUME NEW u \in Updates, ReadUpdated(u) PROVE ConfigTypeOK'
  <2>1. held' \in [Requests -> Configs]
    BY <1>12 DEF ReadUpdated, ConfigTypeOK
  <2> QED
    BY <1>12, <2>1 DEF ReadUpdated, ConfigTypeOK, storeVars, configHistory, Stored, Configs
<1>13. ASSUME NEW u \in Updates, Refresh(u) PROVE ConfigTypeOK'
  <2>1. held' \in [Requests -> Configs]
    BY <1>2, <1>13 DEF Refresh, Forget, ConfigTypeOK
  <2>2. SetCached(u)
    BY <1>13 DEF Refresh
  <2> QED
    BY <1>13, <2>1, <2>2, SetCachedType DEF Refresh, ConfigTypeOK, storeVars, Stored, Configs
<1>14. ASSUME NEW u \in Updates, AbortUpdate(u) PROVE ConfigTypeOK'
  <2>1. held' \in [Requests -> Configs]
    BY <1>2, <1>14 DEF AbortUpdate, Forget, ConfigTypeOK
  <2>2. cacheFaults' \in 0 .. MaxCacheFaults
    BY <1>14 DEF AbortUpdate, CacheFault, ConfigTypeOK
  <2> QED
    BY <1>14, <2>1, <2>2 DEF AbortUpdate, ConfigTypeOK, storeVars, Stored, Configs
<1> QED
  BY <1>4, <1>5, <1>6, <1>7, <1>8, <1>9, <1>10, <1>11, <1>12, <1>13, <1>14
  DEF ConfigNext, Serve, Update

\* Readers keep to their steps.
LEMMA ReaderStep == ConfigInv /\ [ConfigNext]_configVars => ReaderInv'
<1> SUFFICES ASSUME ConfigInv, [ConfigNext]_configVars, NEW r \in Readers
             PROVE  step'[r] \in {"new", "loading", "filling"}
  BY DEF ReaderInv
<1> USE ConfigAssumption DEF Requests, ConfigInv
<1>1. step[r] \in {"new", "loading", "filling"} /\ r \in DOMAIN step /\ r \notin Updates
  BY DEF ReaderInv, ConfigTypeOK
<1>2. CASE UNCHANGED configVars \/ Expire
  BY <1>1, <1>2 DEF configVars, requestVars, Expire
<1>3. ASSUME NEW q \in Readers, GetCached(q) \/ GetExisting(q) \/ Load(q) \/ Fill(q)
      PROVE  step'[r] \in {"new", "loading", "filling"}
  BY <1>1, <1>3 DEF GetCached, GetExisting, Load, Fill, ConfigTypeOK
<1>4. ASSUME NEW u \in Updates, ReadExisting(u) \/ Update(u) \/ AbortUpdate(u)
      PROVE  step'[r] = step[r]
  BY <1>1, <1>4 DEF ReadExisting, Update, AbortUpdate, WriteColumns, DeleteFeatures,
                    InsertFeatures, ReadUpdated, Refresh
<1> QED
  BY <1>1, <1>2, <1>3, <1>4 DEF ConfigNext, Serve

\* What readers and Redis do does not concern the updates.
LEMMA ReadersOnly ==
    ASSUME ConfigInv, \/ UNCHANGED configVars
                      \/ Expire
                      \/ \E r \in Readers : GetCached(r) \/ GetExisting(r) \/ Load(r) \/ Fill(r)
    PROVE  /\ UNCHANGED <<config, features, changes, newest, newestFeatures, overlap, unfinished>>
           /\ \A u \in Updates : step'[u] = step[u] /\ held'[u] = held[u]
           /\ Writing' = Writing
<1> USE ConfigAssumption DEF Requests, ConfigInv
<1>1. /\ UNCHANGED <<config, features, changes, newest, newestFeatures, overlap, unfinished>>
      /\ \A u \in Updates : step'[u] = step[u] /\ held'[u] = held[u]
  <2>1. CASE UNCHANGED configVars \/ Expire
    BY <2>1 DEF configVars, storeVars, requestVars, configHistory, Expire
  <2>2. ASSUME NEW r \in Readers, GetCached(r) \/ GetExisting(r) \/ Load(r) \/ Fill(r)
        PROVE  /\ UNCHANGED <<config, features, changes, newest, newestFeatures, overlap, unfinished>>
               /\ \A u \in Updates : step'[u] = step[u] /\ held'[u] = held[u]
    BY <2>2 DEF GetCached, GetExisting, Load, Fill, Forget, ConfigTypeOK, storeVars, configHistory
  <2> QED
    BY <2>1, <2>2
<1> QED
  BY <1>1 DEF Writing

\* Which updates are writing after a step of one of them.
LEMMA WritingStep ==
    ASSUME ConfigInv, NEW u \in Updates
    PROVE  /\ ReadExisting(u) => Writing' = Writing \union {u} /\ u \notin Writing
           /\ WriteColumns(u) \/ DeleteFeatures(u) \/ InsertFeatures(u) \/ ReadUpdated(u)
                  => Writing' = Writing /\ u \in Writing
           /\ Refresh(u) \/ AbortUpdate(u) => Writing' = Writing \ {u} /\ u \in Writing
BY DEF ConfigInv, ConfigTypeOK, Requests, Writing, ReadExisting, WriteColumns, DeleteFeatures,
       InsertFeatures, ReadUpdated, Refresh, AbortUpdate

\* Without overlap an update works on what is stored.
LEMMA AloneStep == ConfigInv /\ [ConfigNext]_configVars => AloneInv'
<1> SUFFICES ASSUME ConfigInv, [ConfigNext]_configVars, ~overlap'
             PROVE  /\ \A u, v \in Writing' : u = v
                    /\ \A u \in Updates : step'[u] = "writing" => held'[u].config = config'
                    /\ config' = newest'
  BY DEF AloneInv
<1> USE ConfigAssumption DEF Requests
<1>0. ConfigTypeOK /\ (~overlap => /\ \A u, v \in Writing : u = v
                                   /\ \A u \in Updates : step[u] = "writing" => held[u].config = config
                                   /\ config = newest)
  BY DEF ConfigInv, AloneInv
<1>1. CASE \/ UNCHANGED configVars
           \/ Expire
           \/ \E r \in Readers : GetCached(r) \/ GetExisting(r) \/ Load(r) \/ Fill(r)
  BY <1>0, <1>1, ReadersOnly
<1>2. ASSUME NEW u \in Updates, ReadExisting(u)
      PROVE  /\ \A w, v \in Writing' : w = v
             /\ \A w \in Updates : step'[w] = "writing" => held'[w].config = config'
             /\ config' = newest'
  <2>1. Writing = {} /\ Writing' = {u} /\ ~overlap
    BY <1>0, <1>2, WritingStep DEF ReadExisting, ConfigTypeOK
  <2>2. held'[u].config = config' /\ config' = newest'
    BY <1>0, <1>2, <2>1 DEF ReadExisting, Stored, storeVars, ConfigTypeOK
  <2>3. \A w \in Updates : step'[w] = "writing" => w = u
    BY <2>1 DEF Writing
  <2> QED
    BY <2>1, <2>2, <2>3
<1>3. ASSUME NEW u \in Updates, WriteColumns(u)
      PROVE  /\ \A w, v \in Writing' : w = v
             /\ \A w \in Updates : step'[w] = "writing" => held'[w].config = config'
             /\ config' = newest'
  <2>1. ~overlap /\ Writing' = Writing /\ u \in Writing /\ step[u] = "writing"
    BY <1>3, WritingStep DEF WriteColumns
  <2>2. held[u].config = newest
    BY <1>0, <2>1
  <2>3. config' = newest'
    BY <1>3, <2>2 DEF WriteColumns
  <2>4. \A w \in Updates : step'[w] # "writing"
    <3>1. \A w \in Writing' : w = u
      BY <1>0, <2>1
    <3>2. step'[u] # "writing"
      BY <1>0, <1>3 DEF WriteColumns, ConfigTypeOK
    <3> QED
      BY <3>1, <3>2 DEF Writing
  <2> QED
    BY <1>0, <2>1, <2>3, <2>4
<1>4. ASSUME NEW u \in Updates, DeleteFeatures(u) \/ InsertFeatures(u) \/ ReadUpdated(u)
      PROVE  /\ \A w, v \in Writing' : w = v
             /\ \A w \in Updates : step'[w] = "writing" => held'[w].config = config'
             /\ config' = newest'
  <2>1. ~overlap /\ Writing' = Writing /\ UNCHANGED <<config, newest>>
    BY <1>4, WritingStep DEF DeleteFeatures, InsertFeatures, ReadUpdated, configHistory, storeVars
  <2>2. \A w \in Updates : step'[w] = "writing" => step[w] = "writing" /\ w # u
    BY <1>0, <1>4 DEF DeleteFeatures, InsertFeatures, ReadUpdated, ConfigTypeOK
  <2>3. \A w \in Updates \ {u} : held'[w] = held[w]
    BY <1>0, <1>4 DEF DeleteFeatures, InsertFeatures, ReadUpdated, ConfigTypeOK
  <2> QED
    BY <1>0, <2>1, <2>2, <2>3
<1>5. ASSUME NEW u \in Updates, Refresh(u) \/ AbortUpdate(u)
      PROVE  /\ \A w, v \in Writing' : w = v
             /\ \A w \in Updates : step'[w] = "writing" => held'[w].config = config'
             /\ config' = newest'
  <2>1. ~overlap /\ Writing' \subseteq Writing /\ UNCHANGED <<config, newest>>
    <3>1. Writing' \subseteq Writing
      BY <1>5, WritingStep
    <3>2. UNCHANGED <<overlap, config, newest>>
      BY <1>5 DEF Refresh, AbortUpdate, storeVars
    <3> QED
      BY <3>1, <3>2
  <2>2. \A w \in Updates : step'[w] = "writing" => step[w] = "writing" /\ w # u
    BY <1>0, <1>5 DEF Refresh, AbortUpdate, ConfigTypeOK
  <2>3. \A w \in Updates \ {u} : held'[w] = held[w]
    BY <1>0, <1>5 DEF Refresh, AbortUpdate, Forget, ConfigTypeOK
  <2> QED
    BY <1>0, <2>1, <2>2, <2>3
<1> QED
  BY <1>1, <1>2, <1>3, <1>4, <1>5 DEF ConfigNext, Serve, Update

\* Features are missing only between an update's DELETE and its INSERT.
LEMMA FeaturesStep == ConfigInv /\ [ConfigNext]_configVars => FeaturesInv'
<1> SUFFICES ASSUME ConfigInv, [ConfigNext]_configVars, ~overlap', ~unfinished'
             PROVE  /\ \A u \in Updates : step'[u] = "inserting" => features' = {}
                    /\ (\A u \in Updates : step'[u] # "inserting") => features' = newestFeatures'
  BY DEF FeaturesInv
<1> USE ConfigAssumption DEF Requests
<1>0. /\ ConfigTypeOK
      /\ ~overlap => \A u, v \in Writing : u = v
      /\ ~overlap /\ ~unfinished
             => /\ \A u \in Updates : step[u] = "inserting" => features = {}
                /\ (\A u \in Updates : step[u] # "inserting") => features = newestFeatures
  BY DEF ConfigInv, AloneInv, FeaturesInv
<1>1. CASE \/ UNCHANGED configVars
           \/ Expire
           \/ \E r \in Readers : GetCached(r) \/ GetExisting(r) \/ Load(r) \/ Fill(r)
  BY <1>0, <1>1, ReadersOnly
<1>2. ASSUME NEW u \in Updates, ReadExisting(u) \/ ReadUpdated(u) \/ Refresh(u) \/ WriteColumns(u)
      PROVE  /\ \A w \in Updates : step'[w] = "inserting" => features' = {}
             /\ (\A w \in Updates : step'[w] # "inserting") => features' = newestFeatures'
  <2>1. ~overlap /\ ~unfinished /\ UNCHANGED <<features, newestFeatures>>
    BY <1>0, <1>2 DEF ReadExisting, ReadUpdated, Refresh, WriteColumns, storeVars, configHistory,
                      ConfigTypeOK
  <2>2. \A w \in Updates : step'[w] = "inserting" <=> step[w] = "inserting"
    BY <1>0, <1>2 DEF ReadExisting, ReadUpdated, Refresh, WriteColumns, ConfigTypeOK
  <2> QED
    BY <1>0, <2>1, <2>2
<1>3. ASSUME NEW u \in Updates, DeleteFeatures(u)
      PROVE  /\ \A w \in Updates : step'[w] = "inserting" => features' = {}
             /\ (\A w \in Updates : step'[w] # "inserting") => features' = newestFeatures'
  BY <1>0, <1>3 DEF DeleteFeatures, ConfigTypeOK
<1>4. ASSUME NEW u \in Updates, InsertFeatures(u)
      PROVE  /\ \A w \in Updates : step'[w] = "inserting" => features' = {}
             /\ (\A w \in Updates : step'[w] # "inserting") => features' = newestFeatures'
  <2>1. ~overlap /\ ~unfinished /\ u \in Writing /\ Writing' = Writing /\ step[u] = "inserting"
    BY <1>4, WritingStep DEF InsertFeatures
  <2>2. features' = newestFeatures'
    BY <1>0, <1>4, <2>1 DEF InsertFeatures
  <2>3. \A w \in Updates : step'[w] # "inserting"
    <3>1. step'[u] # "inserting"
      BY <1>0, <1>4 DEF InsertFeatures, ConfigTypeOK
    <3>2. \A w \in Writing' : w = u
      BY <1>0, <2>1
    <3> QED
      BY <3>1, <3>2 DEF Writing
  <2> QED
    BY <2>2, <2>3
<1>5. ASSUME NEW u \in Updates, AbortUpdate(u) PROVE FALSE
  BY <1>5 DEF AbortUpdate
<1> QED
  BY <1>1, <1>2, <1>3, <1>4, <1>5 DEF ConfigNext, Serve, Update

\* A statement that changes the configuration overtakes all copies but the writer's.
LEMMA CopyStep == ConfigInv /\ [ConfigNext]_configVars => CopyInv'
<1> SUFFICES ASSUME ConfigInv, [ConfigNext]_configVars, NEW p \in Requests,
                    step'[p] \in CacheRefresh, p \notin stale'
             PROVE  held'[p] = Stored'
  BY DEF CopyInv
<1> USE ConfigAssumption DEF Requests
<1>0. /\ ConfigTypeOK
      /\ step[p] \in CacheRefresh /\ p \notin stale => held[p] = Stored
      /\ p # "cache"
  BY DEF ConfigInv, CopyInv
<1>1. CASE UNCHANGED configVars
  BY <1>0, <1>1 DEF configVars, storeVars, requestVars, configHistory, Stored
<1>2. CASE Expire
  BY <1>0, <1>2 DEF Expire, storeVars, requestVars, Stored
<1>3. ASSUME NEW r \in Readers, GetCached(r) \/ GetExisting(r) PROVE held'[p] = Stored'
  BY <1>0, <1>3 DEF GetCached, GetExisting, CacheRefresh, ConfigTypeOK, Stored, storeVars,
                    configHistory
<1>4. ASSUME NEW r \in Requests, Load(r) \/ ReadUpdated(r) PROVE held'[p] = Stored'
  BY <1>0, <1>4 DEF Load, ReadUpdated, CacheRefresh, ConfigTypeOK, Stored, storeVars,
                    configHistory
<1>5. ASSUME NEW r \in Requests, Fill(r) \/ Refresh(r) PROVE held'[p] = Stored'
  <2>1. p # r /\ step'[p] = step[p] /\ held'[p] = held[p]
    BY <1>0, <1>5 DEF Fill, Refresh, Forget, CacheRefresh, ConfigTypeOK
  <2>2. SetCached(r) /\ Stored' = Stored
    BY <1>5 DEF Fill, Refresh, Stored, storeVars
  <2>3. p \notin stale
    BY <1>0, <2>1, <2>2 DEF SetCached
  <2> QED
    BY <1>0, <2>1, <2>2, <2>3
<1>6. ASSUME NEW u \in Updates, ReadExisting(u) PROVE held'[p] = Stored'
  BY <1>0, <1>6 DEF ReadExisting, CacheRefresh, ConfigTypeOK, Stored, storeVars
<1>7. ASSUME NEW u \in Updates, WriteColumns(u) \/ DeleteFeatures(u) \/ InsertFeatures(u)
      PROVE  FALSE
  <2>1. p # u /\ step'[p] = step[p]
    BY <1>0, <1>7 DEF WriteColumns, DeleteFeatures, InsertFeatures, CacheRefresh, ConfigTypeOK
  <2> QED
    BY <1>7, <2>1 DEF WriteColumns, DeleteFeatures, InsertFeatures, CacheRefresh, Overtaken
<1>8. ASSUME NEW u \in Updates, AbortUpdate(u) PROVE held'[p] = Stored'
  <2>1. p # u /\ step'[p] = step[p] /\ held'[p] = held[p]
    BY <1>0, <1>8 DEF AbortUpdate, Forget, CacheRefresh, ConfigTypeOK
  <2> QED
    BY <1>0, <1>8, <2>1 DEF AbortUpdate, Stored, storeVars
<1> QED
  BY <1>1, <1>2, <1>3, <1>4, <1>5, <1>6, <1>7, <1>8 DEF ConfigNext, Serve, Update

\* An entry gets old while an update is writing, or by a copy that is known to be old.
LEMMA EntryStep == ConfigInv /\ [ConfigNext]_configVars => EntryInv'
<1> SUFFICES ASSUME ConfigInv, [ConfigNext]_configVars, NEW e \in cache', e.value # Stored',
                    ~unfinished', Writing' = {}
             PROVE  "cache" \in stale'
  BY DEF EntryInv
<1> USE ConfigAssumption DEF Requests
<1>0. /\ ConfigTypeOK
      /\ \A d \in cache : d.value # Stored => "cache" \in stale \/ unfinished \/ Writing # {}
      /\ \A p \in Requests : step[p] \in CacheRefresh /\ p \notin stale => held[p] = Stored
  BY DEF ConfigInv, EntryInv, CopyInv
<1>1. CASE UNCHANGED configVars
  BY <1>0, <1>1, ReadersOnly DEF configVars, storeVars, requestVars, configHistory, Stored
<1>2. CASE Expire
  BY <1>2 DEF Expire
<1>3. ASSUME NEW r \in Readers, GetCached(r) \/ GetExisting(r) \/ Load(r) PROVE "cache" \in stale'
  <2>1. Writing' = Writing
    BY <1>3, ReadersOnly
  <2>2. UNCHANGED <<cache, Stored, stale, unfinished>>
    BY <1>3 DEF GetCached, GetExisting, Load, Stored, storeVars, configHistory
  <2> QED
    BY <1>0, <2>1, <2>2
<1>4. ASSUME NEW r \in Requests, Fill(r), r \in Readers PROVE "cache" \in stale'
  <2>1. Writing' = Writing /\ r # "cache"
    BY <1>4, ReadersOnly
  <2>2. SetCached(r) /\ UNCHANGED <<Stored, unfinished>> /\ step[r] \in CacheRefresh
    BY <1>4 DEF Fill, Stored, storeVars, CacheRefresh
  <2>3. CASE cache' = {[value |-> held[r], expires |-> TRUE]}
                /\ stale' = (stale \ {r, "cache"}) \union (IF r \in stale THEN {"cache"} ELSE {})
    <3>1. e.value = held[r]
      BY <2>3
    <3>2. r \in stale
      BY <1>0, <2>2, <3>1
    <3> QED
      BY <2>3, <3>2
  <2>4. CASE UNCHANGED cache
                /\ stale' = (stale \ {r}) \union (IF r \in Updates THEN {"cache"} ELSE {})
    BY <1>0, <2>1, <2>2, <2>4
  <2> QED
    BY <2>2, <2>3, <2>4 DEF SetCached
<1>5. ASSUME NEW u \in Updates, Refresh(u) PROVE "cache" \in stale'
  <2>2. SetCached(u) /\ UNCHANGED <<Stored, unfinished>> /\ step[u] \in CacheRefresh
    BY <1>5 DEF Refresh, Stored, storeVars, CacheRefresh
  <2>3. CASE cache' = {[value |-> held[u], expires |-> TRUE]}
                /\ stale' = (stale \ {u, "cache"}) \union (IF u \in stale THEN {"cache"} ELSE {})
    <3>1. e.value = held[u]
      BY <2>3
    <3>2. u \in stale
      BY <1>0, <2>2, <3>1
    <3> QED
      BY <2>3, <3>2
  <2>4. CASE stale' = (stale \ {u}) \union (IF u \in Updates THEN {"cache"} ELSE {})
    BY <2>4
  <2> QED
    BY <2>2, <2>3, <2>4 DEF SetCached
<1>6. ASSUME NEW u \in Updates, ReadExisting(u) \/ WriteColumns(u) \/ DeleteFeatures(u)
                                  \/ InsertFeatures(u) \/ ReadUpdated(u)
      PROVE  FALSE
  BY <1>6, WritingStep
<1>7. ASSUME NEW u \in Updates, AbortUpdate(u) PROVE FALSE
  BY <1>7 DEF AbortUpdate
<1> QED
  BY <1>1, <1>2, <1>3, <1>4, <1>5, <1>6, <1>7 DEF ConfigNext, Serve, Update

\* The invariant holds at the start, where the row is the one the job has stored.
LEMMA ConfigStart == ConfigInit => ConfigInv
<1> SUFFICES ASSUME ConfigInit PROVE ConfigInv
  OBVIOUS
<1> USE ConfigAssumption DEF ConfigInit, Requests
<1>1. Nothing \in Configs /\ Stored \in Configs
  BY DEF Nothing, Stored, Configs
<1>2. Cardinality({}) <= 1
  BY FS_EmptySet
<1>3. ConfigTypeOK
  <2>1. Cardinality(cache) <= 1 /\ cache \in SUBSET [value : Configs, expires : {TRUE}]
    BY <1>2
  <2>2. held \in [Requests -> Configs] /\ Stored \in Configs
    BY <1>1
  <2>3. overlap \in BOOLEAN /\ unfinished \in BOOLEAN
    OBVIOUS
  <2>4. newest \in [Settings -> Updates \union {Default}]
    OBVIOUS
  <2> QED
    BY <2>1, <2>2, <2>3, <2>4 DEF ConfigTypeOK
<1>4. Writing = {}
  BY DEF Writing
<1> QED
  BY <1>3, <1>4 DEF ConfigInv, ReaderInv, AloneInv, FeaturesInv, CopyInv, EntryInv, CacheRefresh

\* The strengthened invariant of the configuration and its cache is inductive.
THEOREM ConfigInductive == ConfigSpec => []ConfigInv
<1>1. ConfigInv /\ [ConfigNext]_configVars => ConfigInv'
  <2> SUFFICES ASSUME ConfigInv, [ConfigNext]_configVars PROVE ConfigInv'
    OBVIOUS
  <2>1. ConfigTypeOK'
    BY ConfigTypeStep DEF ConfigInv
  <2> QED
    BY <2>1, ReaderStep, AloneStep, FeaturesStep, CopyStep, EntryStep DEF ConfigInv
<1> QED
  BY <1>1, ConfigStart, PTL DEF ConfigSpec

\* The configuration, its features, the entry of the cache and the requests' copies keep
\* to their types.
THEOREM ConfigTypeCorrect == ConfigSpec => []ConfigTypeOK
<1>1. ConfigInv => ConfigTypeOK
  BY DEF ConfigInv
<1> QED
  BY <1>1, ConfigInductive, PTL

\* For any number of columns, updates and readers: an update that meets no other one
\* takes nothing back (PostgresTenantConfigRepository.upsert).
THEOREM SettingsAreKept == ConfigSpec => []SettingsLostToOverlapOnly
<1>1. ConfigInv => SettingsLostToOverlapOnly
  BY DEF ConfigInv, AloneInv, FeaturesInv, SettingsLostToOverlapOnly
<1> QED
  BY <1>1, ConfigInductive, PTL

\* ... and the cache keeps an old configuration only if Redis failed, an update stopped
\* half way or a copy was overtaken (RedisTenantConfigRepository).
THEOREM StalenessHasItsCause == ConfigSpec => []StaleByOverlapOnly
<1>1. ConfigInv => StaleByOverlapOnly
  BY DEF ConfigInv, EntryInv, StaleByOverlapOnly
<1> QED
  BY <1>1, ConfigInductive, PTL

-----------------------------------------------------------------------------
(* TelegramTurns *)

Turns ==
    [message : Messages \union {NoMessage}, replica : Replicas \union {NoTurn.replica},
     token : Nat, state : States \union {"none"}, plan : Plans \union {"none"},
     answer : {"none", "explained", "requested", "handled", "generated"},
     outcome : {"none", "accepted", "failed"}]

TurnsTyped ==
    /\ turn \in [Handlers -> Turns]
    /\ state \in States \union {"none"}
    /\ fresh \in Nat /\ hook \in Nat /\ takeovers \in Nat

\* A turn that holds the conversation as the bot's, and that no person's change has
\* overtaken, is right that no person has it.
ReadInv ==
    \A h \in Handlers :
        turn[h].state = "BOT_ACTIVE" /\ h \notin before => state # "HUMAN_ACTIVE"

TurnInv == TurnsTyped /\ ReadInv

\* The record of a handler that has no message.
LEMMA NoTurnTyped == NoTurn \in Turns /\ NoTurn.state = "none"
BY DEF NoTurn, Turns

LEMMA TurnsTypedStep == TurnsTyped /\ [TelegramNext]_telegramVars => TurnsTyped'
<1> SUFFICES ASSUME TurnsTyped, [TelegramNext]_telegramVars PROVE TurnsTyped'
  OBVIOUS
<1> USE DEF TurnsTyped
<1>1. CASE UNCHANGED telegramVars
  BY <1>1 DEF telegramVars, jobVars, tableVars
<1>2. CASE ProvisionTelegram \/ FailJob
  BY <1>2 DEF ProvisionTelegram, FailJob, WriteSecret, RegisterWebhook, ReadBotLink, RetryJob,
              tableVars
<1>3. ASSUME NEW m \in Messages, Ask(m) PROVE TurnsTyped'
  BY <1>3 DEF Ask, jobVars, tableVars
<1>4. ASSUME NEW h \in Handlers, NEW m \in Messages, Post(h, m) PROVE TurnsTyped'
  <2>1. PICK p \in Replicas :
            turn' = [turn EXCEPT ![h] = [NoTurn EXCEPT !.message = m, !.replica = p,
                                                       !.token = hook]]
    BY <1>4 DEF Post
  <2>2. [NoTurn EXCEPT !.message = m, !.replica = p, !.token = hook] \in Turns
    BY NoTurnTyped DEF Turns
  <2>3. turn' \in [Handlers -> Turns]
    BY <2>1, <2>2
  <2> QED
    BY <1>4, <2>3 DEF Post, jobVars, tableVars
<1>5. ASSUME NEW s \in States, UpdateState(s) PROVE TurnsTyped'
  BY <1>5 DEF UpdateState, jobVars
<1>6. ASSUME NEW h \in Handlers, Close(h) PROVE turn' \in [Handlers -> Turns]
  BY <1>6, NoTurnTyped DEF Close
<1>7. ASSUME NEW h \in Handlers, Resolve(h) PROVE TurnsTyped'
  BY <1>6, <1>7 DEF Resolve, jobVars, tableVars
<1>8. ASSUME NEW h \in Handlers, Report(h) \/ FailTurn(h) PROVE TurnsTyped'
  BY <1>6, <1>8 DEF Report, FailTurn, jobVars, tableVars
<1>9. ASSUME NEW h \in Handlers, GetOrCreate(h) PROVE TurnsTyped'
  <2>1. state' \in States \union {"none"}
    BY <1>9 DEF GetOrCreate, States
  <2>2. turn' \in [Handlers -> Turns]
    BY <1>9, <2>1 DEF GetOrCreate, Turns
  <2> QED
    BY <1>9, <2>1, <2>2 DEF GetOrCreate, jobVars
<1>10. ASSUME NEW h \in Handlers, Plan(h) PROVE TurnsTyped'
  <2>1. turn' \in [Handlers -> Turns]
    BY <1>10 DEF Plan, Turns
  <2> QED
    BY <1>10, <2>1 DEF Plan, jobVars, tableVars
<1>11. ASSUME NEW h \in Handlers, SaveQuestion(h) \/ PersistReply(h) PROVE TurnsTyped'
  BY <1>11 DEF SaveQuestion, PersistReply, jobVars
<1>12. ASSUME NEW h \in Handlers, ApplyHumanRequest(h) PROVE TurnsTyped'
  <2>1. turn' \in [Handlers -> Turns] /\ state' \in States \union {"none"}
    BY <1>12 DEF ApplyHumanRequest, Turns, States
  <2> QED
    BY <1>12, <2>1 DEF ApplyHumanRequest, jobVars
<1>13. ASSUME NEW h \in Handlers, Answer(h) PROVE TurnsTyped'
  <2>1. turn' \in [Handlers -> Turns]
    BY <1>13 DEF Answer, Turns
  <2> QED
    BY <1>13, <2>1 DEF Answer, jobVars, tableVars
<1>14. ASSUME NEW h \in Handlers, Send(h) \/ SendFails(h) PROVE TurnsTyped'
  <2>1. turn' \in [Handlers -> Turns]
    BY <1>14 DEF Send, SendFails, Turns
  <2> QED
    BY <1>14, <2>1 DEF Send, SendFails, jobVars, tableVars
<1>15. ASSUME NEW p \in Replicas, Restart(p) PROVE TurnsTyped'
  <2>1. turn' \in [Handlers -> Turns]
    BY <1>15, NoTurnTyped DEF Restart
  <2> QED
    BY <1>15, <2>1 DEF Restart, jobVars, tableVars
<1> QED
  BY <1>1, <1>2, <1>3, <1>4, <1>5, <1>7, <1>8, <1>9, <1>10, <1>11, <1>12, <1>13, <1>14, <1>15
  DEF TelegramNext, Handle

\* Only a person gives a conversation to a person, and overtakes every turn that has read it.
LEMMA ReadStep == TurnInv /\ [TelegramNext]_telegramVars => ReadInv'
<1> SUFFICES ASSUME TurnsTyped, ReadInv, [TelegramNext]_telegramVars, NEW g \in Handlers,
                    turn'[g].state = "BOT_ACTIVE", g \notin before'
             PROVE  state' # "HUMAN_ACTIVE"
  BY DEF ReadInv, TurnInv
<1>0. turn[g].state = "BOT_ACTIVE" /\ g \notin before => state # "HUMAN_ACTIVE"
  BY DEF ReadInv
<1> USE DEF TurnsTyped
<1>1. CASE UNCHANGED telegramVars
  BY <1>0, <1>1 DEF telegramVars, tableVars
<1>2. CASE ProvisionTelegram \/ FailJob
  BY <1>0, <1>2 DEF ProvisionTelegram, FailJob, WriteSecret, RegisterWebhook, ReadBotLink,
                    RetryJob, tableVars
<1>3. ASSUME NEW m \in Messages, Ask(m) PROVE state' # "HUMAN_ACTIVE"
  BY <1>0, <1>3 DEF Ask, tableVars
<1>4. ASSUME NEW h \in Handlers, NEW m \in Messages, Post(h, m) PROVE state' # "HUMAN_ACTIVE"
  <2>1. PICK p \in Replicas :
            turn' = [turn EXCEPT ![h] = [NoTurn EXCEPT !.message = m, !.replica = p,
                                                       !.token = hook]]
    BY <1>4 DEF Post
  <2>2. [NoTurn EXCEPT !.message = m, !.replica = p, !.token = hook].state = "none"
    BY NoTurnTyped DEF Turns
  <2>3. g # h /\ turn'[g] = turn[g]
    BY <2>1, <2>2
  <2> QED
    BY <1>0, <1>4, <2>3 DEF Post, tableVars
<1>5. ASSUME NEW s \in States, UpdateState(s) PROVE state' # "HUMAN_ACTIVE"
  BY <1>5 DEF UpdateState
<1>6. ASSUME NEW h \in Handlers, Close(h) PROVE turn[g].state = "BOT_ACTIVE" /\ g \notin before
  BY <1>6, NoTurnTyped DEF Close
<1>7. ASSUME NEW h \in Handlers, Resolve(h) PROVE state' # "HUMAN_ACTIVE"
  BY <1>0, <1>6, <1>7 DEF Resolve, tableVars
<1>8. ASSUME NEW h \in Handlers, Report(h) \/ FailTurn(h) PROVE state' # "HUMAN_ACTIVE"
  BY <1>0, <1>6, <1>8 DEF Report, FailTurn, tableVars
<1>9. ASSUME NEW h \in Handlers, GetOrCreate(h) PROVE state' # "HUMAN_ACTIVE"
  <2>1. CASE g = h
    BY <1>9, <2>1 DEF GetOrCreate, Turns
  <2>2. CASE g # h
    <3>1. turn[g].state = "BOT_ACTIVE" /\ g \notin before
      BY <1>9, <2>2 DEF GetOrCreate
    <3> QED
      BY <1>0, <1>9, <3>1 DEF GetOrCreate
  <2> QED
    BY <2>1, <2>2
<1>10. ASSUME NEW h \in Handlers, Plan(h) \/ Answer(h) \/ SaveQuestion(h) \/ PersistReply(h)
                                    \/ Send(h) \/ SendFails(h)
       PROVE  state' # "HUMAN_ACTIVE"
  <2>1. turn'[g].state = turn[g].state
    BY <1>10 DEF Plan, Answer, SaveQuestion, PersistReply, Send, SendFails, Turns
  <2> QED
    BY <1>0, <1>10, <2>1 DEF Plan, Answer, SaveQuestion, PersistReply, Send, SendFails, tableVars
<1>11. ASSUME NEW h \in Handlers, ApplyHumanRequest(h) PROVE state' # "HUMAN_ACTIVE"
  BY <1>0, <1>11 DEF ApplyHumanRequest
<1>12. ASSUME NEW p \in Replicas, Restart(p) PROVE state' # "HUMAN_ACTIVE"
  <2>1. turn'[g] = turn[g] /\ g \notin before
    BY <1>12, NoTurnTyped DEF Restart
  <2> QED
    BY <1>0, <1>12, <2>1 DEF Restart, tableVars
<1> QED
  BY <1>1, <1>2, <1>3, <1>4, <1>5, <1>7, <1>8, <1>9, <1>10, <1>11, <1>12 DEF TelegramNext, Handle

\* However many turns, replicas, repeated updates and failures there are, what a turn holds
\* of a conversation that nobody has touched since is true.
THEOREM TurnsReadTruly == TelegramSpec => []TurnInv
<1>1. TelegramInit => TurnInv
  BY NoTurnTyped DEF TelegramInit, TurnInv, TurnsTyped, ReadInv
<1>2. TurnInv /\ [TelegramNext]_telegramVars => TurnInv'
  BY TurnsTypedStep, ReadStep DEF TurnInv
<1> QED
  BY <1>1, <1>2, PTL DEF TelegramSpec

\* A customer's request takes a conversation from a person only in a turn that had read
\* the state before the person changed it (graph.apply_human_request_state).
THEOREM OperatorsKeepConversations == TelegramSpec => OperatorOverriddenByOverlapOnly
<1> DEFINE Allowed == state = "HUMAN_ACTIVE" /\ state' = "HUMAN_REQUESTED"
                        => \/ takeovers' # takeovers
                           \/ \E h \in before : doing[h] = "routing"
<1>1. TurnInv /\ [TelegramNext]_telegramVars => [Allowed]_telegramVars
  <2> SUFFICES ASSUME TurnsTyped, ReadInv, TelegramNext, state' # state,
                      state = "HUMAN_ACTIVE", state' = "HUMAN_REQUESTED"
               PROVE  takeovers' # takeovers \/ \E h \in before : doing[h] = "routing"
    BY DEF TurnInv
  <2>1. CASE \E s \in States : UpdateState(s)
    BY <2>1 DEF UpdateState, TurnsTyped
  <2>2. ASSUME NEW h \in Handlers, ApplyHumanRequest(h)
        PROVE  \E k \in before : doing[k] = "routing"
    BY <2>2 DEF ApplyHumanRequest, RecordsRequest, Advance, ReadInv
  <2>3. ASSUME NEW h \in Handlers, GetOrCreate(h) PROVE FALSE
    BY <2>3 DEF GetOrCreate
  <2>4. ASSUME NEW h \in Handlers,
               \/ Resolve(h) \/ Plan(h) \/ SaveQuestion(h) \/ Answer(h) \/ PersistReply(h)
               \/ Send(h) \/ Report(h) \/ SendFails(h) \/ FailTurn(h)
        PROVE  FALSE
    BY <2>4 DEF Resolve, Plan, SaveQuestion, Answer, PersistReply, Send, Report, SendFails,
                FailTurn, tableVars
  <2>5. ASSUME \/ ProvisionTelegram \/ FailJob
               \/ \E m \in Messages : Ask(m) \/ \E h \in Handlers : Post(h, m)
               \/ \E p \in Replicas : Restart(p)
        PROVE  FALSE
    BY <2>5 DEF ProvisionTelegram, FailJob, WriteSecret, RegisterWebhook, ReadBotLink, RetryJob,
                Ask, Post, Restart, tableVars
  <2> QED
    BY <2>1, <2>2, <2>3, <2>4, <2>5 DEF TelegramNext, Handle
<1>2. TurnInv /\ [TelegramNext]_telegramVars
        => [state = "HUMAN_ACTIVE" /\ state' = "HUMAN_REQUESTED"
              => \/ takeovers' # takeovers
                 \/ \E h \in before : doing[h] = "routing"]_telegramVars
  BY <1>1
<1> QED
  BY <1>2, TurnsReadTruly, PTL DEF TelegramSpec, OperatorOverriddenByOverlapOnly

-----------------------------------------------------------------------------
(* KnowledgeStore *)

\* A document of the approved profile or of a page as it was analysed, or one that a
\* refresh has stored.
Known(d) ==
    \/ d \in OnboardingDocuments
    \/ d.id[1] \in refreshed /\ d.url = d.id[1] /\ d.source = Runtime

\* What a refresh stores is of its page.
OfPage(d, p) == d.id[1] = p /\ d.url = p /\ d.source = Runtime

\* What a writer has still to do is part of what it stores.
WorkInv ==
    \A w \in Writers :
        /\ unseen[w] \subseteq incoming[w] /\ pending[w] \subseteq incoming[w]
        /\ sources[w] \subseteq {d.source : d \in incoming[w]}
        /\ at[w] \in {"writing", "pruning"} => unseen[w] = {}
        /\ at[w] = "pruning" => pending[w] = {}
        /\ at[w] = "deleting" => unseen[w] = incoming[w]
        /\ at[w] = "idle" => incoming[w] = {}

PageInv ==
    \A t \in Refreshes :
        /\ page[t] \in Pages
        /\ at[t] # "idle" => page[t] \in refreshed
        /\ \A d \in incoming[t] : OfPage(d, page[t])
        /\ \A d, e \in incoming[t] : d.id = e.id => d = e

\* While the job is at work and until it runs again, each of its documents is stored or on
\* its way, unless its page was refreshed.
JobInv ==
    /\ at[Job] # "idle" => ~onboarded /\ incoming[Job] = OnboardingDocuments
    /\ at[Job] \in {"comparing", "writing", "pruning"} \/ onboarded
           => \A d \in OnboardingDocuments :
                  d.url \notin refreshed => d \in rows \union pending[Job] \union unseen[Job]

KnowledgeTyped ==
    /\ at \in [Writers -> {"idle", "deleting", "comparing", "writing", "pruning"}]
    /\ page \in [Refreshes -> Pages]
    /\ DOMAIN incoming = Writers /\ DOMAIN unseen = Writers /\ DOMAIN pending = Writers
    /\ DOMAIN sources = Writers
    /\ refreshed \subseteq Pages
    /\ onboarded \in BOOLEAN

KnowledgeInv ==
    KnowledgeTyped /\ WorkInv /\ PageInv /\ JobInv /\ \A r \in rows : Known(r)

LEMMA FirstIn == \A S : S # {} => First(S) \in S
BY DEF First

LEMMA DocumentFacts ==
    ASSUME NEW owner, NEW source, NEW url, NEW session, NEW v,
           NEW d \in Document(owner, source, url, session, v)
    PROVE  /\ d.id[1] = owner /\ d.source = source /\ d.url = url
           /\ \A e \in Document(owner, source, url, session, v) : e.id = d.id => e = d
BY DEF Document

\* The documents of the profile and of the pages, which their ids tell apart.
LEMMA OnboardingFacts ==
    ASSUME NEW d \in OnboardingDocuments
    PROVE  /\ \/ d.id[1] = Profile /\ d.source = Profile /\ d.url = Home
              \/ d.id[1] \in Pages /\ d.source = d.id[1] /\ d.url = d.id[1]
           /\ \A e \in OnboardingDocuments : e.id = d.id => e = d
<1> DEFINE yes == TRUE
           none == 0
           profile == Document(Profile, Profile, Home, yes, none)
           Analysed(p) == Document(p, p, p, yes, none)
<1>1. OnboardingDocuments = profile \union UNION {Analysed(p) : p \in Pages}
  BY DEF OnboardingDocuments
<1> HIDE DEF yes, none
<1>2. \A e \in profile : /\ e.id[1] = Profile /\ e.source = Profile /\ e.url = Home
                         /\ \A f \in profile : f.id = e.id => f = e
  BY DocumentFacts
<1>3. \A p \in Pages : \A e \in Analysed(p) :
          /\ e.id[1] = p /\ e.source = p /\ e.url = p
          /\ \A f \in Analysed(p) : f.id = e.id => f = e
  BY DocumentFacts
<1>4. Profile \notin Pages
  BY KnowledgeAssumption DEF Profile
<1> HIDE DEF profile, Analysed
<1>5. \A e \in OnboardingDocuments : e \in profile \/ \E p \in Pages : e \in Analysed(p)
  BY <1>1
<1>6. CASE d \in profile
  <2>1. d.id[1] = Profile /\ d.source = Profile /\ d.url = Home
    BY <1>2, <1>6
  <2>2. ASSUME NEW e \in OnboardingDocuments, e.id = d.id PROVE e = d
    <3>1. e.id[1] \notin Pages
      BY <1>4, <2>1, <2>2
    <3>2. e \in profile
      BY <1>3, <1>5, <3>1
    <3> QED
      BY <1>2, <1>6, <2>2, <3>2
  <2> QED
    BY <2>1, <2>2
<1>7. ASSUME NEW p \in Pages, d \in Analysed(p)
      PROVE  /\ d.id[1] = p /\ d.source = p /\ d.url = p
             /\ \A e \in OnboardingDocuments : e.id = d.id => e = d
  <2>1. d.id[1] = p /\ d.source = p /\ d.url = p
    BY <1>3, <1>7
  <2>2. ASSUME NEW e \in OnboardingDocuments, e.id = d.id PROVE e = d
    <3>1. e.id[1] = p
      BY <2>1, <2>2
    <3>2. e \notin profile
      BY <1>2, <1>4, <3>1
    <3>3. PICK q \in Pages : e \in Analysed(q)
      BY <1>5, <3>2
    <3>4. q = p
      BY <1>3, <3>1, <3>3
    <3> QED
      BY <1>3, <1>7, <2>2, <3>3, <3>4
  <2> QED
    BY <2>1, <2>2
<1> QED
  BY <1>5, <1>6, <1>7

\* The documents of a refresh.
LEMMA RuntimeFacts ==
    ASSUME NEW p, NEW v, NEW d \in RuntimeDocuments(p, v)
    PROVE  OfPage(d, p) /\ \A e \in RuntimeDocuments(p, v) : d.id = e.id => d = e
<1> DEFINE no == FALSE
<1>1. RuntimeDocuments(p, v) = Document(p, Runtime, p, no, v)
  BY DEF RuntimeDocuments
<1> HIDE DEF no
<1> QED
  BY <1>1, DocumentFacts DEF OfPage

\* A row that is known and has the id of an onboarding document is that document, unless
\* its page was refreshed.
LEMMA KnownIsDocument ==
    ASSUME refreshed \subseteq Pages,
           NEW d \in OnboardingDocuments, d.url \notin refreshed, NEW r, Known(r), r.id = d.id
    PROVE  r = d
<1>1. Profile \notin Pages
  BY KnowledgeAssumption DEF Profile
<1>2. d.id[1] \notin refreshed
  BY <1>1, OnboardingFacts
<1>3. r \in OnboardingDocuments
  BY <1>2 DEF Known
<1> QED
  BY <1>3, OnboardingFacts

\* Steps that leave what is known alone.
LEMMA KnownStays ==
    ASSUME refreshed \subseteq refreshed', NEW r, Known(r)
    PROVE  Known(r)'
BY DEF Known, OnboardingDocuments, Document, Runtime

\* The job begins: it stores what the analysis read, none of it written yet.
LEMMA BeginJobKeeps ==
    ASSUME KnowledgeInv, BeginJob
    PROVE  KnowledgeInv'
<1>1. /\ at[Job] = "idle" /\ at' = [at EXCEPT ![Job] = "deleting"]
      /\ incoming' = [incoming EXCEPT ![Job] = OnboardingDocuments]
      /\ unseen' = [unseen EXCEPT ![Job] = OnboardingDocuments]
      /\ onboarded' = FALSE
      /\ UNCHANGED <<rows, page, pending, sources, refreshed>>
  BY DEF BeginJob, Begin, Step
<1>2. KnowledgeTyped'
  BY <1>1 DEF KnowledgeInv, KnowledgeTyped, Writers
<1>3. Job \in Writers /\ \A t \in Refreshes : t # Job
  BY KnowledgeAssumption DEF Writers
<1>4. pending[Job] = {} /\ sources[Job] = {}
  BY <1>1, <1>3 DEF KnowledgeInv, WorkInv
<1>5. WorkInv'
  BY <1>1, <1>3, <1>4 DEF KnowledgeInv, WorkInv, KnowledgeTyped
<1>6. PageInv'
  BY <1>1, <1>3 DEF KnowledgeInv, PageInv, OfPage, Runtime, KnowledgeTyped, Writers
<1>7. JobInv'
  <2>1. OnboardingDocuments' = OnboardingDocuments
    BY DEF OnboardingDocuments, Document
  <2>2. incoming'[Job] = OnboardingDocuments /\ at'[Job] = "deleting"
    BY <1>1, <1>3 DEF KnowledgeInv, KnowledgeTyped
  <2> QED
    BY <1>1, <2>1, <2>2 DEF JobInv
<1>8. \A r \in rows' : Known(r)'
  BY <1>1, KnownStays DEF KnowledgeInv
<1> QED
  BY <1>2, <1>5, <1>6, <1>7, <1>8 DEF KnowledgeInv

\* A refresh begins: from now on its page counts as refreshed.
LEMMA BeginRefreshKeeps ==
    ASSUME KnowledgeInv, NEW t \in Refreshes, NEW p \in Pages, BeginRefresh(t, p)
    PROVE  KnowledgeInv'
<1>1. PICK v \in Versions : Begin(t, RuntimeDocuments(p, v))
  BY DEF BeginRefresh
<1> DEFINE documents == RuntimeDocuments(p, v)
<1>2. /\ at[t] = "idle" /\ at' = [at EXCEPT ![t] = "deleting"]
      /\ incoming' = [incoming EXCEPT ![t] = documents]
      /\ unseen' = [unseen EXCEPT ![t] = documents]
      /\ page' = [page EXCEPT ![t] = p]
      /\ refreshed' = refreshed \union {p}
      /\ UNCHANGED <<rows, pending, sources, onboarded>>
  BY <1>1 DEF BeginRefresh, Begin, Step
<1>3. \A d \in documents : OfPage(d, p) /\ \A e \in documents : d.id = e.id => d = e
  BY RuntimeFacts
<1> HIDE DEF documents
<1>4. KnowledgeTyped'
  BY <1>2 DEF KnowledgeInv, KnowledgeTyped, Writers
<1>5. t \in Writers /\ t # Job /\ Refreshes \subseteq Writers /\ Job \in Writers
  BY KnowledgeAssumption DEF Writers
<1>6. pending[t] = {} /\ sources[t] = {}
  BY <1>2, <1>5 DEF KnowledgeInv, WorkInv
<1>7. WorkInv'
  BY <1>2, <1>5, <1>6 DEF KnowledgeInv, WorkInv, KnowledgeTyped
<1>8. PageInv'
  <2> SUFFICES ASSUME NEW u \in Refreshes
               PROVE  /\ page'[u] \in Pages
                      /\ at'[u] # "idle" => page'[u] \in refreshed'
                      /\ \A d \in incoming'[u] : OfPage(d, page'[u])
                      /\ \A d, e \in incoming'[u] : d.id = e.id => d = e
    BY DEF PageInv, OfPage, Runtime
  <2>1. CASE u = t
    BY <1>2, <1>3, <1>5, <2>1 DEF KnowledgeInv, KnowledgeTyped
  <2>2. CASE u # t
    BY <1>2, <1>5, <2>2 DEF KnowledgeInv, PageInv, KnowledgeTyped
  <2> QED
    BY <2>1, <2>2
<1>9. JobInv'
  <2>1. OnboardingDocuments' = OnboardingDocuments
    BY DEF OnboardingDocuments, Document
  <2>2. at'[Job] = at[Job] /\ incoming'[Job] = incoming[Job] /\ unseen'[Job] = unseen[Job]
    BY <1>2, <1>5 DEF KnowledgeInv, KnowledgeTyped
  <2> QED
    BY <1>2, <2>1, <2>2 DEF KnowledgeInv, JobInv
<1>10. \A r \in rows' : Known(r)'
  BY <1>2, KnownStays DEF KnowledgeInv
<1> QED
  BY <1>4, <1>7, <1>8, <1>9, <1>10 DEF KnowledgeInv

\* Statements of any writer that leave alone who is at work, on what, and which pages
\* were refreshed; what they do to the rows and to the job's part of the work is left to
\* show.
LEMMA StatementKeeps ==
    ASSUME KnowledgeInv, NEW w \in Writers,
           at[w] # "idle", NEW l \in {"comparing", "writing", "pruning"},
           at' = [at EXCEPT ![w] = l],
           \A x \in Writers \ {w} : /\ unseen'[x] = unseen[x] /\ pending'[x] = pending[x]
                                    /\ sources'[x] = sources[x],
           DOMAIN unseen' = Writers, DOMAIN pending' = Writers, DOMAIN sources' = Writers,
           unseen'[w] \subseteq incoming[w], pending'[w] \subseteq incoming[w],
           sources'[w] \subseteq {d.source : d \in incoming[w]},
           l \in {"writing", "pruning"} => unseen'[w] = {},
           l = "pruning" => pending'[w] = {},
           UNCHANGED <<incoming, page, refreshed, onboarded>>,
           \A r \in rows' : r \in rows \/ r \in incoming[w],
           w # Job => \A d \in OnboardingDocuments :
                          d.url \notin refreshed /\ d \in rows => d \in rows',
           w = Job => \A d \in OnboardingDocuments :
                          d.url \notin refreshed => d \in rows' \union pending'[w] \union unseen'[w]
    PROVE  KnowledgeInv'
<1>1. KnowledgeTyped'
  BY DEF KnowledgeInv, KnowledgeTyped, Writers
<1>2. WorkInv'
  <2> SUFFICES ASSUME NEW x \in Writers
               PROVE  /\ unseen'[x] \subseteq incoming'[x] /\ pending'[x] \subseteq incoming'[x]
                      /\ sources'[x] \subseteq {d.source : d \in incoming'[x]}
                      /\ at'[x] \in {"writing", "pruning"} => unseen'[x] = {}
                      /\ at'[x] = "pruning" => pending'[x] = {}
                      /\ at'[x] = "deleting" => unseen'[x] = incoming'[x]
                      /\ at'[x] = "idle" => incoming'[x] = {}
    BY DEF WorkInv, Writers
  <2>1. CASE x = w
    BY <2>1 DEF KnowledgeInv, KnowledgeTyped
  <2>2. CASE x # w
    BY <2>2 DEF KnowledgeInv, KnowledgeTyped, WorkInv
  <2> QED
    BY <2>1, <2>2
<1>3. \A t \in Refreshes : at'[t] # "idle" => at[t] # "idle"
  BY DEF KnowledgeInv, KnowledgeTyped, Writers
<1>4. PageInv'
  BY <1>3 DEF KnowledgeInv, PageInv, OfPage, Runtime
<1>5. OnboardingDocuments' = OnboardingDocuments
  BY DEF OnboardingDocuments, Document
<1>6. Job \in Writers
  BY DEF Writers
<1>7. JobInv'
  <2>1. CASE w = Job
    BY <1>5, <1>6, <2>1 DEF KnowledgeInv, KnowledgeTyped, JobInv
  <2>2. CASE w # Job
    <3>1. /\ at'[Job] = at[Job] /\ unseen'[Job] = unseen[Job]
          /\ pending'[Job] = pending[Job]
      BY <1>6, <2>2 DEF KnowledgeInv, KnowledgeTyped
    <3> QED
      BY <1>5, <2>2, <3>1 DEF KnowledgeInv, JobInv
  <2> QED
    BY <2>1, <2>2
<1>8. \A d \in incoming[w] : Known(d)
  <2>1. CASE w = Job
    BY <2>1 DEF KnowledgeInv, JobInv, Known
  <2>2. CASE w \in Refreshes
    BY <2>2 DEF KnowledgeInv, PageInv, OfPage, Known
  <2> QED
    BY <2>1, <2>2 DEF Writers
<1>9. \A r \in rows' : Known(r)'
  BY <1>8, KnownStays DEF KnowledgeInv
<1> QED
  BY <1>1, <1>2, <1>4, <1>7, <1>9 DEF KnowledgeInv

\* The documents that a refresh has at hand are of a page that is not in question.
LEMMA RefreshIsApart ==
    ASSUME KnowledgeInv, NEW t \in Refreshes, at[t] # "idle"
    PROVE  /\ \A d \in OnboardingDocuments : d.url \notin refreshed =>
                  d.url # page[t] /\ d.id[1] # page[t] /\ d.source # Runtime
           /\ \A e \in incoming[t] : e.id[1] = page[t] /\ e.source = Runtime
<1>1. Profile \notin Pages /\ Runtime \notin Pages /\ Profile # Runtime
  BY KnowledgeAssumption DEF Profile, Runtime
<1>2. page[t] \in refreshed /\ page[t] \in Pages
  BY DEF KnowledgeInv, PageInv
<1>3. \A e \in incoming[t] : e.id[1] = page[t] /\ e.source = Runtime
  BY DEF KnowledgeInv, PageInv, OfPage
<1> QED
  BY <1>1, <1>2, <1>3, OnboardingFacts

\* The job's session is cleared; everything has still to be stored.
LEMMA DeleteSessionKeeps ==
    ASSUME KnowledgeInv, DeleteSession
    PROVE  KnowledgeInv'
<1>1. Job \in Writers
  BY DEF Writers
<1>2. at[Job] = "deleting" /\ at' = [at EXCEPT ![Job] = "comparing"]
  BY DEF DeleteSession, Step
<1>3. unseen[Job] = OnboardingDocuments
  BY <1>1, <1>2 DEF KnowledgeInv, WorkInv, JobInv
<1>4. /\ rows' \subseteq rows
      /\ UNCHANGED <<page, incoming, unseen, pending, sources, refreshed, onboarded>>
  BY DEF DeleteSession, knowledgeHistory
<1>5. /\ DOMAIN unseen = Writers /\ DOMAIN pending = Writers /\ DOMAIN sources = Writers
      /\ unseen[Job] \subseteq incoming[Job] /\ pending[Job] \subseteq incoming[Job]
      /\ sources[Job] \subseteq {d.source : d \in incoming[Job]}
  BY <1>1 DEF KnowledgeInv, KnowledgeTyped, WorkInv
<1> QED
  BY <1>1, <1>2, <1>3, <1>4, <1>5, StatementKeeps

\* The rows with the address of a refreshed page go.
LEMMA DeleteUrlKeeps ==
    ASSUME KnowledgeInv, NEW t \in Refreshes, DeleteUrl(t)
    PROVE  KnowledgeInv'
<1>1. t \in Writers /\ t # Job
  BY KnowledgeAssumption DEF Writers
<1>2. at[t] = "deleting" /\ at' = [at EXCEPT ![t] = "comparing"]
  BY DEF DeleteUrl, Step
<1>3. /\ rows' = {r \in rows : r.url # page[t]}
      /\ UNCHANGED <<page, incoming, unseen, pending, sources, refreshed, onboarded>>
  BY DEF DeleteUrl, knowledgeHistory
<1>4. \A d \in OnboardingDocuments : d.url \notin refreshed /\ d \in rows => d \in rows'
  BY <1>2, <1>3, RefreshIsApart
<1>5. /\ DOMAIN unseen = Writers /\ DOMAIN pending = Writers /\ DOMAIN sources = Writers
      /\ unseen[t] \subseteq incoming[t] /\ pending[t] \subseteq incoming[t]
      /\ sources[t] \subseteq {d.source : d \in incoming[t]}
  BY <1>1 DEF KnowledgeInv, KnowledgeTyped, WorkInv
<1> QED
  BY <1>1, <1>2, <1>3, <1>4, <1>5, StatementKeeps

\* A document is skipped only when a row holds the same text under its id; of a page that
\* was not refreshed that row is the document itself.
LEMMA CompareKeeps ==
    ASSUME KnowledgeInv, NEW w \in Writers, Compare(w)
    PROVE  KnowledgeInv'
<1> DEFINE d == First(unseen[w])
           stored == \E r \in rows : r.id = d.id /\ r.version = d.version
<1>1. at[w] = "comparing" /\ d \in unseen[w]
  BY FirstIn DEF Compare
<1>2. /\ unseen' = [unseen EXCEPT ![w] = @ \ {d}]
      /\ pending' = IF stored THEN pending ELSE [pending EXCEPT ![w] = @ \union {d}]
      /\ UNCHANGED <<rows, at, page, incoming, sources, refreshed, onboarded>>
  BY DEF Compare, knowledgeHistory
<1>3. at' = [at EXCEPT ![w] = "comparing"]
  BY <1>1, <1>2 DEF KnowledgeInv, KnowledgeTyped
<1>4. /\ DOMAIN unseen = Writers /\ DOMAIN pending = Writers /\ DOMAIN sources = Writers
      /\ unseen[w] \subseteq incoming[w] /\ pending[w] \subseteq incoming[w]
      /\ sources[w] \subseteq {e.source : e \in incoming[w]}
  BY DEF KnowledgeInv, KnowledgeTyped, WorkInv
<1> HIDE DEF d, stored
<1>5. /\ unseen'[w] = unseen[w] \ {d}
      /\ pending'[w] = IF stored THEN pending[w] ELSE pending[w] \union {d}
      /\ DOMAIN unseen' = Writers /\ DOMAIN pending' = Writers
      /\ \A x \in Writers \ {w} : unseen'[x] = unseen[x] /\ pending'[x] = pending[x]
  BY <1>2, <1>4
<1>6. ASSUME w = Job, NEW e \in OnboardingDocuments, e.url \notin refreshed
      PROVE  e \in rows' \union pending'[w] \union unseen'[w]
  <2>1. e \in rows \union pending[w] \union unseen[w]
    BY <1>1, <1>6 DEF KnowledgeInv, JobInv
  <2>2. CASE e = d /\ stored
    <3>1. PICK r \in rows : r.id = d.id
      BY <2>2 DEF stored
    <3>2. r = e
      BY <1>6, <2>2, <3>1, KnownIsDocument DEF KnowledgeInv, KnowledgeTyped
    <3> QED
      BY <1>2, <3>2
  <2> QED
    BY <1>2, <1>5, <2>1, <2>2
<1>7. unseen'[w] \subseteq incoming[w] /\ pending'[w] \subseteq incoming[w]
  BY <1>1, <1>4, <1>5
<1> QED
  BY <1>1, <1>2, <1>3, <1>4, <1>5, <1>6, <1>7, StatementKeeps

LEMMA EmbedKeeps ==
    ASSUME KnowledgeInv, NEW w \in Writers, Embed(w)
    PROVE  KnowledgeInv'
<1>1. at[w] = "comparing" /\ unseen[w] = {} /\ at' = [at EXCEPT ![w] = "writing"]
  BY DEF Embed, Step
<1>2. UNCHANGED <<rows, page, incoming, unseen, pending, sources, refreshed, onboarded>>
  BY DEF Embed, knowledgeHistory
<1>3. /\ DOMAIN unseen = Writers /\ DOMAIN pending = Writers /\ DOMAIN sources = Writers
      /\ unseen[w] \subseteq incoming[w] /\ pending[w] \subseteq incoming[w]
      /\ sources[w] \subseteq {e.source : e \in incoming[w]}
  BY DEF KnowledgeInv, KnowledgeTyped, WorkInv
<1>4. w = Job => \A d \in OnboardingDocuments :
          d.url \notin refreshed => d \in rows' \union pending'[w] \union unseen'[w]
  BY <1>1, <1>2 DEF KnowledgeInv, JobInv
<1> QED
  BY <1>1, <1>2, <1>3, <1>4, StatementKeeps

\* A row is replaced by the document with its id.
LEMMA WriteKeeps ==
    ASSUME KnowledgeInv, NEW w \in Writers, Write(w)
    PROVE  KnowledgeInv'
<1> DEFINE d == First(pending[w])
<1>1. at[w] = "writing" /\ d \in pending[w] /\ unseen[w] = {}
  BY FirstIn DEF Write, KnowledgeInv, WorkInv
<1>2. /\ rows' = {r \in rows : r.id # d.id} \union {d}
      /\ pending' = [pending EXCEPT ![w] = @ \ {d}]
      /\ UNCHANGED <<at, page, incoming, unseen, sources, refreshed, onboarded>>
  BY DEF Write, knowledgeHistory
<1> HIDE DEF d
<1>3. at' = [at EXCEPT ![w] = "writing"]
  BY <1>1, <1>2 DEF KnowledgeInv, KnowledgeTyped
<1>4. /\ DOMAIN unseen = Writers /\ DOMAIN pending = Writers /\ DOMAIN sources = Writers
      /\ unseen[w] \subseteq incoming[w] /\ pending[w] \subseteq incoming[w]
      /\ sources[w] \subseteq {e.source : e \in incoming[w]}
  BY DEF KnowledgeInv, KnowledgeTyped, WorkInv
<1>5. /\ pending'[w] = pending[w] \ {d} /\ DOMAIN pending' = Writers
      /\ \A x \in Writers \ {w} : pending'[x] = pending[x]
  BY <1>2, <1>4
<1>6. ASSUME w = Job, NEW e \in OnboardingDocuments, e.url \notin refreshed
      PROVE  e \in rows' \union pending'[w] \union unseen'[w]
  <2>1. d \in OnboardingDocuments
    BY <1>1, <1>4, <1>6 DEF KnowledgeInv, JobInv
  <2>2. e \in rows \union pending[w]
    BY <1>1, <1>6 DEF KnowledgeInv, JobInv
  <2>3. e.id = d.id => e = d
    BY <2>1, OnboardingFacts
  <2> QED
    BY <1>2, <1>5, <2>2, <2>3
<1>7. w # Job => \A e \in OnboardingDocuments :
          e.url \notin refreshed /\ e \in rows => e \in rows'
  <2> SUFFICES ASSUME w # Job, NEW e \in OnboardingDocuments, e.url \notin refreshed, e \in rows
               PROVE  e \in rows'
    OBVIOUS
  <2>1. w \in Refreshes
    BY DEF Writers
  <2>2. e.id[1] # page[w] /\ d.id[1] = page[w]
    BY <1>1, <1>4, <2>1, RefreshIsApart
  <2>3. e.id # d.id
    BY <2>2
  <2> QED
    BY <1>2, <2>3
<1>8. /\ pending'[w] \subseteq incoming[w] /\ unseen'[w] = {}
      /\ \A r \in rows' : r \in rows \/ r \in incoming[w]
      /\ \A x \in Writers : unseen'[x] = unseen[x] /\ sources'[x] = sources[x]
      /\ DOMAIN unseen' = Writers /\ DOMAIN sources' = Writers
      /\ unseen'[w] \subseteq incoming[w] /\ sources'[w] \subseteq {e.source : e \in incoming[w]}
  BY <1>1, <1>2, <1>4, <1>5
<1> QED
  BY <1>1, <1>2, <1>3, <1>5, <1>6, <1>7, <1>8, StatementKeeps

LEMMA WrittenKeeps ==
    ASSUME KnowledgeInv, NEW w \in Writers, Written(w)
    PROVE  KnowledgeInv'
<1>1. /\ at[w] = "writing" /\ pending[w] = {} /\ at' = [at EXCEPT ![w] = "pruning"]
      /\ sources' = [sources EXCEPT ![w] = {d.source : d \in incoming[w]}]
      /\ UNCHANGED <<rows, page, incoming, unseen, pending, refreshed, onboarded>>
  BY DEF Written, Step, knowledgeHistory
<1>2. unseen[w] = {}
  BY <1>1 DEF KnowledgeInv, WorkInv
<1>3. /\ DOMAIN unseen = Writers /\ DOMAIN pending = Writers /\ DOMAIN sources = Writers
  BY DEF KnowledgeInv, KnowledgeTyped
<1>4. /\ sources'[w] = {e.source : e \in incoming[w]} /\ DOMAIN sources' = Writers
      /\ \A x \in Writers \ {w} : sources'[x] = sources[x]
  BY <1>1, <1>3
<1>5. w = Job => \A d \in OnboardingDocuments :
          d.url \notin refreshed => d \in rows' \union pending'[w] \union unseen'[w]
  BY <1>1, <1>2 DEF KnowledgeInv, JobInv
<1> QED
  BY <1>1, <1>2, <1>3, <1>4, <1>5, StatementKeeps

\* Old chunks of one source go: the job's own documents are among the incoming ones, and
\* a refresh clears only what refreshes have stored.
LEMMA PruneKeeps ==
    ASSUME KnowledgeInv, NEW w \in Writers, Prune(w)
    PROVE  KnowledgeInv'
<1> DEFINE s == First(sources[w])
<1>1. at[w] = "pruning" /\ s \in sources[w] /\ unseen[w] = {} /\ pending[w] = {}
  BY FirstIn DEF Prune, KnowledgeInv, WorkInv
<1>2. /\ rows' = Remove(w, s)
      /\ sources' = [sources EXCEPT ![w] = @ \ {s}]
      /\ UNCHANGED <<at, page, incoming, unseen, pending, refreshed, onboarded>>
  BY DEF Prune, knowledgeHistory
<1> HIDE DEF s
<1>3. at' = [at EXCEPT ![w] = "pruning"]
  BY <1>1, <1>2 DEF KnowledgeInv, KnowledgeTyped
<1>4. /\ DOMAIN unseen = Writers /\ DOMAIN pending = Writers /\ DOMAIN sources = Writers
      /\ sources[w] \subseteq {e.source : e \in incoming[w]}
  BY DEF KnowledgeInv, KnowledgeTyped, WorkInv
<1>5. /\ sources'[w] = sources[w] \ {s} /\ DOMAIN sources' = Writers
      /\ \A x \in Writers \ {w} : sources'[x] = sources[x]
  BY <1>2, <1>4
<1>6. rows' \subseteq rows /\ \A e \in rows : e.source # s \/ e \in incoming[w] => e \in rows'
  BY <1>2 DEF Remove, Ids
<1>7. ASSUME w = Job, NEW e \in OnboardingDocuments, e.url \notin refreshed
      PROVE  e \in rows' \union pending'[w] \union unseen'[w]
  <2>1. incoming[w] = OnboardingDocuments /\ e \in rows
    BY <1>1, <1>7 DEF KnowledgeInv, JobInv
  <2> QED
    BY <1>6, <2>1
<1>8. w # Job => \A e \in OnboardingDocuments :
          e.url \notin refreshed /\ e \in rows => e \in rows'
  <2> SUFFICES ASSUME w # Job, NEW e \in OnboardingDocuments, e.url \notin refreshed, e \in rows
               PROVE  e \in rows'
    OBVIOUS
  <2>1. w \in Refreshes
    BY DEF Writers
  <2>2. e.source # Runtime /\ s = Runtime
    BY <1>1, <1>4, <2>1, RefreshIsApart
  <2> QED
    BY <1>6, <2>2
<1> QED
  BY <1>1, <1>2, <1>3, <1>4, <1>5, <1>6, <1>7, <1>8, StatementKeeps

\* A writer leaves: what it had at hand is gone. The job may leave as having stored all.
LEMMA LeaveKeeps ==
    ASSUME KnowledgeInv, NEW w \in Writers, Leave(w), UNCHANGED <<rows, refreshed>>,
           onboarded' \in BOOLEAN,
           w # Job => onboarded' = onboarded,
           w = Job /\ onboarded' => \A d \in OnboardingDocuments :
                                        d.url \notin refreshed => d \in rows
    PROVE  KnowledgeInv'
<1>1. /\ at' = [at EXCEPT ![w] = "idle"]
      /\ incoming' = [incoming EXCEPT ![w] = {}]
      /\ unseen' = [unseen EXCEPT ![w] = {}]
      /\ pending' = [pending EXCEPT ![w] = {}]
      /\ sources' = [sources EXCEPT ![w] = {}]
      /\ page' = IF w = Job THEN page ELSE [page EXCEPT ![w] = Home]
  BY DEF Leave, Step
<1>2. Job \in Writers /\ Refreshes \subseteq Writers
  BY DEF Writers
<1>3. KnowledgeTyped'
  BY <1>1, KnowledgeAssumption DEF KnowledgeInv, KnowledgeTyped, Writers
<1>4. \A x \in Writers :
          IF x = w
            THEN /\ at'[x] = "idle" /\ incoming'[x] = {} /\ unseen'[x] = {}
                 /\ pending'[x] = {} /\ sources'[x] = {}
            ELSE /\ at'[x] = at[x] /\ incoming'[x] = incoming[x] /\ unseen'[x] = unseen[x]
                 /\ pending'[x] = pending[x] /\ sources'[x] = sources[x]
  BY <1>1 DEF KnowledgeInv, KnowledgeTyped
<1>5. \A t \in Refreshes : page'[t] = IF t = w THEN Home ELSE page[t]
  BY <1>1, KnowledgeAssumption DEF KnowledgeInv, KnowledgeTyped
<1>6. WorkInv'
  <2> SUFFICES ASSUME NEW x \in Writers
               PROVE  /\ unseen'[x] \subseteq incoming'[x] /\ pending'[x] \subseteq incoming'[x]
                      /\ sources'[x] \subseteq {d.source : d \in incoming'[x]}
                      /\ at'[x] \in {"writing", "pruning"} => unseen'[x] = {}
                      /\ at'[x] = "pruning" => pending'[x] = {}
                      /\ at'[x] = "deleting" => unseen'[x] = incoming'[x]
                      /\ at'[x] = "idle" => incoming'[x] = {}
    BY DEF WorkInv, Writers
  <2>1. CASE x = w
    BY <1>4, <2>1
  <2>2. CASE x # w
    BY <1>4, <2>2 DEF KnowledgeInv, WorkInv
  <2> QED
    BY <2>1, <2>2
<1>7. PageInv'
  <2> SUFFICES ASSUME NEW u \in Refreshes
               PROVE  /\ page'[u] \in Pages
                      /\ at'[u] # "idle" => page'[u] \in refreshed'
                      /\ \A d \in incoming'[u] : OfPage(d, page'[u])
                      /\ \A d, e \in incoming'[u] : d.id = e.id => d = e
    BY DEF PageInv, OfPage, Runtime
  <2>1. CASE u = w
    BY <1>2, <1>4, <1>5, <2>1, KnowledgeAssumption
  <2>2. CASE u # w
    BY <1>2, <1>4, <1>5, <2>2 DEF KnowledgeInv, PageInv
  <2> QED
    BY <2>1, <2>2
<1>8. OnboardingDocuments' = OnboardingDocuments
  BY DEF OnboardingDocuments, Document
<1>9. JobInv'
  <2>1. CASE w = Job
    BY <1>2, <1>4, <1>8, <2>1 DEF JobInv
  <2>2. CASE w # Job
    <3>1. /\ at'[Job] = at[Job] /\ unseen'[Job] = unseen[Job] /\ pending'[Job] = pending[Job]
          /\ incoming'[Job] = incoming[Job]
      BY <1>2, <1>4, <2>2
    <3> QED
      BY <1>8, <2>2, <3>1 DEF KnowledgeInv, JobInv
  <2> QED
    BY <2>1, <2>2
<1>10. \A r \in rows' : Known(r)'
  BY KnownStays DEF KnowledgeInv
<1> QED
  BY <1>3, <1>6, <1>7, <1>9, <1>10 DEF KnowledgeInv

LEMMA FinishKeeps ==
    ASSUME KnowledgeInv, NEW w \in Writers, Finish(w)
    PROVE  KnowledgeInv'
<1>1. /\ at[w] = "pruning" /\ Leave(w) /\ UNCHANGED <<rows, refreshed>>
      /\ onboarded' = (onboarded \/ w = Job)
  BY DEF Finish
<1>2. pending[w] = {} /\ unseen[w] = {}
  BY <1>1 DEF KnowledgeInv, WorkInv
<1>3. w = Job => \A d \in OnboardingDocuments : d.url \notin refreshed => d \in rows
  BY <1>1, <1>2 DEF KnowledgeInv, JobInv
<1>4. onboarded' \in BOOLEAN /\ (w # Job => onboarded' = onboarded)
  BY <1>1 DEF KnowledgeInv, KnowledgeTyped
<1> QED
  BY <1>1, <1>3, <1>4, LeaveKeeps

LEMMA AbandonKeeps ==
    ASSUME KnowledgeInv, NEW w \in Writers, Abandon(w)
    PROVE  KnowledgeInv'
<1>1. at[w] # "idle" /\ Leave(w) /\ UNCHANGED <<rows, refreshed, onboarded>>
  BY DEF Abandon, Active
<1>2. onboarded \in BOOLEAN /\ (w = Job => ~onboarded)
  BY <1>1 DEF KnowledgeInv, KnowledgeTyped, JobInv
<1> QED
  BY <1>1, <1>2, LeaveKeeps

\* The invariant of the knowledge store.
THEOREM KnowledgeInductive == KnowledgeSpec => []KnowledgeInv
<1>1. KnowledgeInit => KnowledgeInv
  BY KnowledgeAssumption
     DEF KnowledgeInit, KnowledgeInv, KnowledgeTyped, WorkInv, PageInv, JobInv, Writers
<1>2. KnowledgeInv /\ [KnowledgeNext]_knowledgeVars => KnowledgeInv'
  <2> SUFFICES ASSUME KnowledgeInv, [KnowledgeNext]_knowledgeVars PROVE KnowledgeInv'
    OBVIOUS
  <2>1. CASE UNCHANGED knowledgeVars
    BY <2>1 DEF knowledgeVars, writerVars, knowledgeHistory, KnowledgeInv, KnowledgeTyped,
                WorkInv, PageInv, JobInv, OfPage, Known, OnboardingDocuments, Document,
                Runtime, Writers
  <2>2. CASE BeginJob \/ DeleteSession
    BY <2>2, BeginJobKeeps, DeleteSessionKeeps
  <2>3. ASSUME NEW t \in Refreshes, DeleteUrl(t) \/ \E p \in Pages : BeginRefresh(t, p)
        PROVE  KnowledgeInv'
    BY <2>3, DeleteUrlKeeps, BeginRefreshKeeps
  <2>4. ASSUME NEW w \in Writers,
               \/ Compare(w) \/ Embed(w) \/ Write(w) \/ Written(w) \/ Prune(w)
               \/ Finish(w) \/ Abandon(w)
        PROVE  KnowledgeInv'
    BY <2>4, CompareKeeps, EmbedKeeps, WriteKeeps, WrittenKeeps, PruneKeeps, FinishKeeps,
       AbandonKeeps
  <2> QED
    BY <2>1, <2>2, <2>3, <2>4 DEF KnowledgeNext
<1> QED
  BY <1>1, <1>2, PTL DEF KnowledgeSpec

\* What the onboarding job stored stays retrievable, whatever retries, refreshes and
\* failures follow, unless its address has been refreshed (OnboardedKnowledgeStays).
THEOREM OnboardingSurvives == KnowledgeSpec => []OnboardedKnowledgeStays
<1>1. KnowledgeInv => OnboardedKnowledgeStays
  <2> SUFFICES ASSUME KnowledgeInv, onboarded PROVE OnboardedKnowledgeStays
    BY DEF OnboardedKnowledgeStays
  <2>1. at[Job] = "idle"
    BY DEF KnowledgeInv, JobInv
  <2>2. pending[Job] = {} /\ unseen[Job] = {}
    BY <2>1 DEF KnowledgeInv, WorkInv, Writers
  <2> QED
    BY <2>2 DEF KnowledgeInv, JobInv, OnboardedKnowledgeStays
<1> QED
  BY <1>1, KnowledgeInductive, PTL

\* The rows of a page, the profile being a page of its own here.
RowsOf(p) == {r \in rows : r.id[1] = p}

\* A refresh that nobody overlapped has emptied its page, then stores what it found there
\* document by document, and has the rest of the page's rows to clear.
SoleInv ==
    /\ \A t \in alone : /\ t \in Writers /\ at[t] # "idle"
                        /\ \A x \in Writers : at[x] # "idle" => x = t
    /\ \A t \in alone \ {Job} :
          /\ at[t] = "comparing" => /\ RowsOf(page[t]) = {}
                                    /\ incoming[t] = pending[t] \union unseen[t]
          /\ at[t] = "writing" => RowsOf(page[t]) = incoming[t] \ pending[t]
          /\ at[t] = "pruning" => RowsOf(page[t]) = incoming[t]

ReplacedInv ==
    /\ replaced # {} => \A x \in Writers : at[x] = "idle"
    /\ RefreshReplacesPage

\* A writer begins: it is alone when no other is at work, and nothing counts as replaced.
LEMMA BeginReplaces ==
    ASSUME KnowledgeInv, SoleInv, NEW w \in Writers, NEW documents, Begin(w, documents)
    PROVE  SoleInv' /\ ReplacedInv'
<1>1. /\ at[w] = "idle" /\ at' = [at EXCEPT ![w] = "deleting"]
      /\ alone' = IF Active = {} THEN {w} ELSE {}
      /\ replaced' = {}
  BY DEF Begin, Step
<1>2. \A t \in alone' : t = w /\ \A x \in Writers : at[x] = "idle"
  BY <1>1 DEF Active
<1>3. at'[w] = "deleting" /\ \A x \in Writers \ {w} : at'[x] = at[x]
  BY <1>1 DEF KnowledgeInv, KnowledgeTyped
<1>4. SoleInv'
  BY <1>2, <1>3 DEF SoleInv, Writers
<1> QED
  BY <1>1, <1>4 DEF ReplacedInv, RefreshReplacesPage

\* The statements of one writer: when a refresh is alone, the statement is its own.
LEMMA StatementReplaces ==
    ASSUME KnowledgeInv, SoleInv, ReplacedInv, NEW w \in Writers, at[w] # "idle",
           NEW l \in {"comparing", "writing", "pruning"}, at' = [at EXCEPT ![w] = l],
           UNCHANGED <<alone, replaced>>,
           w \in alone \ {Job} =>
               /\ l = "comparing" => /\ RowsOf(page[w])' = {}
                                     /\ incoming'[w] = pending'[w] \union unseen'[w]
               /\ l = "writing" => RowsOf(page[w])' = incoming'[w] \ pending'[w]
               /\ l = "pruning" => RowsOf(page[w])' = incoming'[w]
    PROVE  SoleInv' /\ ReplacedInv'
<1>1. at'[w] = l /\ \A x \in Writers \ {w} : at'[x] = at[x]
  BY DEF KnowledgeInv, KnowledgeTyped
<1>2. \A t \in alone : t = w
  BY DEF SoleInv
<1>3. SoleInv'
  BY <1>1, <1>2 DEF SoleInv, Writers, RowsOf
<1>4. replaced = {}
  BY DEF ReplacedInv
<1> QED
  BY <1>3, <1>4 DEF ReplacedInv, RefreshReplacesPage

\* A row of a page, known as it is, has the page's address.
LEMMA RowHasAddress ==
    ASSUME KnowledgeInv, NEW p \in Pages, NEW r \in RowsOf(p)
    PROVE  r.url = p
<1>1. Profile \notin Pages
  BY KnowledgeAssumption DEF Profile
<1>2. Known(r) /\ r.id[1] = p
  BY DEF KnowledgeInv, RowsOf
<1> QED
  BY <1>1, <1>2, OnboardingFacts DEF Known

LEMMA DeletesReplace ==
    ASSUME KnowledgeInv, SoleInv, ReplacedInv,
           DeleteSession \/ \E t \in Refreshes : DeleteUrl(t)
    PROVE  SoleInv' /\ ReplacedInv'
<1>1. CASE DeleteSession
  <2>1. /\ at[Job] = "deleting" /\ at' = [at EXCEPT ![Job] = "comparing"]
        /\ UNCHANGED <<alone, replaced>>
    BY <1>1 DEF DeleteSession, Step, knowledgeHistory
  <2> QED
    BY <2>1, StatementReplaces DEF Writers
<1>2. ASSUME NEW t \in Refreshes, DeleteUrl(t)
      PROVE  SoleInv' /\ ReplacedInv'
  <2>1. /\ at[t] = "deleting" /\ at' = [at EXCEPT ![t] = "comparing"]
        /\ rows' = {r \in rows : r.url # page[t]}
        /\ UNCHANGED <<page, incoming, unseen, pending, alone, replaced>>
    BY <1>2 DEF DeleteUrl, Step, knowledgeHistory
  <2>2. /\ page[t] \in Pages /\ unseen[t] = incoming[t] /\ pending[t] \subseteq incoming[t]
    BY <2>1 DEF KnowledgeInv, PageInv, WorkInv, Writers
  <2>3. RowsOf(page[t])' = {}
    BY <2>1, <2>2, RowHasAddress DEF RowsOf
  <2>4. incoming'[t] = pending'[t] \union unseen'[t]
    BY <2>1, <2>2
  <2> QED
    BY <2>1, <2>3, <2>4, StatementReplaces DEF Writers
<1> QED
  BY <1>1, <1>2

\* Nothing is skipped: the page is empty, and the store holds no row with such an id.
LEMMA CompareReplaces ==
    ASSUME KnowledgeInv, SoleInv, ReplacedInv, NEW w \in Writers, Compare(w)
    PROVE  SoleInv' /\ ReplacedInv'
<1> DEFINE d == First(unseen[w])
           stored == \E r \in rows : r.id = d.id /\ r.version = d.version
<1>1. at[w] = "comparing" /\ d \in unseen[w]
  BY FirstIn DEF Compare
<1>2. /\ unseen' = [unseen EXCEPT ![w] = @ \ {d}]
      /\ pending' = IF stored THEN pending ELSE [pending EXCEPT ![w] = @ \union {d}]
      /\ UNCHANGED <<rows, at, page, incoming, alone, replaced>>
  BY DEF Compare, knowledgeHistory
<1> HIDE DEF d
<1>3. at' = [at EXCEPT ![w] = "comparing"]
  BY <1>1, <1>2 DEF KnowledgeInv, KnowledgeTyped
<1>4. ASSUME w \in alone \ {Job}
      PROVE  RowsOf(page[w])' = {} /\ incoming'[w] = pending'[w] \union unseen'[w]
  <2>1. RowsOf(page[w]) = {} /\ incoming[w] = pending[w] \union unseen[w]
    BY <1>1, <1>4 DEF SoleInv
  <2>2. d.id[1] = page[w]
    BY <1>1, <1>4, <2>1, RefreshIsApart DEF Writers
  <2>3. ~stored
    BY <2>1, <2>2 DEF RowsOf
  <2>4. pending'[w] = pending[w] \union {d} /\ unseen'[w] = unseen[w] \ {d}
    BY <1>2, <2>3 DEF KnowledgeInv, KnowledgeTyped
  <2> QED
    BY <1>1, <1>2, <2>1, <2>4 DEF RowsOf
<1> QED
  BY <1>1, <1>2, <1>3, <1>4, StatementReplaces

LEMMA EmbedReplaces ==
    ASSUME KnowledgeInv, SoleInv, ReplacedInv, NEW w \in Writers, Embed(w)
    PROVE  SoleInv' /\ ReplacedInv'
<1>1. /\ at[w] = "comparing" /\ unseen[w] = {} /\ at' = [at EXCEPT ![w] = "writing"]
      /\ UNCHANGED <<rows, page, incoming, pending, alone, replaced>>
  BY DEF Embed, Step, knowledgeHistory
<1>2. w \in alone \ {Job} => RowsOf(page[w]) = {} /\ incoming[w] = pending[w]
  BY <1>1 DEF SoleInv
<1>3. w \in alone \ {Job} => RowsOf(page[w])' = incoming'[w] \ pending'[w]
  BY <1>1, <1>2 DEF RowsOf
<1> QED
  BY <1>1, <1>3, StatementReplaces

LEMMA WriteReplaces ==
    ASSUME KnowledgeInv, SoleInv, ReplacedInv, NEW w \in Writers, Write(w)
    PROVE  SoleInv' /\ ReplacedInv'
<1> DEFINE d == First(pending[w])
<1>1. at[w] = "writing" /\ d \in pending[w]
  BY FirstIn DEF Write
<1>2. /\ rows' = {r \in rows : r.id # d.id} \union {d}
      /\ pending' = [pending EXCEPT ![w] = @ \ {d}]
      /\ UNCHANGED <<at, page, incoming, alone, replaced>>
  BY DEF Write, knowledgeHistory
<1> HIDE DEF d
<1>3. at' = [at EXCEPT ![w] = "writing"]
  BY <1>1, <1>2 DEF KnowledgeInv, KnowledgeTyped
<1>4. ASSUME w \in alone \ {Job}
      PROVE  RowsOf(page[w])' = incoming'[w] \ pending'[w]
  <2>1. RowsOf(page[w]) = incoming[w] \ pending[w]
    BY <1>1, <1>4 DEF SoleInv
  <2>2. w \in Refreshes /\ d \in incoming[w]
    BY <1>1, <1>4 DEF Writers, KnowledgeInv, WorkInv
  <2>3. /\ d.id[1] = page[w]
        /\ \A e \in incoming[w] : e.id = d.id => e = d
    BY <1>1, <2>2, RefreshIsApart DEF KnowledgeInv, PageInv
  <2>4. pending'[w] = pending[w] \ {d}
    BY <1>2 DEF KnowledgeInv, KnowledgeTyped
  <2>5. RowsOf(page[w])' = {r \in RowsOf(page[w]) : r.id # d.id} \union {d}
    BY <1>2, <2>3 DEF RowsOf
  <2>6. {r \in RowsOf(page[w]) : r.id # d.id} = RowsOf(page[w])
    BY <1>1, <2>1, <2>3
  <2> QED
    BY <1>2, <2>1, <2>2, <2>4, <2>5, <2>6
<1> QED
  BY <1>1, <1>2, <1>3, <1>4, StatementReplaces

LEMMA WrittenReplaces ==
    ASSUME KnowledgeInv, SoleInv, ReplacedInv, NEW w \in Writers, Written(w)
    PROVE  SoleInv' /\ ReplacedInv'
<1>1. /\ at[w] = "writing" /\ pending[w] = {} /\ at' = [at EXCEPT ![w] = "pruning"]
      /\ UNCHANGED <<rows, page, incoming, alone, replaced>>
  BY DEF Written, Step, knowledgeHistory
<1>2. w \in alone \ {Job} => RowsOf(page[w]) = incoming[w]
  BY <1>1 DEF SoleInv
<1>3. w \in alone \ {Job} => RowsOf(page[w])' = incoming'[w]
  BY <1>1, <1>2 DEF RowsOf
<1> QED
  BY <1>1, <1>3, StatementReplaces

LEMMA PruneReplaces ==
    ASSUME KnowledgeInv, SoleInv, ReplacedInv, NEW w \in Writers, Prune(w)
    PROVE  SoleInv' /\ ReplacedInv'
<1> DEFINE s == First(sources[w])
<1>1. /\ at[w] = "pruning" /\ rows' = Remove(w, s)
      /\ UNCHANGED <<at, page, incoming, alone, replaced>>
  BY DEF Prune, knowledgeHistory
<1>2. at' = [at EXCEPT ![w] = "pruning"]
  BY <1>1 DEF KnowledgeInv, KnowledgeTyped
<1> HIDE DEF s
<1>3. ASSUME w \in alone \ {Job} PROVE RowsOf(page[w])' = incoming'[w]
  <2>1. RowsOf(page[w]) = incoming[w]
    BY <1>1, <1>3 DEF SoleInv
  <2>2. rows' \subseteq rows /\ \A r \in rows : r \in incoming[w] => r \in rows'
    BY <1>1 DEF Remove, Ids
  <2> QED
    BY <1>1, <2>1, <2>2 DEF RowsOf
<1> QED
  BY <1>1, <1>2, <1>3, StatementReplaces

\* A writer leaves; a refresh that was alone all the while leaves its page replaced.
LEMMA LeaveReplaces ==
    ASSUME KnowledgeInv, SoleInv, ReplacedInv, NEW w \in Writers, Finish(w) \/ Abandon(w)
    PROVE  SoleInv' /\ ReplacedInv'
<1>1. /\ at[w] # "idle" /\ at' = [at EXCEPT ![w] = "idle"] /\ alone' = alone \ {w}
      /\ UNCHANGED rows
  BY DEF Finish, Abandon, Leave, Step, Active
<1>2. \A t \in alone : t = w
  BY <1>1 DEF SoleInv
<1>3. SoleInv'
  BY <1>1, <1>2 DEF SoleInv
<1>4. at'[w] = "idle" /\ \A x \in Writers \ {w} : at'[x] = at[x]
  BY <1>1 DEF KnowledgeInv, KnowledgeTyped
<1>5. replaced = {}
  BY <1>1 DEF ReplacedInv
<1>6. CASE replaced' = {}
  BY <1>3, <1>6 DEF ReplacedInv, RefreshReplacesPage
<1>7. CASE replaced' # {}
  <2>1. /\ at[w] = "pruning" /\ w \in alone \ {Job} /\ replaced' = incoming[w]
    BY <1>5, <1>7 DEF Finish, Abandon
  <2>2. RowsOf(page[w]) = incoming[w]
    BY <2>1 DEF SoleInv
  <2>3. \A d \in incoming[w] : d.id[1] = page[w]
    BY <2>1, RefreshIsApart DEF Writers
  <2>4. RefreshReplacesPage'
    BY <1>1, <2>1, <2>2, <2>3 DEF RefreshReplacesPage, RowsOf
  <2>5. \A x \in Writers : at'[x] = "idle"
    BY <1>4, <2>1 DEF SoleInv
  <2> QED
    BY <1>3, <2>4, <2>5 DEF ReplacedInv, Writers
<1> QED
  BY <1>6, <1>7

\* A refresh that no other writer overlaps leaves of its page what it found there and
\* nothing else (RefreshReplacesPage).
THEOREM RefreshLeavesOneText == KnowledgeSpec => []RefreshReplacesPage
<1>1. KnowledgeInit => SoleInv /\ ReplacedInv
  BY DEF KnowledgeInit, SoleInv, ReplacedInv, RefreshReplacesPage
<1>2. KnowledgeInv /\ SoleInv /\ ReplacedInv /\ [KnowledgeNext]_knowledgeVars
          => SoleInv' /\ ReplacedInv'
  <2> SUFFICES ASSUME KnowledgeInv, SoleInv, ReplacedInv, [KnowledgeNext]_knowledgeVars
               PROVE  SoleInv' /\ ReplacedInv'
    OBVIOUS
  <2>1. CASE UNCHANGED knowledgeVars
    BY <2>1 DEF knowledgeVars, writerVars, knowledgeHistory, SoleInv, ReplacedInv,
                RefreshReplacesPage, RowsOf, Writers
  <2>2. CASE BeginJob
    BY <2>2, BeginReplaces DEF BeginJob, Writers
  <2>3. CASE DeleteSession
    BY <2>3, DeletesReplace
  <2>4. ASSUME NEW t \in Refreshes, DeleteUrl(t) \/ \E p \in Pages : BeginRefresh(t, p)
        PROVE  SoleInv' /\ ReplacedInv'
    <3>1. CASE DeleteUrl(t)
      BY <3>1, DeletesReplace
    <3>2. ASSUME NEW p \in Pages, BeginRefresh(t, p) PROVE SoleInv' /\ ReplacedInv'
      BY <3>2, BeginReplaces DEF BeginRefresh, Writers
    <3> QED
      BY <2>4, <3>1, <3>2
  <2>5. ASSUME NEW w \in Writers,
               \/ Compare(w) \/ Embed(w) \/ Write(w) \/ Written(w) \/ Prune(w)
               \/ Finish(w) \/ Abandon(w)
        PROVE  SoleInv' /\ ReplacedInv'
    BY <2>5, CompareReplaces, EmbedReplaces, WriteReplaces, WrittenReplaces, PruneReplaces,
       LeaveReplaces
  <2> QED
    BY <2>1, <2>2, <2>3, <2>4, <2>5 DEF KnowledgeNext
<1>3. ReplacedInv => RefreshReplacesPage
  BY DEF ReplacedInv
<1> QED
  BY <1>1, <1>2, <1>3, KnowledgeInductive, PTL DEF KnowledgeSpec
=============================================================================
