# Formal models of the customer-service agent

TLA+ models of the parts of this repository that are hard to test: work that several
replicas, requests and background tasks do at once on one PostgreSQL database, with
providers that fail, locks that get lost and processes that end anywhere. TLC checks
small instances; TLAPS proves the main safety properties for every value of the
constants. `PROJECT.json` maps each definition to the lines it stands for.

## The system

Customers write over WhatsApp, Telegram or the API; each message runs a graph (plan,
retrieve, answer, persist) and the reply goes back over the channel. Conversations are
summarised into issues by a queue. Businesses onboard themselves: a session collects and
verifies their data, a provisioning job creates the tenant and activates its channel.
Several replicas run the same process (`replicaCount: 2` in
`helm/customer-service/values-production.yaml`) and share PostgreSQL, Redis, OpenBao and
the providers; nothing else coordinates them.

| Component | State | Operations | What is hard | What makes it correct | Module |
|---|---|---|---|---|---|
| Issue processing (`app/issues.py`, `app/adapters/issues.py`) | message rows with sequence numbers, delivery and progress; issue row with version and embedding; pgqueuer jobs; advisory lock | save, enqueue, deliver, claim, snapshot, complete, embed, publish, finish, retry, hold, replay, initialize | retries and recoveries that overlap, lost locks, starting replicas, tables of an older version | turns folded once and in order, embedding catches up, nobody is parked for ever | `IssueProcessing`, `IssueChain` |
| WhatsApp delivery (`app/main.py`, `app/whatsapp_connections.py`) | receipts, pauses, deliveries, delivery lock, connection pool | webhook post, claim, answer, lock, recheck, send, record | redelivery, a human answering meanwhile, doubtful sends, pool exhaustion | one reply at most, silence in paused chats, truthful records | `WhatsAppDelivery`, `CustomerReplies` |
| Coexistence (`app/whatsapp_coexistence.py`) | imported messages, paused chats | echo, history, import at activation | order of history, echo, live message and activation | archives are never answered | `WhatsAppDelivery` |
| Onboarding jobs (`app/onboarding_jobs.py`) | job rows, tenants, connections, provisioning lock | create, submit, retry, run, activate, fail | runs of one job or one slug overlap, failures at any statement, stale row copies | one owner per tenant, activation atomic with success | `OnboardingJobs`, `TenantProvisioning` |
| WhatsApp signup (`app/whatsapp_signup.py`) | attempts, preferences, connection row, credentials | start, complete, cancel, connect | cancelled and superseded attempts, resumed steps, races with activation | one live attempt, frozen preferences, no step skipped or repeated | `WhatsAppSignup`, `NumberConnection` |
| Onboarding sessions (`app/onboarding_sessions.py`) | verification columns, website, draft, setup link | send and verify codes, save website, analyse, update, set up Telegram, submit | whole drafts written back, limits of attempts, resends, late codes | a code works once, and for another website only if its sending overlapped the change | `OnboardingSessions` |
| Media archive (`app/media_archive.py`, `app/adapters/google_drive.py`) | attachments, pgqueuer jobs, advisory lock, drive connection, folders, upload sessions | consent, import, claim, transfer in durable steps, replay, disconnect, requeue | attempts that stop between two steps, overlapping executions, lost locks, a user who changes the drive | created once, complete means intact, no job lost, everything recoverable completes | `MediaArchive`, `ArchivedMedia` |
| Tenant configuration (`PostgresTenantConfigRepository`, `app/adapters/tenant_cache.py`) | configuration row, feature rows, Redis entry | get, get_existing, upsert | whole rows written back, stale fills, a Redis that fails | staleness and lost settings have a cause and an end | `TenantConfigs` |
| Knowledge (`PgVectorRetrievalStore`, `app/knowledge.py`) | chunks by address and index | store by the job, store again by its retry, refresh by the graph | statement by statement writes of one page by several writers | a refreshed page has no old chunks, onboarding's knowledge stays | `KnowledgeStore` |
| Conversation graph, Telegram (`app/graph.py`, `app/adapters/telegram.py`, `app/main.py`) | conversation state, messages, the bot's Secret and each replica's copy | webhook update, plan, request a human, answer, persist, send, operator's update | repeated updates, failures anywhere, stale state, a replaced secret | every message is answered, a person keeps a conversation | `TelegramTurns` |
| Session stores (`app/adapters/memory.py`, `PostgresOnboardingRepository`) | one session as an object and as a row | all 20 calls of `OnboardingRepository` on a session | two implementations of one contract, tests on the one, production on the other | both answer the same | `SessionStores` |
| Browser recovery (`app/api/browser_recovery.py`) | recovery challenges, cookies | send, verify | attempts, expiry | a code restores one session | not modelled |
| Credential store (`app/adapters/credential_store.py`) | cached token | authenticate, invalidate, read, write | concurrent renewal | a fresh token is not thrown away | not modelled |

Language model prompts, provider clients, text chunking, emails, the web client and the
deployment files keep no state of their own between calls and are not modelled;
`PROJECT.json` gives the reason for each.

## Modules

**IssueProcessing** models one conversation. A turn is a customer message with its reply;
`saved`, `replySeq` and `delivered` are columns of `messages`, `job` is the pgqueuer row
(far-future eligibility is `parked`), `processed`, `linked` and `completed` are the progress
columns, `issue` the version, last turn and embedding version of the issue row. An execution is
a worker with `pc`, its turn and its snapshot; `lock` is the processing lock. Each action is
one transaction or one statement of `snapshot`, `complete`, `embedding_target`, `publish`,
`finish`; `Fail`, `Crash`, `LoseLock`, `Recover` and `Replay` happen between any two.
`Initialize` is a replica's start, one transaction and one action: its ALTER TABLE holds
`messages` in ACCESS EXCLUSIVE mode until the commit, so it waits for an enqueue in progress and
nothing that writes messages comes between its statements. `OlderTables` describes what a version
without `issue_completed_at` may have left; that version is not in the repository, and the model
takes what it did from the repair in `initialize` and its comments.

**IssueChain** is what the component promises: turns arrive, the oldest unfinished turn is
folded, the embedding catches up, the turn is finished. `ImplementsChain` maps the tables
to it and TLC and TLAPS show that every step is a step of the chain or a stutter.

**WhatsAppDelivery** models one business number. A handler is a request of `whatsapp_webhook`;
its `pc` moves from statement to statement. `lock` is the advisory delivery lock;
`Query` says that a statement needs a connection of the pool, of which each request that
waits for the lock or has it keeps one. `Echo`, `History` and `Activate` are the transactions of
`handle_coexistence` and `activate`. The graph is the one step `Answer`; credentials are read
from the credential store and the connection table. Media of `messages` changes has no part in
replies and is left out, and with it the short use of the lock it makes when archiving is on.

**CustomerReplies** is what delivery promises: a message is either archive or taken for an answer
once, gets at most one reply and none after its outcome is told, and what is told is final and true.
`ImplementsReplies` reads `told` off the receipts (`processing` means taken) and `replies` off what
Meta was sent; requests, the lock, the pool, pauses and faults disappear.

**OnboardingJobs** models jobs that compete for slugs. A run is an HTTP request with its
background task. `ReadRow`/`MarkAccepted`/`MarkRunning` keep the read and the write of `_update_job`
apart; `LookUp`, `CreateTenant` and `Configure` are separated by provider calls; `Activate` is
one transaction. The five idempotent writes of the configuration are one step, with a failure
possible before and after. A slug stands for its tenant: slugs are unique and tenants are
never deleted. The business keeps its name between runs, and numbers are not connected again
while their job runs (`WhatsAppSignup` has that race); the renaming is listed as a hazard.

**TenantProvisioning** is what provisioning promises: a slug is given away once and for good, only its
owner configures the tenant, a job succeeds when its tenant is configured, and its WhatsApp number
answers from that very step on. `ImplementsProvisioning` takes owners from the tenants' creators and
lets `accepted`, `running` and `failed` be one state `open`. Success is final for a job that is
`guarded`, which WhatsApp jobs are until their provisioning lock is lost and Telegram jobs, which the
code runs without one, never are.

**WhatsAppSignup** models one onboarding session and the attempts of its browser tabs. `stage`
and `created` are rows of `whatsapp_signup_attempts`, `preference` and `connection` the rows of the
session, `credential` what the credential store holds, `subscribed` and `requests` what Meta was
asked for. A transaction of `start` begins (`BeginStart`, which fixes `created_at`) and then gets
the lock (`Start`); `Cancel` is one transaction; `Consume` to `MarkConnected` are the statements
and calls of `complete` and `_connect`, each committed on its own, with `Fail`, `Crash` and
`LoseLock` between them. `SetImport` (preferences) and `Activate` (the onboarding job) take other
locks or none and happen at any time. Whether a drive is ready when `start` looks, what Meta
answers and whether another session has the number are free choices. The browser is verified;
a completion that is refused before it consumes its attempt changes nothing and is no step; the
registration PIN is left out. The table's CHECK on connected rows is shown, not assumed.

**NumberConnection** is what signup promises: at most one attempt can be completed at a time and each
is spent once, the number is chosen once and for good, nothing that was set up is undone, and
connected means that everything is set up, the history request included if it is wanted.
`ImplementsConnection` takes `state` from the connection row and `setup` from the credential store,
the row and Meta; the steps of a completion appear only in what they set up. An active number may be
opened again, which is the race `ActiveLostToOverlapOnly` bounds.

**OnboardingSessions** models the row of one session. `account` and `site` are the columns of the two
verifications, `draft` is `session_payload` reduced to whose analysis it holds, whether profile and
summary are there and whether Telegram is set up. `Begin` is what the service decides on the
session it reads, `Read` the second read in the repository, and one action per UPDATE writes the
row; the slow calls of the providers lie between `Begin` and `Read`. A request that sends a code
for the website keeps in `target` the website it has read, whose address the code goes to, and
stores the code on the website the row has by then. `Verify*` and `UseLink` are the
conditional UPDATEs that consume a code or a link; `Record*` counts a failure in a second
statement, against the code that is stored by then. A code that is entered is the stored one or
not. `uses`, `guesses` and `proof`, the website
to whose address the stored code was mailed, are history.

**MediaArchive** models one session with its drive, one WhatsApp connection and one chat. `status`,
`fileId`, `checksum`, `url` are columns of `message_attachments`; `jobs` are pgqueuer rows and `queueId`
points at one. An execution (`pc`, `row`, `token`) runs `transfer`: each action is one statement on the
connection that has the advisory lock, or one call to Google or Meta. `files` and `content` are what
Google holds. `LoseLock`, `Crash`, `Fails`, `Recover` (pgqueuer hands a job whose heartbeat stopped to
a second execution, while the first may go on) and the user's own `Spoil`, `Bin`, `Revoke` and `Disconnect`
happen between any two. `BeginComplete` to `MarkReady` are the durable steps of the consent; the
attempts that `authorize` issues are folded into the first. `Replay` is one row of the statement that
takes up to 100 in a transaction, which is finer. Reading the code for it showed: a job that is held
while its attachment is not `failed` is passed over by `replay_failed`, so only an operator's
`requeue_jobs` moves it; an execution given up may delete the job of the one that replaced it
(`overlapped`); a consent that is being completed undoes a disconnect, and a transfer that judged the
drive before may set it to `attention` afterwards; a damaged upload keeps its `upload_url` and is
never repaired. None contradicts a document; the properties name each as an exception, and nothing
else.

**ArchivedMedia** is what the archive promises of an attachment: it is copied at most once, complete is
final and means an intact copy, media that Meta does not offer is never tried, and everything else
is owed, or failed and may be asked for again. `ImplementsArchivedMedia` takes `pending` and
`transferring` as owed and `copy` from what Google holds; queue rows, locks, upload sessions and the
drive disappear. An execution that was given up may still copy a failed attachment.

**TenantConfigs** models the configuration of one tenant: its row (`config`), the rows of its features,
which an update deletes and inserts in statements of their own, and the entry in Redis. A request's
copy is in `held` between the statement that reads and the one that writes. An update reads the row
and writes all of it; the cached repository fills the entry with what it read earlier. `newest`,
`overlap`, `unfinished` and `stale` are history.

**KnowledgeStore** models the rows of `knowledge_documents` that belong to one tenant. The onboarding
job and its retries (`Job`) and the background tasks of the graph (`Refreshes`) are writers that delete,
compare hashes, write and prune, one statement per action. A document is known by its address, the
chunk's index, the version of its text and the metadata that later deletions select by. There is one `Job`: its
retries follow each other, and runs of the job that overlap are out of scope. The model
shows what is not promised and therefore not a property: all refreshed pages share the source
`runtime-web-search`, so the refresh of one page prunes what earlier refreshes stored of others;
a refresh of the home page deletes the approved profile, which has the same `source_url`; and
a chunk whose text is unchanged keeps the source and session of whoever stored it first.

**TelegramTurns** models one chat from the update to the answer. A handler's `doing` walks through
`telegram_webhook` and the nodes of the graph; `turn` is what it holds, above all the state of the
conversation as it was read. `Resolve` is one step for the look at the cached
secret and, if there is none, the await that reads it. `Post` is Telegram, which repeats an update until it is acknowledged.
`WriteSecret` to `RetryJob` are the end of the onboarding job, which registers a new webhook secret at
each retry, while `known` is what a replica has cached and never reads again.

**SessionStores** makes every call on a session in both stores in one step: `memory` is the object,
`row` the columns and the payload, and `ReadRow` the way back. Differences the invariant has to name:
a row never gives back the marketing consent, which `tests/test_api.py:611-621` sees in the memory
store; the error of a failed session is gone after the next edit; of two sessions with one website
the stores find the older and the newer one. Left out: requests that give a field as null,
lower-casing of addresses, contact points.

`MC*` modules and `.cfg` files give the constants small values.

## Runs

| Run | Bounds | Question |
|---|---|---|
| `issue_rolling` | 2 turns, 2 executions, replicas starting at any moment, 1 retry, 2 faults, 1 rolled back enqueue | order, single mutation, embeddings, queue rows, refinement of `IssueChain`; does a sentiment refer to the reply before the customer's message |
| `issue_live` | 2 turns, 1 execution, empty tables or those of an older version, replicas starting at any moment, no retry, 1 fault, fair | does every saved turn finish; is the first unfinished turn released |
| `delivery` | 2 messages in 2 chats, 1 echo, 2 requests, pool of 3, 2 faults, fair | truth, silence in paused chats, refinement of `CustomerReplies`, who can block a request, settlement |
| `delivery_pool` | the same with a pool of 2 and no fault | **violated**: replies never settle |
| `jobs` | 1 WhatsApp and 1 Telegram job for 1 slug, an admin, 2 concurrent runs, 4 requests, 2 faults | owners, success, refinement of `TenantProvisioning` |
| `jobs_retry` | 1 Telegram job, 3 requests one after the other | **violated**: a retry is refused by its own tenant |
| `signup` | 3 attempts whose starts may overlap, 2 numbers, 2 faults | refinement of `NumberConnection`; preferences frozen for the newest attempt and honoured, repeated history requests, lost activations |
| `signup_overlap` | 2 attempts whose starts overlap | **violated**: cancelling a superseded attempt unfreezes the live one |
| `sessions` | 2 requests, 2 websites (one in the account's domain), 1 attempt per code, 3 codes or links, 1 fault | do codes work once and within limits; what can send a code astray, lose or mix a draft |
| `sessions_resend` | the same | **violated**: a code mailed to the old website's address verifies the new one |
| `archive` | 1 attachment, 2 executions, 3 queue rows, 1 retry, 2 faults or disturbances by the user, fair | is the media created once, refinement of `ArchivedMedia`, does its job survive, does it complete, what makes the drive ask for attention |
| `services` | one of four parts per behaviour: `configs` (1 column and the features, 2 updates, 1 reader, 1 fault), `knowledge` (2 pages, 2 versions, 1 refresh task, 2 runs of the job, 1 fault), `telegram` (1 message, 2 handlers, 1 replica, 1 takeover, 2 faults), `stores` (1 category, 1 attempt), fair | stale caches and lost settings, old and lost knowledge, answers and takeovers, agreement of the stores |

`MCServices` puts four modules that share no state into one run: `part` is chosen at the start and the
variables of the others keep their initial values, so that each behaviour is one of a single
component and none is multiplied by another.

The bounds suffice for the cases of interest: a turn with a predecessor and a successor, a
worker overtaken by another, an upload resumed by a second execution while the first is still running, a retry of the
job that is overlapped by a refresh, two updates on either side of a reader's fill, a draft overwritten by a request that read it earlier, a code for
each address and a link or a resend, an attempt superseded by a second and resumed by a third, a message redelivered into a second request while the first is
at any statement, two runs of one job, two jobs of one slug, and two faults in the worst
places. A pool of 3 serves two waiting requests and the statement of the lock's holder; the
real limit is the asyncpg default of ten connections, and `delivery_pool` shows the same
relation at its smallest size. Deadlock is checked where the system should always go on
(`delivery` and `sessions`; in `issue_*`, where a replica may always start, `EveryTurnCompletes`
says it instead); the models of jobs, signup, archive and services end when
requests, attempts, runs or faults are used up or everything is stored.
All counters (`requests`, `faults`, attempts) are guards of the actions that count.

## Fairness

`issue_live` assumes weak fairness of `CommitEnqueue`, `Initialize` while no replica is up (one
is started in the end), `TimePasses` (clocks advance) and `Replay` (a held job is documented as waiting for an
operator), and strong fairness of `Claim`, `Recover`, `AcquireLock` and `Progress`:
`QueueManager.run` polls for ever and faults interrupt an execution only `MaxFaults` times. No fairness is put on faults, crashes or arrivals. `delivery` assumes that a
request that can go on again and again does: the event loop is fair, and both the pool and
PostgreSQL's advisory locks serve their waiters in order. `archive` assumes that executions go on,
that workers poll and locks serve their waiters (strong fairness of `Claim` and `Begin`), and, of people,
that someone consents whenever the drive is not ready, repairs a folder Google shows as shared, and asks for
failed transfers again: the API offers exactly these remedies and `RecoverableCompletes` says they
suffice. `services` assumes that requests that have begun go on, that Redis drops expired entries, that
the job is retried, and that Telegram repeats an update that is not acknowledged. No fairness is put
on what a user, an operator or a fault may do besides.

## Findings

* **Replies of one number can use up the pool** (`delivery_pool`, `app/whatsapp_connections.py:133`).
* **A second failed attempt loses the job's tenant** (`jobs_retry`, `app/onboarding_jobs.py:268`).
* **Overlapping starts confuse which attempt is newer** (`signup_overlap`,
  `app/whatsapp_signup.py:208`).
* **A resend can verify a website by another one's address** (`sessions_resend`,
  `app/onboarding_sessions.py:388`).

`PROJECT.json` quotes the lines they contradict. One more race is reachable and contradicts no
document: a completion that read the connection before the onboarding job activated it sets it
back to `connecting`, while the job stays `succeeded`. `ActiveLostToOverlapOnly` states that this
is the only way an activation is lost. In the same way drafts are lost and mixed: a write that
read the draft before a Telegram setup was stored removes the setup, and an analysis that ends after
the website was changed is stored beside the new one. `SetupLostToOverlapOnly` and
`ForeignByOverlapOnly` bound both to writes that overlap. `SettingsLostToOverlapOnly`,
`OperatorOverriddenByOverlapOnly` and `AttentionHasCause` have the same form: the race is real, no
document excludes it, and the property shows that nothing else has its effect. So have two that bound
the findings above: `AstrayByOverlapOnly`, a code is at a website it was not mailed for only by a send
that read the session before the website was changed, and `DishonouredByCrossingOnly`, a number is
connected against the preferences only by an attempt that another one begun later got ahead of.
`TelegramReplyArrives` excepts a replica whose cached webhook secret a retried job has replaced:
such a replica answers 403 until it is restarted. `StoresAgree` excepts the marketing consent that
PostgreSQL does not give back.

## Proofs

Each `*Proofs` module states an inductive invariant, one lemma per conjunct with one step
per action, and the theorems that follow. All hold for any values of the constants that satisfy
the named assumptions.

* `IssueProcessingProofs`: `IInv` says how far an execution has got in terms of the tables: whoever
  is about to finish a turn has seen it finished or has published its embedding. The lock is
  not mentioned, so the theorems hold with the lock lost. It gives `TypeCorrect`, `FoldsInOrder`,
  `JobsOutliveTurns`, `BlockedTurnsWait`, `EmbeddingFollows`, `MovesForward`, `MutatesOnce` and
  the refinement `RefinesChain`. `SentimentsReferBack` adds that a customer's message has its number
  before its reply, and that the reply before it is the same in every later state, so that an execution
  that decides with an old snapshot still refers to it. `HeadsAreReleased` adds `HeadInv`: a queued
  head is never parked, whether or not a replica serves. It rests on `RestartChangesNothing`: in
  tables of this version the repair finds nothing to mark or park, which `RestartsAreHarmless` states as
  a property of every start. Both speak of `Spec`; tables of an older version are left to TLC.
* `WhatsAppDeliveryProofs`: `ClaimInv` says that whoever handles a message has its receipt and nobody
  else handles it; `RecordInv` relates what a request is about to record to what reached Meta;
  `PauseInv` says that the lock's holder knows its chat is not paused. They give
  `AtMostOneReplyEver`, `RecordsAreTruthful`, `PausedChatsAreSilent`, `ArchivesAreSilent` and the
  refinement `RefinesReplies`. The lock, unless it is free, belongs to a
  request that is about to recheck, send or unlock (`PauseInv`), and a request that claims has something
  to claim (`QueueInv`). Hence `OnlyThePoolBlocks`: when no request can go on, the pool is
  empty; and `LargePoolsNeverBlock`: a pool larger than the finite set of requests always lets one
  go on. `delivery_pool`, with as many requests as connections, shows that this bound is tight.
  `CanProceed` spells out what an action waits for, since ENABLED is out of the prover's reach; that a
  request which can go on does is the fairness of `RepliesSettle`.
* `OnboardingJobsProofs`: a tenant's creator never changes, so what a run knows of a tenant does
  not go stale; `OwnerInv` states it of every row and variable. `LockInv` adds that a lock that
  is not lost keeps other runs away. They give `TenantsKeepTheirOwner`,
  `SuccessMeansProvisioned`, `ActivationIsAtomic` and the refinement `RefinesProvisioning`, in which
  the step that activates a number is the one in which its job succeeds.
* `WhatsAppSignupProofs`: `SignupInv` says that what a completion has read stays true (timestamps
  of durable steps are never reset) and that what it did under the lock stays done; `CountInv` pays for
  every repeated history request, those of completions that lost their lock included, with a
  fault. They give `NumbersAreSetUp`, `RequestsAreNotRepeated` and `ActivationsLast` without any
  assumption on starts. So does `RefinesConnection`: `NumberInv` says that the attempt of a
  running completion is spent and that one which has the lock and is about to save its number finds
  none or the same one; a completion that lost the lock lost the connection it would save on.
  `AttemptsFreeze` and `PreferencesHold` need no assumption either: they speak of the attempt that began
  last, whoever got the lock first. `StartInv` says that `created_at` tells attempts apart, `WantsInv` that
  the newest attempt's completion connects with the preference that is in the table.
* `OnboardingSessionsProofs`: `CodeInv` says that a code that can still be entered is unused;
  `GuessInv` counts the requests between finding a code wrong and recording it.
  They give `CodesAreUsedOnce` and `GuessesAreBounded`. `AstrayStep` goes through the writes that
  touch a code or a website, which gives `VerificationsAreFresh`. `DraftStep` says
  what every write makes of the draft it read, from which `SetupsAreLostToOverlap` and
  `DraftsMixByOverlap` follow.

* `MediaArchiveProofs`: an execution can lose its lock and go on beside the one that took over. So
  `ArchiveInv` tells apart what every execution knows (`IdInv`: a file's id is stored before anything is
  uploaded under it and is never replaced) from what only the lock's holder knows (`UrlInv`: which upload
  session is open and that nothing has arrived in it). `JobInv` says that the row of an attachment and
  its job name each other, and that without a duplicated recovery one execution has a job;
  `AttentionInv` follows a refused token or an unfit folder back to what spoilt it. They give
  `OneFileEver`, `CompleteMeansIntact`, `UnsettledKeepsJob` and `AttentionNeedsCause`. For the refinement
  `RefinesArchivedMedia`, `HolderInv` says that what the lock's holder transfers is never complete already and is
  `transferring` from the step that marks it to the one that settles it, whatever retries and
  executions that lost the lock do meanwhile; `MissingInv` that no job and no execution has media
  Meta does not offer.
* `ServicesProofs`: `ConfigInv` says of every copy of a configuration that it is what is stored unless it
  was overtaken, and that an update without another beside it has read the newest one; it gives
  `SettingsAreKept` and `StalenessHasItsCause`. `TurnInv` says that a turn which holds a conversation as
  the bot's is right unless an operator changed it since, hence `OperatorsKeepConversations`.
  `KnowledgeInv` says that every row is an onboarding document or belongs to a refreshed page, so that a
  row with the id of an onboarding document of any other page is that document, and skipping an
  unchanged chunk is right; it gives `OnboardingSurvives`. `SoleInv` relates the rows of a page to what
  its refresh has still to write while no other writer is there, hence `RefreshLeavesOneText`.
* `SessionStoresProofs`: `StoresInv` relates the row to the object column by column and the payload part by
  part; every call that rewrites a row starts from what the row gives back. It gives
  `StoresStayTogether`, for any sequence of calls.

The assumptions say that names differ (no worker is the value that marks a free lock, no page has the
address "profile") and that bounds are numbers. Type invariants are theorems (`TypeCorrect`,
`ConfigTypeCorrect`, `ArchiveTypeCorrect` and so on) instead of properties of runs. So are the promises that a refinement implies and no run
checks a second time: `AtMostOneReply`, `ArchiveStaysSilent`, `ActivationAtomic`,
`ConnectedIsComplete` and `CompleteIsIntact`. Every invariant
and every action property that a passing run checks is proved (`HeadReleased` from empty tables). Model-checked only are the liveness properties
(`EveryTurnCompletes`, `RepliesSettle`, `RecoverableCompletes`, `CacheConverges`,
`TelegramReplyArrives`), which need fairness and ENABLED and are out of TLAPS' reach.

## Not modelled, and what is left

* Browser recovery: its challenges, attempts and cookie; the conditional UPDATEs have the form that
  `OnboardingSessions` checks.
* Credential store: one token and many requests after a 403.
* The in-memory doubles of jobs, tenants, messages and knowledge, the memory cache and the refresh of the
  ElastiCache token: development and test code without concurrency.
* `app/adapters/llm.py`, `app/provider_projects.py`, `app/container.py`, `app/models.py`, `app/config.py`:
  prompts and their parsing, get-or-create calls, wiring and data types, without state between calls.
* Overlapping sessions of one website, renamed businesses, and several drives or chats of one archive.

Next: the composition of `OnboardingSessions` with `OnboardingJobs` (a renamed session whose job is
retried).
