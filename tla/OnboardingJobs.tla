--------------------------- MODULE OnboardingJobs ---------------------------
(***************************************************************************)
(* Provisioning jobs that turn an onboarding into a tenant                 *)
(* (app/onboarding_jobs.py).                                               *)
(*                                                                         *)
(* A request creates a job, or finds it by its idempotency key, or accepts *)
(* it again for a retry, and then runs it as its own background task: a    *)
(* sequence of statements and provider calls, nothing around them but a    *)
(* try block.  Runs of a WhatsApp job exclude each other by a session-     *)
(* level advisory lock; runs of a Telegram job do not.                     *)
(*                                                                         *)
(* Slugs are unique and tenants are never deleted, so a slug names at most *)
(* one tenant and stands for its tenant_id.                                *)
(***************************************************************************)
EXTENDS Naturals, FiniteSets

CONSTANTS
    Jobs,            \* jobs, one per idempotency key
    WhatsAppJobs,    \* those with a whatsapp_connection_id; the others are Telegram's
    Slugs,           \* slugs of businesses
    SlugOf,          \* tenant_slug of each job's business name
    Runs,            \* requests, each with its background task
    Admin,           \* whoever creates tenants with POST /tenants
    NoTenant,
    NoOne,
    NoJob,
    MaxRequests,     \* bound on requests
    MaxFaults        \* bound on errors, lost locks and crashes

ASSUME JobsAssumption ==
    /\ WhatsAppJobs \subseteq Jobs
    /\ SlugOf \in [Jobs -> Slugs]
    /\ NoTenant \notin Slugs /\ Admin \notin Jobs /\ NoOne \notin Jobs \union Runs \union {Admin}
    /\ NoJob \notin Jobs
    /\ MaxRequests \in Nat /\ MaxFaults \in Nat

VARIABLES
    status,       \* onboarding_jobs.status, "none" without a row
    link,         \* onboarding_jobs.tenant_id
    creator,      \* creator[s]: who created the tenant with slug s (table tenants)
    writers,      \* writers[s]: jobs that wrote its config, profile, owner and documents
    connection,   \* connection[j]: tenant the job's number is active for (whatsapp_connections)
    submitted,    \* jobs recorded as their session's submitted_job_id
    lock,         \* lock[j]: holder of the provisioning lock
    lost,         \* jobs whose provisioning lock once got lost
    pc,           \* pc[r]: where run r is
    work,         \* work[r]: its job
    seen,         \* seen[r]: job.tenant_id as _process_job read it
    copy,         \* copy[r]: tenant_id as _update_job read it
    tenant,       \* tenant[r]: "none", "found" by slug, or "held" in the local variable
    requests, faults   \* counters for the bounds

rowVars == <<status, link>>
tenantVars == <<creator, writers, connection, submitted>>
lockVars == <<lock, lost>>
localVars == <<work, seen, copy, tenant>>
vars == <<rowVars, tenantVars, lockVars, pc, localVars, requests, faults>>

-----------------------------------------------------------------------------
(* Helpers *)

Goto(r, label) == pc' = [pc EXCEPT ![r] = label]

Fault == faults < MaxFaults /\ faults' = faults + 1

Slug(r) == SlugOf[work[r]]

\* Where a request stands once its job is to be run.
Begin(j) == IF j \in WhatsAppJobs THEN "queued" ELSE "reading"

Enter(r, j, label) ==
    /\ pc[r] = "idle"
    /\ requests < MaxRequests /\ requests' = requests + 1
    /\ work' = [work EXCEPT ![r] = j]
    /\ Goto(r, label)

\* UPDATE of every column at once, as in _update_job.
UpdateJob(j, newStatus, tenantId) ==
    /\ status' = [status EXCEPT ![j] = newStatus]
    /\ link' = [link EXCEPT ![j] = tenantId]

-----------------------------------------------------------------------------
(* Requests *)

\* create_job: INSERT ... ON CONFLICT returns the row that is there.
CreateJob(j) == status' = IF status[j] = "none" THEN [status EXCEPT ![j] = "accepted"] ELSE status

\* POST /admin/onboarding/jobs, Telegram jobs only.
PostJob(r, j) ==
    /\ j \notin WhatsAppJobs
    /\ Enter(r, j, Begin(j))
    /\ CreateJob(j)
    /\ UNCHANGED <<link, tenantVars, lockVars, seen, copy, tenant, faults>>

\* submit_session: a session that was submitted reuses its job.
SubmitSession(r, j) ==
    /\ Enter(r, j, IF j \in submitted THEN Begin(j) ELSE "submitting")
    /\ IF j \in submitted THEN UNCHANGED status ELSE CreateJob(j)
    /\ UNCHANGED <<link, tenantVars, lockVars, seen, copy, tenant, faults>>

MarkSubmitted(r) ==
    /\ pc[r] = "submitting"
    /\ submitted' = submitted \union {work[r]}
    /\ Goto(r, Begin(work[r]))
    /\ UNCHANGED <<rowVars, creator, writers, connection, lockVars, localVars, requests, faults>>

\* POST /admin/onboarding/jobs/{job_id}/retry: Telegram jobs that failed.
RetryJob(r, j) ==
    /\ j \notin WhatsAppJobs /\ status[j] = "failed"
    /\ Enter(r, j, "accepting")
    /\ UNCHANGED <<rowVars, tenantVars, lockVars, seen, copy, tenant, faults>>

\* POST .../provisioning/retry: only while the number is not active and nobody has the lock.
RetryProvisioning(r, j) ==
    /\ j \in WhatsAppJobs \intersect submitted /\ connection[j] = NoTenant
    /\ Enter(r, j, "retrying")
    /\ UNCHANGED <<rowVars, tenantVars, lockVars, seen, copy, tenant, faults>>

\* The end of a request, with the lock if the run has it.
Leave(r) ==
    /\ lock' = [j \in Jobs |-> IF lock[j] = r THEN NoOne ELSE lock[j]]
    /\ Goto(r, "idle")
    /\ work' = [work EXCEPT ![r] = NoJob]
    /\ seen' = [seen EXCEPT ![r] = NoTenant]
    /\ copy' = [copy EXCEPT ![r] = NoTenant]
    /\ tenant' = [tenant EXCEPT ![r] = "none"]

\* provisioning_lock tries once; without the lock the request ends.
TryLock(r) ==
    /\ pc[r] \in {"queued", "retrying"}
    /\ IF lock[work[r]] = NoOne
       THEN /\ lock' = [lock EXCEPT ![work[r]] = r]
            /\ Goto(r, IF pc[r] = "queued" THEN "reading" ELSE "rechecking")
            /\ UNCHANGED localVars
       ELSE Leave(r)
    /\ UNCHANGED <<rowVars, tenantVars, lost, requests, faults>>

RecheckStatus(r) ==
    /\ pc[r] = "rechecking"
    /\ IF status[work[r]] \in {"failed", "running", "accepted"}
       THEN Goto(r, "accepting") /\ UNCHANGED <<lock, localVars>>
       ELSE Leave(r)
    /\ UNCHANGED <<rowVars, tenantVars, lost, requests, faults>>

\* _update_job reads the row first ...
ReadRow(r) ==
    /\ pc[r] \in {"accepting", "starting"}
    /\ copy' = [copy EXCEPT ![r] = link[work[r]]]
    /\ Goto(r, IF pc[r] = "accepting" THEN "accepted" ELSE "started")
    /\ UNCHANGED <<rowVars, tenantVars, lockVars, work, seen, tenant, requests, faults>>

\* ... and then writes it back with the new status; mark_job_accepted, and the lock released.
MarkAccepted(r) ==
    /\ pc[r] = "accepted"
    /\ UpdateJob(work[r], "accepted", copy[r])
    /\ lock' = IF lock[work[r]] = r THEN [lock EXCEPT ![work[r]] = NoOne] ELSE lock
    /\ Goto(r, Begin(work[r]))
    /\ UNCHANGED <<tenantVars, lost, localVars, requests, faults>>

-----------------------------------------------------------------------------
(* process_job *)

\* A job that another run has begun or finished is skipped.
ReadJob(r) ==
    /\ pc[r] = "reading"
    /\ IF status[work[r]] \in {"running", "succeeded"}
       THEN Leave(r)
       ELSE /\ seen' = [seen EXCEPT ![r] = link[work[r]]]
            /\ Goto(r, "starting")
            /\ UNCHANGED <<lock, work, copy, tenant>>
    /\ UNCHANGED <<rowVars, tenantVars, lost, requests, faults>>

MarkRunning(r) ==
    /\ pc[r] = "started"
    /\ UpdateJob(work[r], "running", copy[r])
    /\ Goto(r, "looking")
    /\ UNCHANGED <<tenantVars, lockVars, localVars, requests, faults>>

Exists(s) == creator[s] # NoOne

\* The slug belongs to a tenant the job did not know of when it was read.
Refuse(r) ==
    /\ pc[r] = "looking"
    /\ Exists(Slug(r)) /\ seen[r] # Slug(r)
    /\ Goto(r, "failing")
    /\ UNCHANGED <<rowVars, tenantVars, lockVars, localVars, requests, faults>>

LookUp(r) ==
    /\ pc[r] = "looking"
    /\ Exists(Slug(r)) => seen[r] = Slug(r)
    /\ tenant' = [tenant EXCEPT ![r] = IF Exists(Slug(r)) THEN "found" ELSE "none"]
    /\ Goto(r, "provisioning")
    /\ UNCHANGED <<rowVars, tenantVars, lockVars, work, seen, copy, requests, faults>>

\* Variant: a slug taken in the meantime is shared instead of refused.
CreateTenantShared(r) ==
    /\ pc[r] = "provisioning"
    /\ tenant' = [tenant EXCEPT ![r] = "held"]
    /\ creator' = IF Exists(Slug(r)) THEN creator ELSE [creator EXCEPT ![Slug(r)] = work[r]]
    /\ Goto(r, "configuring")
    /\ UNCHANGED <<rowVars, writers, connection, submitted, lockVars, work, seen, copy, requests,
                   faults>>

\* Variant: a tenant that was found is taken for configured.
CreateTenantOnly(r) ==
    /\ pc[r] = "provisioning"
    /\ \/ /\ tenant[r] = "found"
          /\ UNCHANGED creator
          /\ Goto(r, "activating")
       \/ /\ tenant[r] = "none" /\ ~Exists(Slug(r))
          /\ creator' = [creator EXCEPT ![Slug(r)] = work[r]]
          /\ Goto(r, "configuring")
    /\ tenant' = [tenant EXCEPT ![r] = "held"]
    /\ UNCHANGED <<rowVars, writers, connection, submitted, lockVars, work, seen, copy, requests,
                   faults>>

\* After the provider projects: the tenant found, or a new one; a taken slug is an error.
CreateTenant(r) ==
    /\ pc[r] = "provisioning"
    /\ IF tenant[r] = "none" /\ Exists(Slug(r))
       THEN Goto(r, "failing") /\ UNCHANGED <<tenant, creator>>
       ELSE /\ tenant' = [tenant EXCEPT ![r] = "held"]
            /\ creator' = IF tenant[r] = "found" THEN creator
                          ELSE [creator EXCEPT ![Slug(r)] = work[r]]
            /\ Goto(r, "configuring")
    /\ UNCHANGED <<rowVars, writers, connection, submitted, lockVars, work, seen, copy, requests,
                   faults>>

\* Config, profile, contact points, owner and knowledge base, each written idempotently.
Configure(r) ==
    /\ pc[r] = "configuring"
    /\ writers' = [writers EXCEPT ![Slug(r)] = @ \union {work[r]}]
    /\ Goto(r, "activating")
    /\ UNCHANGED <<rowVars, creator, connection, submitted, lockVars, localVars, requests, faults>>

\* whatsapp_connections.activate: the number and the job in one transaction.
Activate(r) ==
    /\ pc[r] = "activating" /\ work[r] \in WhatsAppJobs
    /\ IF work[r] \in submitted /\ connection[work[r]] \in {NoTenant, Slug(r)}
       THEN /\ connection' = [connection EXCEPT ![work[r]] = Slug(r)]
            /\ UpdateJob(work[r], "succeeded", Slug(r))
            /\ Goto(r, "notifying")
       ELSE Goto(r, "failing") /\ UNCHANGED <<rowVars, connection>>
    /\ UNCHANGED <<creator, writers, submitted, lockVars, localVars, requests, faults>>

\* Telegram: the Secret and the webhook are written, then the job is marked.
Succeed(r) ==
    /\ pc[r] = "activating" /\ work[r] \notin WhatsAppJobs
    /\ UpdateJob(work[r], "succeeded", Slug(r))
    /\ Goto(r, "notifying")
    /\ UNCHANGED <<tenantVars, lockVars, localVars, requests, faults>>

\* The emails and the callback went out; the run ends.
Notify(r) ==
    /\ pc[r] = "notifying"
    /\ Leave(r)
    /\ UNCHANGED <<rowVars, tenantVars, lost, requests, faults>>

\* Any statement or provider call of the try block may raise.
Fail(r) ==
    /\ pc[r] \in {"starting", "started", "looking", "provisioning", "configuring", "activating",
                  "notifying"}
    /\ Fault
    /\ Goto(r, "failing")
    /\ UNCHANGED <<rowVars, tenantVars, lockVars, localVars, requests>>

\* Variant: an error always marks the job failed, also one of the notifications.
CheckFailedAlways(r) ==
    /\ pc[r] = "failing"
    /\ Goto(r, "marking") /\ UNCHANGED <<lock, localVars>>
    /\ UNCHANGED <<rowVars, tenantVars, lost, requests, faults>>

\* The except block: a job that succeeded only failed to notify.
CheckFailed(r) ==
    /\ pc[r] = "failing"
    /\ IF status[work[r]] = "succeeded"
       THEN Leave(r)
       ELSE Goto(r, "marking") /\ UNCHANGED <<lock, localVars>>
    /\ UNCHANGED <<rowVars, tenantVars, lost, requests, faults>>

\* mark_job_failed overwrites tenant_id with what this run holds; then the failure email.
MarkFailed(r) ==
    /\ pc[r] = "marking"
    /\ UpdateJob(work[r], "failed", IF tenant[r] = "held" THEN Slug(r) ELSE NoTenant)
    /\ Goto(r, "reporting")
    /\ UNCHANGED <<tenantVars, lockVars, localVars, requests, faults>>

ReportFailure(r) ==
    /\ pc[r] = "reporting"
    /\ Leave(r)
    /\ UNCHANGED <<rowVars, tenantVars, lost, requests, faults>>

\* The process ends, or a statement outside the try block raises.
Crash(r) ==
    /\ pc[r] # "idle"
    /\ Fault
    /\ Leave(r)
    /\ UNCHANGED <<rowVars, tenantVars, lost, requests>>

\* The connection of the lock breaks while the run goes on.
LoseLock(j) ==
    /\ lock[j] # NoOne
    /\ Fault
    /\ lock' = [lock EXCEPT ![j] = NoOne]
    /\ lost' = lost \union {j}
    /\ UNCHANGED <<rowVars, tenantVars, pc, localVars, requests>>

\* POST /tenants fails closed on a slug that exists.
AdminCreates(s) ==
    /\ ~Exists(s)
    /\ creator' = [creator EXCEPT ![s] = Admin]
    /\ UNCHANGED <<rowVars, writers, connection, submitted, lockVars, pc, localVars, requests,
                   faults>>

-----------------------------------------------------------------------------
Init ==
    /\ status = [j \in Jobs |-> "none"]
    /\ link = [j \in Jobs |-> NoTenant]
    /\ creator = [s \in Slugs |-> NoOne]
    /\ writers = [s \in Slugs |-> {}]
    /\ connection = [j \in Jobs |-> NoTenant]
    /\ submitted = {}
    /\ lock = [j \in Jobs |-> NoOne] /\ lost = {}
    /\ pc = [r \in Runs |-> "idle"]
    /\ work = [r \in Runs |-> NoJob]
    /\ seen = [r \in Runs |-> NoTenant]
    /\ copy = [r \in Runs |-> NoTenant]
    /\ tenant = [r \in Runs |-> "none"]
    /\ requests = 0 /\ faults = 0

Request(r, j) == PostJob(r, j) \/ SubmitSession(r, j) \/ RetryJob(r, j) \/ RetryProvisioning(r, j)

Run(r) ==
    \/ MarkSubmitted(r) \/ TryLock(r) \/ RecheckStatus(r) \/ ReadRow(r) \/ MarkAccepted(r)
    \/ ReadJob(r) \/ MarkRunning(r) \/ Refuse(r) \/ LookUp(r) \/ CreateTenant(r) \/ Configure(r)
    \/ Activate(r) \/ Succeed(r) \/ Notify(r) \/ Fail(r) \/ CheckFailed(r) \/ MarkFailed(r)
    \/ ReportFailure(r) \/ Crash(r)

Next ==
    \/ \E r \in Runs, j \in Jobs : Request(r, j)
    \/ \E r \in Runs : Run(r)
    \/ \E j \in Jobs : LoseLock(j)
    \/ \E s \in Slugs : AdminCreates(s)

Spec == Init /\ [][Next]_vars

-----------------------------------------------------------------------------
(* Properties *)

Labels == {"idle", "submitting", "queued", "retrying", "rechecking", "accepting", "accepted",
           "reading", "starting", "started", "looking", "provisioning", "configuring",
           "activating", "notifying", "failing", "marking", "reporting"}

Owners == Jobs \union {Admin, NoOne}

\* Every row, lock and local variable has a value its column or type allows.
JobsTypeOK ==
    /\ status \in [Jobs -> {"none", "accepted", "running", "succeeded", "failed"}]
    /\ link \in [Jobs -> Slugs \union {NoTenant}]
    /\ creator \in [Slugs -> Owners]
    /\ writers \in [Slugs -> SUBSET Jobs]
    /\ connection \in [Jobs -> Slugs \union {NoTenant}]
    /\ submitted \subseteq Jobs
    /\ lock \in [Jobs -> Runs \union {NoOne}]
    /\ lost \subseteq Jobs
    /\ pc \in [Runs -> Labels]
    /\ work \in [Runs -> Jobs \union {NoJob}]
    /\ \A r \in Runs : pc[r] # "idle" => work[r] \in Jobs
    /\ seen \in [Runs -> Slugs \union {NoTenant}]
    /\ copy \in [Runs -> Slugs \union {NoTenant}]
    /\ tenant \in [Runs -> {"none", "found", "held"}]
    /\ requests \in Nat /\ faults \in Nat

\* A job only ever writes to, links to and activates a number for a tenant it created itself,
\* although runs read the job, look up the slug and create the tenant in separate statements
\* (_process_job: "Tenant with matching name or slug already exists").
TenantHasOneOwner ==
    /\ \A s \in Slugs : \A j \in writers[s] : creator[s] = j
    /\ \A j \in Jobs :
          /\ link[j] # NoTenant => creator[link[j]] = j
          /\ connection[j] # NoTenant => creator[connection[j]] = j

\* A job that is recorded as succeeded points to its tenant, fully configured by it.
SucceededIsProvisioned ==
    \A j \in Jobs :
        status[j] = "succeeded" => link[j] = SlugOf[j] /\ j \in writers[SlugOf[j]]

\* Unless the provisioning lock got lost, a number answers customers exactly when its job has
\* succeeded: no later run, retry or failing notification takes that back.
ActivationAtomic ==
    \A j \in WhatsAppJobs \ lost : connection[j] # NoTenant <=> status[j] = "succeeded"

\* What businesses see of it (module TenantProvisioning): whether a job is accepted, runs or
\* failed makes no difference there.  Telegram jobs have no lock that guards their runs.
Progress == [j \in Jobs |-> IF status[j] \in {"none", "succeeded"} THEN status[j] ELSE "open"]

Answering == {j \in WhatsAppJobs : connection[j] # NoTenant}

Provisioning == INSTANCE TenantProvisioning WITH
    Nobody <- NoOne,
    owner <- creator,
    configured <- writers,
    state <- Progress,
    answering <- Answering,
    guarded <- WhatsAppJobs \ lost

\* The runs, however they overlap, repeat and fail, keep that promise: slugs are given away
\* once, tenants are configured by their owners only, and as long as its provisioning lock is
\* not lost a WhatsApp job's success is final and the step in which its number goes live.
ImplementsProvisioning == Provisioning!Spec

\* A run is not refused on account of the tenant that its own job created earlier
\* (README.md: "If the app accepts the job but provisioning fails, retry it").
RetryKnowsItsTenant == [][\A r \in Runs : Refuse(r) => creator[Slug(r)] # work[r]]_vars
=============================================================================
