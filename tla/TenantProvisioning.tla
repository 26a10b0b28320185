-------------------------- MODULE TenantProvisioning --------------------------
(***************************************************************************)
(* What provisioning promises to businesses that want a tenant.  A slug is *)
(* given away once and for good; only its owner configures the tenant; a   *)
(* job succeeds when its tenant is configured, and a WhatsApp number       *)
(* answers from that very step on and for good.  Success is final while    *)
(* something keeps the runs of the job apart.  Requests, runs, their       *)
(* order, errors and crashes do not appear.                                *)
(***************************************************************************)
CONSTANTS
    Jobs, WhatsAppJobs,
    Slugs,
    SlugOf,      \* the slug each job wants
    Admin,       \* creates tenants directly
    Nobody       \* the owner of a slug that is free

VARIABLES
    owner,       \* owner[s]: who got the slug s
    configured,  \* configured[s]: jobs that wrote the settings of tenant s
    state,       \* state[j]: "none", "open" or "succeeded"
    answering,   \* WhatsApp jobs whose number answers customers
    guarded      \* jobs of which one run goes on at a time

vars == <<owner, configured, state, answering, guarded>>

Init ==
    /\ owner = [s \in Slugs |-> Nobody]
    /\ configured = [s \in Slugs |-> {}]
    /\ state = [j \in Jobs |-> "none"]
    /\ answering = {}
    /\ guarded = WhatsAppJobs

Request(j) ==
    /\ state[j] = "none"
    /\ state' = [state EXCEPT ![j] = "open"]
    /\ UNCHANGED <<owner, configured, answering, guarded>>

Create(s, who) ==
    /\ owner[s] = Nobody
    /\ owner' = [owner EXCEPT ![s] = who]
    /\ UNCHANGED <<configured, state, answering, guarded>>

Configure(j) ==
    /\ owner[SlugOf[j]] = j
    /\ configured' = [configured EXCEPT ![SlugOf[j]] = @ \union {j}]
    /\ UNCHANGED <<owner, state, answering, guarded>>

Succeed(j) ==
    /\ j \in configured[SlugOf[j]]
    /\ state' = [state EXCEPT ![j] = "succeeded"]
    /\ answering' = answering \union ({j} \intersect WhatsAppJobs)
    /\ UNCHANGED <<owner, configured, guarded>>

\* Another run takes the job up again, or reports the failure of a notification.
Reopen(j) ==
    /\ j \notin guarded
    /\ state' = [state EXCEPT ![j] = "open"]
    /\ UNCHANGED <<owner, configured, answering, guarded>>

LoseGuard(j) ==
    /\ guarded' = guarded \ {j}
    /\ UNCHANGED <<owner, configured, state, answering>>

Next ==
    \/ \E s \in Slugs : Create(s, Admin)
    \/ \E j \in Jobs :
          \/ Request(j) \/ Create(SlugOf[j], j) \/ Configure(j) \/ Succeed(j)
          \/ Reopen(j) \/ LoseGuard(j)

Spec == Init /\ [][Next]_vars
=============================================================================
