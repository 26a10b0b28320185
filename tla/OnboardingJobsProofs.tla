------------------------ MODULE OnboardingJobsProofs ------------------------
(***************************************************************************)
(* Proofs about OnboardingJobs, for any jobs, slugs, concurrent runs,      *)
(* requests and faults.                                                    *)
(*                                                                         *)
(* A tenant's creator never changes once the tenant exists.  So whatever a *)
(* run has read or found, however long ago, stays true of it: the          *)
(* invariant says of every local variable that names a tenant what it says *)
(* of the rows.                                                            *)
(***************************************************************************)
EXTENDS OnboardingJobs, TLAPS

\* The tenant s, when a job's row or variable names it, is the job's own.
OwnTenant(j, s) == s # NoTenant => s = SlugOf[j] /\ creator[s] = j

OwnerInv ==
    /\ \A s \in Slugs : \A j \in writers[s] : creator[s] = j
    /\ \A j \in Jobs : OwnTenant(j, link[j]) /\ OwnTenant(j, connection[j])
    /\ \A r \in Runs : pc[r] # "idle" =>
          /\ OwnTenant(work[r], seen[r]) /\ OwnTenant(work[r], copy[r])
          /\ tenant[r] # "none" => creator[SlugOf[work[r]]] = work[r]

\* Idle runs know of no tenant, and from its configuration on a run holds one.
LocalInv ==
    \A r \in Runs :
        /\ pc[r] = "idle" => seen[r] = NoTenant /\ copy[r] = NoTenant /\ tenant[r] = "none"
        /\ pc[r] \in {"configuring", "activating"} => tenant[r] = "held"

\* Runs that are about to mark a job succeeded have configured its tenant.
ProvisionedInv ==
    /\ SucceededIsProvisioned
    /\ \A r \in Runs : pc[r] = "activating" => work[r] \in writers[SlugOf[work[r]]]

JobsInv == JobsTypeOK /\ OwnerInv /\ LocalInv /\ ProvisionedInv

\* Where a run of a WhatsApp job is under the provisioning lock.
Locked == Labels \ {"idle", "submitting", "queued", "retrying"}

\* Where a run may rely on its job not having succeeded.
Unfinished == Locked \ {"rechecking", "reading", "notifying", "failing", "reporting"}

\* As long as it is not lost, the lock keeps all other runs of the job away.
LockHolds(j) ==
    /\ connection[j] # NoTenant <=> status[j] = "succeeded"
    /\ \A r \in Runs : work[r] = j /\ pc[r] \in Locked => lock[j] = r
    /\ \A r \in Runs : work[r] = j /\ pc[r] \in Unfinished => status[j] # "succeeded"

LockInv == \A j \in WhatsAppJobs \ lost : LockHolds(j)

\* Where a run that ends leaves its locks and its local variables.
LEMMA LeaveTypes ==
    ASSUME JobsTypeOK, NEW r \in Runs, Leave(r)
    PROVE  /\ lock' \in [Jobs -> Runs \union {NoOne}]
           /\ pc' \in [Runs -> Labels]
           /\ work' \in [Runs -> Jobs \union {NoJob}]
           /\ \A q \in Runs : pc'[q] # "idle" => work'[q] \in Jobs
           /\ seen' \in [Runs -> Slugs \union {NoTenant}]
           /\ copy' \in [Runs -> Slugs \union {NoTenant}]
           /\ tenant' \in [Runs -> {"none", "found", "held"}]
  BY JobsAssumption DEF JobsTypeOK, Leave, Goto, Labels

\* A run that ends takes nothing from the runs that go on.
LEMMA LeaveLocks ==
    ASSUME JobsTypeOK, NEW r \in Runs, Leave(r)
    PROVE  /\ pc'[r] = "idle"
           /\ \A q \in Runs \ {r} : pc'[q] = pc[q] /\ work'[q] = work[q]
           /\ \A j \in Jobs : lock[j] # r => lock'[j] = lock[j]
  BY JobsAssumption DEF JobsTypeOK, Leave, Goto

\* Every step keeps every variable in its set.
LEMMA JobsTypeStep == JobsTypeOK /\ [Next]_vars => JobsTypeOK'
<1> SUFFICES ASSUME JobsTypeOK, [Next]_vars PROVE JobsTypeOK'
  OBVIOUS
<1> USE JobsAssumption DEF JobsTypeOK, Labels, Owners, rowVars, tenantVars, lockVars, localVars
<1>1. ASSUME NEW r \in Runs, NEW j \in Jobs, PostJob(r, j) PROVE JobsTypeOK'
  BY <1>1 DEF PostJob, Enter, CreateJob, Begin, Goto
<1>2. ASSUME NEW r \in Runs, NEW j \in Jobs, SubmitSession(r, j) PROVE JobsTypeOK'
  BY <1>2 DEF SubmitSession, Enter, CreateJob, Begin, Goto
<1>3. ASSUME NEW r \in Runs, NEW j \in Jobs, RetryJob(r, j) PROVE JobsTypeOK'
  BY <1>3 DEF RetryJob, Enter, Goto
<1>4. ASSUME NEW r \in Runs, NEW j \in Jobs, RetryProvisioning(r, j) PROVE JobsTypeOK'
  BY <1>4 DEF RetryProvisioning, Enter, Goto
<1>5. ASSUME NEW r \in Runs, MarkSubmitted(r) PROVE JobsTypeOK'
  BY <1>5 DEF MarkSubmitted, Begin, Goto
<1>6. ASSUME NEW r \in Runs, TryLock(r) PROVE JobsTypeOK'
  <2>1. CASE Leave(r)
    BY <1>6, <2>1, LeaveTypes DEF TryLock
  <2>2. CASE ~Leave(r)
    BY <1>6, <2>2 DEF TryLock, Goto
  <2>3. QED
    BY <2>1, <2>2
<1>7. ASSUME NEW r \in Runs, RecheckStatus(r) PROVE JobsTypeOK'
  <2>1. CASE Leave(r)
    BY <1>7, <2>1, LeaveTypes DEF RecheckStatus
  <2>2. CASE ~Leave(r)
    BY <1>7, <2>2 DEF RecheckStatus, Goto
  <2>3. QED
    BY <2>1, <2>2
<1>8. ASSUME NEW r \in Runs, ReadRow(r) PROVE JobsTypeOK'
  BY <1>8 DEF ReadRow, Goto
<1>9. ASSUME NEW r \in Runs, MarkAccepted(r) PROVE JobsTypeOK'
  BY <1>9 DEF MarkAccepted, UpdateJob, Begin, Goto
<1>10. ASSUME NEW r \in Runs, ReadJob(r) PROVE JobsTypeOK'
  <2>1. CASE Leave(r)
    BY <1>10, <2>1, LeaveTypes DEF ReadJob
  <2>2. CASE ~Leave(r)
    BY <1>10, <2>2 DEF ReadJob, Goto
  <2>3. QED
    BY <2>1, <2>2
<1>11. ASSUME NEW r \in Runs, MarkRunning(r) PROVE JobsTypeOK'
  BY <1>11 DEF MarkRunning, UpdateJob, Goto
<1>12. ASSUME NEW r \in Runs, Refuse(r) PROVE JobsTypeOK'
  BY <1>12 DEF Refuse, Goto
<1>13. ASSUME NEW r \in Runs, LookUp(r) PROVE JobsTypeOK'
  BY <1>13 DEF LookUp, Goto, Exists, Slug
<1>14. ASSUME NEW r \in Runs, CreateTenant(r) PROVE JobsTypeOK'
  BY <1>14 DEF CreateTenant, Goto, Exists, Slug
<1>15. ASSUME NEW r \in Runs, Configure(r) PROVE JobsTypeOK'
  BY <1>15 DEF Configure, Goto, Slug
<1>16. ASSUME NEW r \in Runs, Activate(r) PROVE JobsTypeOK'
  BY <1>16 DEF Activate, UpdateJob, Goto, Slug
<1>17. ASSUME NEW r \in Runs, Succeed(r) PROVE JobsTypeOK'
  BY <1>17 DEF Succeed, UpdateJob, Goto, Slug
<1>18. ASSUME NEW r \in Runs, Notify(r) PROVE JobsTypeOK'
  BY <1>18 DEF Notify, Leave, Goto
<1>19. ASSUME NEW r \in Runs, Fail(r) PROVE JobsTypeOK'
  BY <1>19 DEF Fail, Fault, Goto
<1>20. ASSUME NEW r \in Runs, CheckFailed(r) PROVE JobsTypeOK'
  <2>1. CASE Leave(r)
    BY <1>20, <2>1, LeaveTypes DEF CheckFailed
  <2>2. CASE ~Leave(r)
    BY <1>20, <2>2 DEF CheckFailed, Goto
  <2>3. QED
    BY <2>1, <2>2
<1>21. ASSUME NEW r \in Runs, MarkFailed(r) PROVE JobsTypeOK'
  BY <1>21 DEF MarkFailed, UpdateJob, Goto, Slug
<1>22. ASSUME NEW r \in Runs, ReportFailure(r) PROVE JobsTypeOK'
  BY <1>22 DEF ReportFailure, Leave, Goto
<1>23. ASSUME NEW r \in Runs, Crash(r) PROVE JobsTypeOK'
  BY <1>23 DEF Crash, Fault, Leave, Goto
<1>24. ASSUME NEW j \in Jobs, LoseLock(j) PROVE JobsTypeOK'
  BY <1>24 DEF LoseLock, Fault
<1>25. ASSUME NEW s \in Slugs, AdminCreates(s) PROVE JobsTypeOK'
  BY <1>25 DEF AdminCreates, Exists
<1>26. CASE UNCHANGED vars
  BY <1>26 DEF vars
<1>27. QED
  BY <1>1, <1>2, <1>3, <1>4, <1>5, <1>6, <1>7, <1>8, <1>9, <1>10, <1>11, <1>12, <1>13,
     <1>14, <1>15, <1>16, <1>17, <1>18, <1>19, <1>20, <1>21, <1>22, <1>23, <1>24,
     <1>25, <1>26 
     DEF Next, Request, Run

\* Runs forget what they knew when they end and hold their tenant once they configure it.
LEMMA LocalStep == JobsInv /\ [Next]_vars => LocalInv'
<1> SUFFICES ASSUME JobsInv, [Next]_vars PROVE LocalInv'
  OBVIOUS
<1> USE JobsAssumption DEF JobsInv, JobsTypeOK, LocalInv, Labels, rowVars, tenantVars, lockVars, localVars
<1>1. ASSUME NEW r \in Runs, NEW j \in Jobs, PostJob(r, j) PROVE LocalInv'
  BY <1>1 DEF PostJob, Enter, CreateJob, Begin, Goto
<1>2. ASSUME NEW r \in Runs, NEW j \in Jobs, SubmitSession(r, j) PROVE LocalInv'
  BY <1>2 DEF SubmitSession, Enter, CreateJob, Begin, Goto
<1>3. ASSUME NEW r \in Runs, NEW j \in Jobs, RetryJob(r, j) PROVE LocalInv'
  BY <1>3 DEF RetryJob, Enter, Goto
<1>4. ASSUME NEW r \in Runs, NEW j \in Jobs, RetryProvisioning(r, j) PROVE LocalInv'
  BY <1>4 DEF RetryProvisioning, Enter, Goto
<1>5. ASSUME NEW r \in Runs, MarkSubmitted(r) PROVE LocalInv'
  BY <1>5 DEF MarkSubmitted, Begin, Goto
<1>6. ASSUME NEW r \in Runs, TryLock(r) PROVE LocalInv'
  BY <1>6 DEF TryLock, Leave, Goto
<1>7. ASSUME NEW r \in Runs, RecheckStatus(r) PROVE LocalInv'
  BY <1>7 DEF RecheckStatus, Leave, Goto
<1>8. ASSUME NEW r \in Runs, ReadRow(r) PROVE LocalInv'
  BY <1>8 DEF ReadRow, Goto
<1>9. ASSUME NEW r \in Runs, MarkAccepted(r) PROVE LocalInv'
  BY <1>9 DEF MarkAccepted, UpdateJob, Begin, Goto
<1>10. ASSUME NEW r \in Runs, ReadJob(r) PROVE LocalInv'
  BY <1>10 DEF ReadJob, Leave, Goto
<1>11. ASSUME NEW r \in Runs, MarkRunning(r) PROVE LocalInv'
  BY <1>11 DEF MarkRunning, UpdateJob, Goto
<1>12. ASSUME NEW r \in Runs, Refuse(r) PROVE LocalInv'
  BY <1>12 DEF Refuse, Goto
<1>13. ASSUME NEW r \in Runs, LookUp(r) PROVE LocalInv'
  BY <1>13 DEF LookUp, Goto, Exists, Slug
<1>14. ASSUME NEW r \in Runs, CreateTenant(r) PROVE LocalInv'
  BY <1>14 DEF CreateTenant, Goto, Exists, Slug
<1>15. ASSUME NEW r \in Runs, Configure(r) PROVE LocalInv'
  BY <1>15 DEF Configure, Goto, Slug
<1>16. ASSUME NEW r \in Runs, Activate(r) PROVE LocalInv'
  BY <1>16 DEF Activate, UpdateJob, Goto, Slug
<1>17. ASSUME NEW r \in Runs, Succeed(r) PROVE LocalInv'
  BY <1>17 DEF Succeed, UpdateJob, Goto, Slug
<1>18. ASSUME NEW r \in Runs, Notify(r) PROVE LocalInv'
  BY <1>18 DEF Notify, Leave, Goto
<1>19. ASSUME NEW r \in Runs, Fail(r) PROVE LocalInv'
  BY <1>19 DEF Fail, Fault, Goto
<1>20. ASSUME NEW r \in Runs, CheckFailed(r) PROVE LocalInv'
  BY <1>20 DEF CheckFailed, Leave, Goto
<1>21. ASSUME NEW r \in Runs, MarkFailed(r) PROVE LocalInv'
  BY <1>21 DEF MarkFailed, UpdateJob, Goto, Slug
<1>22. ASSUME NEW r \in Runs, ReportFailure(r) PROVE LocalInv'
  BY <1>22 DEF ReportFailure, Leave, Goto
<1>23. ASSUME NEW r \in Runs, Crash(r) PROVE LocalInv'
  BY <1>23 DEF Crash, Fault, Leave, Goto
<1>24. ASSUME NEW j \in Jobs, LoseLock(j) PROVE LocalInv'
  BY <1>24 DEF LoseLock, Fault
<1>25. ASSUME NEW s \in Slugs, AdminCreates(s) PROVE LocalInv'
  BY <1>25 DEF AdminCreates, Exists
<1>26. CASE UNCHANGED vars
  BY <1>26 DEF vars
<1>27. QED
  BY <1>1, <1>2, <1>3, <1>4, <1>5, <1>6, <1>7, <1>8, <1>9, <1>10, <1>11, <1>12, <1>13,
     <1>14, <1>15, <1>16, <1>17, <1>18, <1>19, <1>20, <1>21, <1>22, <1>23, <1>24,
     <1>25, <1>26 
     DEF Next, Request, Run

\* No step lets a job name, configure or activate a number for another's tenant.
LEMMA OwnerStep == JobsInv /\ [Next]_vars => OwnerInv'
<1> SUFFICES ASSUME JobsInv, [Next]_vars PROVE OwnerInv'
  OBVIOUS
<1> USE JobsAssumption DEF JobsInv, JobsTypeOK, LocalInv, OwnerInv, OwnTenant,
           Owners, Labels, rowVars, tenantVars, lockVars, localVars
<1>1. ASSUME NEW r \in Runs, NEW j \in Jobs, PostJob(r, j) PROVE OwnerInv'
  BY <1>1 DEF PostJob, Enter, CreateJob, Begin, Goto
<1>2. ASSUME NEW r \in Runs, NEW j \in Jobs, SubmitSession(r, j) PROVE OwnerInv'
  BY <1>2 DEF SubmitSession, Enter, CreateJob, Begin, Goto
<1>3. ASSUME NEW r \in Runs, NEW j \in Jobs, RetryJob(r, j) PROVE OwnerInv'
  BY <1>3 DEF RetryJob, Enter, Goto
<1>4. ASSUME NEW r \in Runs, NEW j \in Jobs, RetryProvisioning(r, j) PROVE OwnerInv'
  BY <1>4 DEF RetryProvisioning, Enter, Goto
<1>5. ASSUME NEW r \in Runs, MarkSubmitted(r) PROVE OwnerInv'
  BY <1>5 DEF MarkSubmitted, Begin, Goto
<1>6. ASSUME NEW r \in Runs, TryLock(r) PROVE OwnerInv'
  BY <1>6 DEF TryLock, Leave, Goto
<1>7. ASSUME NEW r \in Runs, RecheckStatus(r) PROVE OwnerInv'
  BY <1>7 DEF RecheckStatus, Leave, Goto
<1>8. ASSUME NEW r \in Runs, ReadRow(r) PROVE OwnerInv'
  BY <1>8 DEF ReadRow, Goto
<1>9. ASSUME NEW r \in Runs, MarkAccepted(r) PROVE OwnerInv'
  BY <1>9 DEF MarkAccepted, UpdateJob, Begin, Goto
<1>10. ASSUME NEW r \in Runs, ReadJob(r) PROVE OwnerInv'
  BY <1>10 DEF ReadJob, Leave, Goto
<1>11. ASSUME NEW r \in Runs, MarkRunning(r) PROVE OwnerInv'
  BY <1>11 DEF MarkRunning, UpdateJob, Goto
<1>12. ASSUME NEW r \in Runs, Refuse(r) PROVE OwnerInv'
  BY <1>12 DEF Refuse, Goto
<1>13. ASSUME NEW r \in Runs, LookUp(r) PROVE OwnerInv'
  BY <1>13 DEF LookUp, Goto, Exists, Slug
<1>14. ASSUME NEW r \in Runs, CreateTenant(r) PROVE OwnerInv'
  BY <1>14 DEF CreateTenant, Goto, Exists, Slug
<1>15. ASSUME NEW r \in Runs, Configure(r) PROVE OwnerInv'
  BY <1>15 DEF Configure, Goto, Slug
<1>16. ASSUME NEW r \in Runs, Activate(r) PROVE OwnerInv'
  BY <1>16 DEF Activate, UpdateJob, Goto, Slug
<1>17. ASSUME NEW r \in Runs, Succeed(r) PROVE OwnerInv'
  BY <1>17 DEF Succeed, UpdateJob, Goto, Slug
<1>18. ASSUME NEW r \in Runs, Notify(r) PROVE OwnerInv'
  BY <1>18 DEF Notify, Leave, Goto
<1>19. ASSUME NEW r \in Runs, Fail(r) PROVE OwnerInv'
  BY <1>19 DEF Fail, Fault, Goto
<1>20. ASSUME NEW r \in Runs, CheckFailed(r) PROVE OwnerInv'
  BY <1>20 DEF CheckFailed, Leave, Goto
<1>21. ASSUME NEW r \in Runs, MarkFailed(r) PROVE OwnerInv'
  BY <1>21 DEF MarkFailed, UpdateJob, Goto, Slug
<1>22. ASSUME NEW r \in Runs, ReportFailure(r) PROVE OwnerInv'
  BY <1>22 DEF ReportFailure, Leave, Goto
<1>23. ASSUME NEW r \in Runs, Crash(r) PROVE OwnerInv'
  BY <1>23 DEF Crash, Fault, Leave, Goto
<1>24. ASSUME NEW j \in Jobs, LoseLock(j) PROVE OwnerInv'
  BY <1>24 DEF LoseLock, Fault
<1>25. ASSUME NEW s \in Slugs, AdminCreates(s) PROVE OwnerInv'
  BY <1>25 DEF AdminCreates, Exists
<1>26. CASE UNCHANGED vars
  BY <1>26 DEF vars
<1>27. QED
  BY <1>1, <1>2, <1>3, <1>4, <1>5, <1>6, <1>7, <1>8, <1>9, <1>10, <1>11, <1>12, <1>13,
     <1>14, <1>15, <1>16, <1>17, <1>18, <1>19, <1>20, <1>21, <1>22, <1>23, <1>24,
     <1>25, <1>26 
     DEF Next, Request, Run

\* A job is only marked succeeded together with its configured tenant.
LEMMA ProvisionedStep == JobsInv /\ [Next]_vars => ProvisionedInv'
<1> SUFFICES ASSUME JobsInv, [Next]_vars PROVE ProvisionedInv'
  OBVIOUS
<1> USE JobsAssumption DEF JobsInv, JobsTypeOK, LocalInv, OwnerInv, ProvisionedInv, SucceededIsProvisioned,
           Labels, rowVars, tenantVars, lockVars, localVars
<1>1. ASSUME NEW r \in Runs, NEW j \in Jobs, PostJob(r, j) PROVE ProvisionedInv'
  BY <1>1 DEF PostJob, Enter, CreateJob, Begin, Goto
<1>2. ASSUME NEW r \in Runs, NEW j \in Jobs, SubmitSession(r, j) PROVE ProvisionedInv'
  BY <1>2 DEF SubmitSession, Enter, CreateJob, Begin, Goto
<1>3. ASSUME NEW r \in Runs, NEW j \in Jobs, RetryJob(r, j) PROVE ProvisionedInv'
  BY <1>3 DEF RetryJob, Enter, Goto
<1>4. ASSUME NEW r \in Runs, NEW j \in Jobs, RetryProvisioning(r, j) PROVE ProvisionedInv'
  BY <1>4 DEF RetryProvisioning, Enter, Goto
<1>5. ASSUME NEW r \in Runs, MarkSubmitted(r) PROVE ProvisionedInv'
  BY <1>5 DEF MarkSubmitted, Begin, Goto
<1>6. ASSUME NEW r \in Runs, TryLock(r) PROVE ProvisionedInv'
  BY <1>6 DEF TryLock, Leave, Goto
<1>7. ASSUME NEW r \in Runs, RecheckStatus(r) PROVE ProvisionedInv'
  BY <1>7 DEF RecheckStatus, Leave, Goto
<1>8. ASSUME NEW r \in Runs, ReadRow(r) PROVE ProvisionedInv'
  BY <1>8 DEF ReadRow, Goto
<1>9. ASSUME NEW r \in Runs, MarkAccepted(r) PROVE ProvisionedInv'
  BY <1>9 DEF MarkAccepted, UpdateJob, Begin, Goto
<1>10. ASSUME NEW r \in Runs, ReadJob(r) PROVE ProvisionedInv'
  BY <1>10 DEF ReadJob, Leave, Goto
<1>11. ASSUME NEW r \in Runs, MarkRunning(r) PROVE ProvisionedInv'
  BY <1>11 DEF MarkRunning, UpdateJob, Goto
<1>12. ASSUME NEW r \in Runs, Refuse(r) PROVE ProvisionedInv'
  BY <1>12 DEF Refuse, Goto
<1>13. ASSUME NEW r \in Runs, LookUp(r) PROVE ProvisionedInv'
  BY <1>13 DEF LookUp, Goto, Exists, Slug
<1>14. ASSUME NEW r \in Runs, CreateTenant(r) PROVE ProvisionedInv'
  BY <1>14 DEF CreateTenant, Goto, Exists, Slug
<1>15. ASSUME NEW r \in Runs, Configure(r) PROVE ProvisionedInv'
  BY <1>15 DEF Configure, Goto, Slug
<1>16. ASSUME NEW r \in Runs, Activate(r) PROVE ProvisionedInv'
  BY <1>16 DEF Activate, UpdateJob, Goto, Slug
<1>17. ASSUME NEW r \in Runs, Succeed(r) PROVE ProvisionedInv'
  BY <1>17 DEF Succeed, UpdateJob, Goto, Slug
<1>18. ASSUME NEW r \in Runs, Notify(r) PROVE ProvisionedInv'
  BY <1>18 DEF Notify, Leave, Goto
<1>19. ASSUME NEW r \in Runs, Fail(r) PROVE ProvisionedInv'
  BY <1>19 DEF Fail, Fault, Goto
<1>20. ASSUME NEW r \in Runs, CheckFailed(r) PROVE ProvisionedInv'
  BY <1>20 DEF CheckFailed, Leave, Goto
<1>21. ASSUME NEW r \in Runs, MarkFailed(r) PROVE ProvisionedInv'
  BY <1>21 DEF MarkFailed, UpdateJob, Goto, Slug
<1>22. ASSUME NEW r \in Runs, ReportFailure(r) PROVE ProvisionedInv'
  BY <1>22 DEF ReportFailure, Leave, Goto
<1>23. ASSUME NEW r \in Runs, Crash(r) PROVE ProvisionedInv'
  BY <1>23 DEF Crash, Fault, Leave, Goto
<1>24. ASSUME NEW j \in Jobs, LoseLock(j) PROVE ProvisionedInv'
  BY <1>24 DEF LoseLock, Fault
<1>25. ASSUME NEW s \in Slugs, AdminCreates(s) PROVE ProvisionedInv'
  BY <1>25 DEF AdminCreates, Exists
<1>26. CASE UNCHANGED vars
  BY <1>26 DEF vars
<1>27. QED
  BY <1>1, <1>2, <1>3, <1>4, <1>5, <1>6, <1>7, <1>8, <1>9, <1>10, <1>11, <1>12, <1>13,
     <1>14, <1>15, <1>16, <1>17, <1>18, <1>19, <1>20, <1>21, <1>22, <1>23, <1>24,
     <1>25, <1>26 
     DEF Next, Request, Run

\* No step of one run interferes with a run that has the provisioning lock.
LEMMA LockStep == JobsInv /\ LockInv /\ [Next]_vars => LockInv'
<1> SUFFICES ASSUME JobsInv, LockInv, [Next]_vars PROVE LockInv'
  OBVIOUS
<1> USE JobsAssumption DEF JobsInv, JobsTypeOK, LockInv, LockHolds, Locked, Unfinished,
           Labels, rowVars, tenantVars, lockVars, localVars
<1>1. ASSUME NEW r \in Runs, NEW j \in Jobs, PostJob(r, j) PROVE LockInv'
  BY <1>1 DEF PostJob, Enter, CreateJob, Begin, Goto
<1>2. ASSUME NEW r \in Runs, NEW j \in Jobs, SubmitSession(r, j) PROVE LockInv'
  BY <1>2 DEF SubmitSession, Enter, CreateJob, Begin, Goto
<1>3. ASSUME NEW r \in Runs, NEW j \in Jobs, RetryJob(r, j) PROVE LockInv'
  BY <1>3 DEF RetryJob, Enter, Goto
<1>4. ASSUME NEW r \in Runs, NEW j \in Jobs, RetryProvisioning(r, j) PROVE LockInv'
  BY <1>4 DEF RetryProvisioning, Enter, Goto
<1>5. ASSUME NEW r \in Runs, MarkSubmitted(r) PROVE LockInv'
  BY <1>5 DEF MarkSubmitted, Begin, Goto
<1>6. ASSUME NEW r \in Runs, TryLock(r) PROVE LockInv'
  <2>1. CASE Leave(r)
    BY <1>6, <2>1, LeaveLocks DEF TryLock
  <2>2. CASE ~Leave(r)
    BY <1>6, <2>2 DEF TryLock, Goto
  <2>3. QED
    BY <2>1, <2>2
<1>7. ASSUME NEW r \in Runs, RecheckStatus(r) PROVE LockInv'
  <2>1. CASE Leave(r)
    BY <1>7, <2>1, LeaveLocks DEF RecheckStatus
  <2>2. CASE ~Leave(r)
    BY <1>7, <2>2 DEF RecheckStatus, Goto
  <2>3. QED
    BY <2>1, <2>2
<1>8. ASSUME NEW r \in Runs, ReadRow(r) PROVE LockInv'
  BY <1>8 DEF ReadRow, Goto
<1>9. ASSUME NEW r \in Runs, MarkAccepted(r) PROVE LockInv'
  BY <1>9 DEF MarkAccepted, UpdateJob, Begin, Goto
<1>10. ASSUME NEW r \in Runs, ReadJob(r) PROVE LockInv'
  <2>1. CASE Leave(r)
    BY <1>10, <2>1, LeaveLocks DEF ReadJob
  <2>2. CASE ~Leave(r)
    BY <1>10, <2>2 DEF ReadJob, Goto
  <2>3. QED
    BY <2>1, <2>2
<1>11. ASSUME NEW r \in Runs, MarkRunning(r) PROVE LockInv'
  BY <1>11 DEF MarkRunning, UpdateJob, Goto
<1>12. ASSUME NEW r \in Runs, Refuse(r) PROVE LockInv'
  BY <1>12 DEF Refuse, Goto
<1>13. ASSUME NEW r \in Runs, LookUp(r) PROVE LockInv'
  BY <1>13 DEF LookUp, Goto, Exists, Slug
<1>14. ASSUME NEW r \in Runs, CreateTenant(r) PROVE LockInv'
  BY <1>14 DEF CreateTenant, Goto, Exists, Slug
<1>15. ASSUME NEW r \in Runs, Configure(r) PROVE LockInv'
  BY <1>15 DEF Configure, Goto, Slug
<1>16. ASSUME NEW r \in Runs, Activate(r) PROVE LockInv'
  <2>1. SUFFICES ASSUME NEW j \in WhatsAppJobs \ lost PROVE LockHolds(j)'
    BY <1>16 DEF Activate
  <2>2. CASE j # work[r]
    BY <1>16, <2>2 DEF Activate, UpdateJob, Goto
  <2>3. CASE j = work[r] /\ pc'[r] = "notifying"
    <3>1. connection'[j] = SlugOf[j] /\ status'[j] = "succeeded"
      BY <1>16, <2>3 DEF Activate, UpdateJob, Goto, Slug
    <3>2. \A q \in Runs \ {r} : work[q] = j => pc[q] \notin Locked
      BY <1>16, <2>3 DEF Activate
    <3>3. /\ UNCHANGED <<work, lock>>
          /\ \A q \in Runs \ {r} : pc'[q] = pc[q]
      BY <1>16 DEF Activate, Goto
    <3>4. lock[j] = r
      BY <1>16, <2>3 DEF Activate
    <3>5. QED
      BY <2>3, <3>1, <3>2, <3>3, <3>4
  <2>4. CASE j = work[r] /\ pc'[r] # "notifying"
    BY <1>16, <2>4 DEF Activate, Goto
  <2>5. QED
    BY <2>2, <2>3, <2>4
<1>17. ASSUME NEW r \in Runs, Succeed(r) PROVE LockInv'
  BY <1>17 DEF Succeed, UpdateJob, Goto, Slug
<1>18. ASSUME NEW r \in Runs, Notify(r) PROVE LockInv'
  BY <1>18 DEF Notify, Leave, Goto
<1>19. ASSUME NEW r \in Runs, Fail(r) PROVE LockInv'
  BY <1>19 DEF Fail, Fault, Goto
<1>20. ASSUME NEW r \in Runs, CheckFailed(r) PROVE LockInv'
  <2>1. CASE Leave(r)
    BY <1>20, <2>1, LeaveLocks DEF CheckFailed
  <2>2. CASE ~Leave(r)
    BY <1>20, <2>2 DEF CheckFailed, Goto
  <2>3. QED
    BY <2>1, <2>2
<1>21. ASSUME NEW r \in Runs, MarkFailed(r) PROVE LockInv'
  BY <1>21 DEF MarkFailed, UpdateJob, Goto, Slug
<1>22. ASSUME NEW r \in Runs, ReportFailure(r) PROVE LockInv'
  BY <1>22 DEF ReportFailure, Leave, Goto
<1>23. ASSUME NEW r \in Runs, Crash(r) PROVE LockInv'
  BY <1>23 DEF Crash, Fault, Leave, Goto
<1>24. ASSUME NEW j \in Jobs, LoseLock(j) PROVE LockInv'
  BY <1>24 DEF LoseLock, Fault
<1>25. ASSUME NEW s \in Slugs, AdminCreates(s) PROVE LockInv'
  BY <1>25 DEF AdminCreates, Exists
<1>26. CASE UNCHANGED vars
  BY <1>26 DEF vars
<1>27. QED
  BY <1>1, <1>2, <1>3, <1>4, <1>5, <1>6, <1>7, <1>8, <1>9, <1>10, <1>11, <1>12, <1>13,
     <1>14, <1>15, <1>16, <1>17, <1>18, <1>19, <1>20, <1>21, <1>22, <1>23, <1>24,
     <1>25, <1>26 
     DEF Next, Request, Run

\* The strengthened invariant holds in every reachable state.
THEOREM JobsInductive == Spec => []JobsInv
<1>1. Init => JobsInv
  BY JobsAssumption DEF Init, JobsInv, JobsTypeOK, Owners, Labels, OwnerInv, OwnTenant, LocalInv,
     ProvisionedInv, SucceededIsProvisioned
<1>2. JobsInv /\ [Next]_vars => JobsInv'
  BY JobsTypeStep, LocalStep, OwnerStep, ProvisionedStep DEF JobsInv
<1>3. QED
  BY <1>1, <1>2, PTL DEF Spec

\* Rows, locks and local variables keep to their types in any number of runs.
THEOREM JobsTypeCorrect == Spec => []JobsTypeOK
<1>1. JobsInv => JobsTypeOK
  BY DEF JobsInv
<1>2. QED
  BY <1>1, JobsInductive, PTL

\* A tenant is written, linked and made answerable by the job that created it and by no
\* other, whatever the interleaving of lookups, insertions and failures, locks or not.
THEOREM TenantsKeepTheirOwner == Spec => []TenantHasOneOwner
<1>1. JobsInv => TenantHasOneOwner
  BY DEF JobsInv, OwnerInv, OwnTenant, TenantHasOneOwner, JobsTypeOK
<1>2. QED
  BY <1>1, JobsInductive, PTL

\* Whoever sees a job succeeded finds its tenant linked and configured.
THEOREM SuccessMeansProvisioned == Spec => []SucceededIsProvisioned
<1>1. JobsInv => SucceededIsProvisioned
  BY DEF JobsInv, ProvisionedInv
<1>2. QED
  BY <1>1, JobsInductive, PTL

\* A number is active exactly when its job succeeded, as long as the lock is not lost.
THEOREM ActivationIsAtomic == Spec => []ActivationAtomic
<1>1. Init => LockInv
  BY JobsAssumption DEF Init, LockInv, LockHolds, Locked, Unfinished, Labels
<1>2. LockInv => ActivationAtomic
  BY DEF LockInv, LockHolds, ActivationAtomic
<1>3. JobsInv /\ LockInv /\ [Next]_vars => LockInv'
  BY LockStep
<1>4. QED
  BY <1>1, <1>2, <1>3, JobsInductive, PTL DEF Spec

-----------------------------------------------------------------------------
(* The promise to businesses *)

\* Writing one row changes the progress of one job.
LEMMA ProgressOfOne ==
    ASSUME JobsTypeOK, NEW j \in Jobs, NEW s \in {"accepted", "running", "succeeded", "failed"},
           NEW t, t = IF s = "succeeded" THEN s ELSE "open",
           status' = [status EXCEPT ![j] = s]
    PROVE  Progress' = [Progress EXCEPT ![j] = t]
<1>1. ASSUME NEW i \in Jobs PROVE Progress'[i] = [Progress EXCEPT ![j] = t][i]
  <2>1. CASE i = j
    BY <2>1 DEF Progress, JobsTypeOK
  <2>2. CASE i # j
    BY <2>2 DEF Progress, JobsTypeOK
  <2>3. QED
    BY <2>1, <2>2
<1>2. /\ Progress' = [i \in Jobs |-> Progress'[i]]
      /\ [Progress EXCEPT ![j] = t] = [i \in Jobs |-> [Progress EXCEPT ![j] = t][i]]
  BY DEF Progress
<1>3. QED
  BY <1>1, <1>2

\* What is not written stays as it is for businesses.
LEMMA ProvisioningStutters ==
    ASSUME Progress' = Progress, UNCHANGED <<creator, writers, connection, lost>>
    PROVE  UNCHANGED Provisioning!vars
  BY DEF Provisioning!vars, Answering

\* A row that is written without success: a request, the end of a success that nothing
\* guarded, or no change.
LEMMA RowWrite ==
    ASSUME JobsTypeOK, NEW j \in Jobs, NEW s \in {"accepted", "running", "failed"},
           status' = [status EXCEPT ![j] = s],
           j \in WhatsAppJobs \ lost => status[j] # "succeeded",
           UNCHANGED <<tenantVars, lost>>
    PROVE  Provisioning!Next \/ UNCHANGED Provisioning!vars
<1> USE DEF tenantVars
<1>1. Progress' = [Progress EXCEPT ![j] = "open"]
  BY ProgressOfOne
<1>2. CASE status[j] = "none"
  <2>1. Provisioning!Request(j)
    BY <1>1, <1>2 DEF Provisioning!Request, Progress, Answering
  <2>2. QED
    BY <2>1 DEF Provisioning!Next
<1>3. CASE status[j] = "succeeded"
  <2>1. Provisioning!Reopen(j)
    BY <1>1, <1>3 DEF Provisioning!Reopen, Answering
  <2>2. QED
    BY <2>1 DEF Provisioning!Next
<1>4. CASE status[j] \notin {"none", "succeeded"}
  <2>1. Progress[j] = "open" /\ Progress = [i \in Jobs |-> Progress[i]]
    BY <1>4 DEF Progress
  <2>2. Progress' = Progress
    BY <1>1, <2>1
  <2>3. QED
    BY <2>2, ProvisioningStutters
<1>5. QED
  BY <1>2, <1>3, <1>4

\* A job that succeeds has configured its tenant, and its number goes live with it.
LEMMA SuccessWrite ==
    ASSUME JobsInv, NEW r \in Runs, Activate(r) \/ Succeed(r), pc'[r] = "notifying"
    PROVE  \E j \in Jobs : Provisioning!Succeed(j)
<1> USE JobsAssumption DEF JobsInv, JobsTypeOK
<1>1. /\ work[r] \in Jobs /\ pc[r] = "activating"
      /\ work[r] \in writers[SlugOf[work[r]]]
  BY DEF Activate, Succeed, ProvisionedInv
<1>2. /\ status' = [status EXCEPT ![work[r]] = "succeeded"]
      /\ UNCHANGED <<creator, writers, lost>>
  BY DEF Activate, Succeed, UpdateJob, Goto, tenantVars, lockVars
<1>3. Progress' = [Progress EXCEPT ![work[r]] = "succeeded"]
  BY <1>1, <1>2, ProgressOfOne
<1>4. Answering' = Answering \union ({work[r]} \intersect WhatsAppJobs)
  <2>1. CASE work[r] \in WhatsAppJobs
    <3>1. connection' = [connection EXCEPT ![work[r]] = SlugOf[work[r]]]
      BY <2>1 DEF Activate, Succeed, Goto, Slug
    <3>2. SlugOf[work[r]] # NoTenant
      BY <1>1
    <3>3. QED
      BY <2>1, <3>1, <3>2, <1>1 DEF Answering
  <2>2. CASE work[r] \notin WhatsAppJobs
    <3>1. connection' = connection
      BY <2>2 DEF Activate, Succeed, tenantVars
    <3>2. QED
      BY <2>2, <3>1 DEF Answering
  <2>3. QED
    BY <2>1, <2>2
<1>5. QED
  BY <1>1, <1>2, <1>3, <1>4 DEF Provisioning!Succeed

\* Every step of the requests and runs is a step of TenantProvisioning or changes nothing there.
LEMMA ProvisioningStep ==
    JobsInv /\ LockInv /\ [Next]_vars => [Provisioning!Next]_Provisioning!vars
<1> SUFFICES ASSUME JobsInv, LockInv, [Next]_vars
             PROVE  Provisioning!Next \/ UNCHANGED Provisioning!vars
  OBVIOUS
<1> USE JobsAssumption DEF rowVars, tenantVars, lockVars, localVars
<1>a. /\ status' = status => Progress' = Progress
      /\ connection' = connection => Answering' = Answering
  BY DEF Progress, Answering
<1>b. \A r \in Runs : pc[r] # "idle" => work[r] \in Jobs
  BY DEF JobsInv, JobsTypeOK
<1>1. ASSUME NEW r \in Runs, NEW j \in Jobs, PostJob(r, j) \/ SubmitSession(r, j)
      PROVE  Provisioning!Next \/ UNCHANGED Provisioning!vars
  <2>1. UNCHANGED <<tenantVars, lost>>
    BY <1>1 DEF PostJob, SubmitSession
  <2>2. CASE status' = status
    BY <2>1, <2>2, <1>a, ProvisioningStutters
  <2>3. CASE status' # status
    <3>1. status[j] = "none" /\ status' = [status EXCEPT ![j] = "accepted"]
      BY <1>1, <2>3 DEF PostJob, SubmitSession, CreateJob
    <3>2. QED
      BY <2>1, <3>1, RowWrite DEF JobsInv
  <2>4. QED
    BY <2>2, <2>3
<1>2. ASSUME NEW r \in Runs, MarkAccepted(r) \/ MarkRunning(r) \/ MarkFailed(r)
      PROVE  Provisioning!Next \/ UNCHANGED Provisioning!vars
  <2>1. /\ pc[r] \in {"accepted", "started", "marking"}
        /\ UNCHANGED <<tenantVars, lost>>
    BY <1>2 DEF MarkAccepted, MarkRunning, MarkFailed
  <2>2. work[r] \in Jobs
    BY <2>1, <1>b
  <2>3. PICK s \in {"accepted", "running", "failed"} : status' = [status EXCEPT ![work[r]] = s]
    BY <1>2 DEF MarkAccepted, MarkRunning, MarkFailed, UpdateJob
  <2>4. work[r] \in WhatsAppJobs \ lost => status[work[r]] # "succeeded"
    BY <2>1 DEF LockInv, LockHolds, Unfinished, Locked, Labels
  <2>5. QED
    BY <2>1, <2>2, <2>3, <2>4, RowWrite DEF JobsInv
<1>3. ASSUME NEW r \in Runs, CreateTenant(r)
      PROVE  Provisioning!Next \/ UNCHANGED Provisioning!vars
  <2>1. UNCHANGED <<status, writers, connection, lost>>
    BY <1>3 DEF CreateTenant
  <2>2. CASE creator' = creator
    BY <2>1, <2>2, <1>a, ProvisioningStutters
  <2>3. CASE creator' # creator
    <3>1. work[r] \in Jobs
      BY <1>3, <1>b DEF CreateTenant
    <3>2. creator[SlugOf[work[r]]] = NoOne
      <4>1. tenant[r] # "found" /\ (tenant[r] = "none" => ~Exists(Slug(r)))
        BY <1>3, <2>3 DEF CreateTenant
      <4>2. CASE tenant[r] = "none"
        BY <4>1, <4>2 DEF Exists, Slug
      <4>3. CASE tenant[r] = "held"
        \* The tenant would already be the job's own, and nothing would change.
        <5>1. creator[SlugOf[work[r]]] = work[r]
          BY <1>3, <4>3 DEF CreateTenant, JobsInv, OwnerInv
        <5>2. creator' = [creator EXCEPT ![SlugOf[work[r]]] = work[r]]
          BY <1>3, <2>3 DEF CreateTenant, Slug
        <5>3. QED
          BY <5>1, <5>2, <2>3 DEF JobsInv, JobsTypeOK
      <4>4. QED
        BY <4>1, <4>2, <4>3 DEF JobsInv, JobsTypeOK
    <3>3. creator' = [creator EXCEPT ![SlugOf[work[r]]] = work[r]]
      BY <1>3, <2>3 DEF CreateTenant, Slug
    <3>4. Provisioning!Create(SlugOf[work[r]], work[r])
      BY <2>1, <3>2, <3>3, <1>a DEF Provisioning!Create
    <3>5. QED
      BY <3>1, <3>4 DEF Provisioning!Next
  <2>4. QED
    BY <2>2, <2>3
<1>4. ASSUME NEW r \in Runs, Configure(r)
      PROVE  Provisioning!Next
  <2>1. work[r] \in Jobs /\ creator[SlugOf[work[r]]] = work[r]
    BY <1>4, <1>b DEF Configure, JobsInv, LocalInv, OwnerInv
  <2>2. /\ writers' = [writers EXCEPT ![SlugOf[work[r]]] = @ \union {work[r]}]
        /\ UNCHANGED <<status, creator, connection, lost>>
    BY <1>4 DEF Configure, Slug
  <2>3. Provisioning!Configure(work[r])
    BY <2>1, <2>2, <1>a DEF Provisioning!Configure
  <2>4. QED
    BY <2>1, <2>3 DEF Provisioning!Next
<1>5. ASSUME NEW r \in Runs, Activate(r) \/ Succeed(r)
      PROVE  Provisioning!Next \/ UNCHANGED Provisioning!vars
  <2>1. CASE pc'[r] = "notifying"
    BY <1>5, <2>1, SuccessWrite DEF Provisioning!Next
  <2>2. CASE pc'[r] # "notifying"
    <3>1. UNCHANGED <<status, creator, writers, connection, lost>>
      BY <1>5, <2>2 DEF Activate, Succeed, Goto, JobsInv, JobsTypeOK
    <3>2. QED
      BY <3>1, <1>a, ProvisioningStutters
  <2>3. QED
    BY <2>1, <2>2
<1>6. ASSUME NEW j \in Jobs, LoseLock(j)
      PROVE  Provisioning!Next
  <2>1. WhatsAppJobs \ lost' = (WhatsAppJobs \ lost) \ {j}
    BY <1>6 DEF LoseLock
  <2>2. Provisioning!LoseGuard(j)
    BY <1>6, <2>1, <1>a DEF LoseLock, Provisioning!LoseGuard
  <2>3. QED
    BY <2>2 DEF Provisioning!Next
<1>7. ASSUME NEW s \in Slugs, AdminCreates(s)
      PROVE  Provisioning!Next
  BY <1>7, <1>a DEF AdminCreates, Exists, Provisioning!Create, Provisioning!Next
<1>8. ASSUME UNCHANGED <<status, creator, writers, connection, lost>>
      PROVE  UNCHANGED Provisioning!vars
  BY <1>8, <1>a, ProvisioningStutters
<1>9. ASSUME NEW r \in Runs,
             \/ \E j \in Jobs : RetryJob(r, j) \/ RetryProvisioning(r, j)
             \/ MarkSubmitted(r) \/ TryLock(r) \/ RecheckStatus(r) \/ ReadRow(r)
             \/ ReadJob(r) \/ Refuse(r) \/ LookUp(r) \/ Notify(r) \/ Fail(r)
             \/ CheckFailed(r) \/ ReportFailure(r) \/ Crash(r)
      PROVE  UNCHANGED <<status, creator, writers, connection, lost>>
  BY <1>9 DEF RetryJob, RetryProvisioning, MarkSubmitted, TryLock, RecheckStatus, ReadRow, ReadJob,
              Refuse, LookUp, Notify, Fail, CheckFailed, ReportFailure, Crash
<1>10. CASE UNCHANGED vars
  BY <1>10, <1>8 DEF vars
<1>11. QED
  BY <1>1, <1>2, <1>3, <1>4, <1>5, <1>6, <1>7, <1>8, <1>9, <1>10, Zenon DEF Next, Request, Run

\* The runs implement the promise made to businesses.
THEOREM RefinesProvisioning == Spec => ImplementsProvisioning
<1>1. Init => Provisioning!Init
  <2> SUFFICES ASSUME Init PROVE Provisioning!Init
    OBVIOUS
  <2>1. Progress = [j \in Jobs |-> "none"]
    BY DEF Init, Progress
  <2>2. Answering = {}
    BY JobsAssumption DEF Init, Answering
  <2>3. QED
    BY <2>1, <2>2 DEF Init, Provisioning!Init
<1>2. Init => LockInv
  BY JobsAssumption DEF Init, LockInv, LockHolds, Locked, Unfinished, Labels
<1>3. JobsInv /\ LockInv /\ [Next]_vars => LockInv'
  BY LockStep
<1>4. QED
  BY <1>1, <1>2, <1>3, ProvisioningStep, JobsInductive, PTL
     DEF Spec, ImplementsProvisioning, Provisioning!Spec
=============================================================================
