--------------------------- MODULE IssueProcessing ---------------------------
(***************************************************************************)
(* The per-conversation chain of issue turns.                              *)
(*                                                                         *)
(* app/adapters/issues.py (PostgresIssueRepository) keeps the turns and    *)
(* the one open issue of a conversation in PostgreSQL; app/issues.py       *)
(* (IssueService) folds each turn into the issue from PgQueuer workers on  *)
(* several replicas.  The module models one conversation: conversations    *)
(* share no row and no lock, only the number of workers.                   *)
(*                                                                         *)
(* A turn is named by its customer event.  Its reply row is inserted, with *)
(* its queue job, in one transaction; sequence numbers come from a         *)
(* PostgreSQL sequence and so are allocated before the transaction that    *)
(* uses them commits.  A turn with an unfinished predecessor is parked at  *)
(* year 9999; finishing the predecessor releases it.                       *)
(***************************************************************************)
EXTENDS Naturals, FiniteSets

CONSTANTS
    Events,          \* customer events of the conversation, one turn each
    Workers,         \* job executions the replicas can run at once
    NoOne,           \* the processing lock is free
    NoEvent,         \* no turn
    MaxRetries,      \* DatabaseRetryEntrypointExecutor(max_attempts=...)
    MaxFaults,       \* bound on failures, crashes, lost leases and lost locks
    MaxAborts        \* bound on rolled back enqueue transactions

ASSUME ConstantsAssumption ==
    /\ NoOne \notin Workers
    /\ NoEvent \notin Events
    /\ MaxRetries \in Nat
    /\ MaxFaults \in Nat
    /\ MaxAborts \in Nat

VARIABLES
    nextSeq,      \* the messages.issue_sequence generator: last value handed out
    custSeq,      \* custSeq[e]: issue_sequence of the customer row, 0 if absent
    replySeq,     \* replySeq[e]: issue_sequence of the reply row, 0 if absent
    saved,        \* turns whose reply row and job are committed
    inScope,      \* turns whose two messages are in scope
    delivered,    \* turns whose reply has delivery # 'unknown'
    processed,    \* turns with issue_processed_at set
    completed,    \* turns with issue_completed_at set
    linked,       \* turns whose messages have an issue_id
    sentiments,   \* rows of conversation_turn_sentiments
    issue,        \* the open issue; version 0 when there is none
    job,          \* job[e]: the pgqueuer row of the turn
    convLock,     \* the turn whose enqueue transaction holds the conversation row
    lock,         \* holder of the advisory processing lock
    pc,           \* pc[w]: where execution w is
    ev,           \* ev[w]: the turn it executes
    snap,         \* snap[w]: what repository.snapshot returned
    target,       \* target[w]: the issue version embedding_target returned
    ready,        \* has a replica initialized the tables and begun to serve?
    faults,       \* faults so far, at most MaxFaults
    aborts        \* rolled back enqueues so far, at most MaxAborts

messageVars == <<nextSeq, custSeq, replySeq, saved, inScope, delivered>>
progressVars == <<processed, completed, linked, sentiments, issue>>
workerVars == <<pc, ev, snap, target>>
boundVars == <<faults, aborts>>
vars == <<messageVars, progressVars, job, convLock, lock, workerVars, ready, boundVars>>

-----------------------------------------------------------------------------
(* Helpers *)

Job(status, after, attempts) ==
    [status |-> status, after |-> after, attempts |-> attempts]

NoJob == Job("none", "far", 0)

NoSnapshot == [version |-> 0, preceding |-> {}]

\* Variant: the embedding phase of a predecessor is not waited for.
UnfinishedSummaryOnly(f, seq) == f \in saved \ processed /\ replySeq[f] < seq

\* Is f an unfinished turn that was queued before the turn numbered seq?
Unfinished(f, seq) == f \in saved \ completed /\ replySeq[f] < seq

Blocked(e) == \E f \in Events : Unfinished(f, replySeq[e])

\* The unfinished turn with the smallest sequence number, the one finish releases.
IsHead(e, done) ==
    /\ e \in saved \ done
    /\ \A f \in saved \ done : replySeq[e] <= replySeq[f]

\* Variant: the last reply at all, whatever the customer message it follows.
PrecedingReplyLatest(seq) ==
    {g \in saved : \A h \in saved : replySeq[h] <= replySeq[g]}

\* The last reply before position seq (ORDER BY ... DESC LIMIT 1: no row or one).
PrecedingReply(seq) ==
    {g \in saved : /\ replySeq[g] < seq
                   /\ \A h \in saved : replySeq[h] < seq => replySeq[h] <= replySeq[g]}

\* Execution w is over; nothing of it is left.
Leave(w) ==
    /\ pc' = [pc EXCEPT ![w] = "idle"]
    /\ ev' = [ev EXCEPT ![w] = NoEvent]
    /\ snap' = [snap EXCEPT ![w] = NoSnapshot]
    /\ target' = [target EXCEPT ![w] = 0]

Fault == faults < MaxFaults /\ faults' = faults + 1

-----------------------------------------------------------------------------
(* The graph's side: customer message, reply with its job, delivery outcome. *)

\* persist_customer_message: ON CONFLICT DO NOTHING makes a redelivered event a no-op.
SaveCustomer(e) ==
    /\ ready
    /\ custSeq[e] = 0
    /\ nextSeq' = nextSeq + 1
    /\ custSeq' = [custSeq EXCEPT ![e] = nextSeq + 1]
    /\ UNCHANGED <<replySeq, saved, inScope, delivered, progressVars, job, convLock,
                   lock, workerVars, ready, boundVars>>

\* enqueue locks the conversation row, then the INSERT takes its sequence number.
BeginEnqueue(e) ==
    /\ ready
    /\ custSeq[e] # 0 /\ e \notin saved
    /\ convLock = NoEvent
    /\ convLock' = e
    /\ nextSeq' = nextSeq + 1
    /\ replySeq' = [replySeq EXCEPT ![e] = nextSeq + 1]
    /\ UNCHANGED <<custSeq, saved, inScope, delivered, progressVars, job, lock,
                   workerVars, ready, boundVars>>

\* The transaction commits: 60 seconds of grace, or parked behind a predecessor.
CommitEnqueue(e) ==
    /\ convLock = e
    /\ convLock' = NoEvent
    /\ saved' = saved \union {e}
    /\ \/ inScope' = inScope \union {e}
       \/ UNCHANGED inScope
    /\ job' = [job EXCEPT ![e] = Job("queued", IF Blocked(e) THEN "far" ELSE "later", 0)]
    /\ UNCHANGED <<nextSeq, custSeq, replySeq, delivered, progressVars, lock, workerVars,
                   ready, boundVars>>

\* The transaction rolls back; its sequence number is lost.
AbortEnqueue(e) ==
    /\ convLock = e
    /\ convLock' = NoEvent
    /\ aborts < MaxAborts /\ aborts' = aborts + 1
    /\ replySeq' = [replySeq EXCEPT ![e] = 0]
    /\ UNCHANGED <<nextSeq, custSeq, saved, inScope, delivered, progressVars, job, lock,
                   workerVars, ready, faults>>

\* Variant: a delivered reply is expedited although a predecessor is unfinished.
DeliverUngated(e) ==
    /\ ready
    /\ e \in saved
    /\ delivered' = delivered \union {e}
    /\ job' = IF job[e].status = "queued" /\ job[e].attempts = 0
              THEN [job EXCEPT ![e].after = "now"]
              ELSE job
    /\ UNCHANGED <<nextSeq, custSeq, replySeq, saved, inScope, progressVars, convLock, lock,
                   workerVars, ready, boundVars>>

\* delivery: record the outcome and expedite the job unless a predecessor is unfinished.
Deliver(e) ==
    /\ ready
    /\ e \in saved
    /\ \/ delivered' = delivered \union {e}      \* accepted or failed
       \/ delivered' = delivered \ {e}           \* unknown
    /\ job' = IF job[e].status = "queued" /\ job[e].attempts = 0 /\ ~Blocked(e)
              THEN [job EXCEPT ![e].after = "now"]
              ELSE job
    /\ UNCHANGED <<nextSeq, custSeq, replySeq, saved, inScope, progressVars, convLock, lock,
                   workerVars, ready, boundVars>>

-----------------------------------------------------------------------------
(* PgQueuer: claim, lease recovery, retry, hold and replay. *)

\* A finite execute_after passes.
TimePasses(e) ==
    /\ job[e].status = "queued" /\ job[e].after = "later"
    /\ job' = [job EXCEPT ![e].after = "now"]
    /\ UNCHANGED <<messageVars, progressVars, convLock, lock, workerVars, ready, boundVars>>

Start(w, e) ==
    /\ pc[w] = "idle"
    /\ pc' = [pc EXCEPT ![w] = "waiting"]
    /\ ev' = [ev EXCEPT ![w] = e]
    /\ job' = [job EXCEPT ![e].status = "picked"]

Claim(w, e) ==
    /\ ready
    /\ job[e].status = "queued" /\ job[e].after = "now"
    /\ Start(w, e)
    /\ UNCHANGED <<messageVars, progressVars, convLock, lock, snap, target, ready, boundVars>>

Executing(e) == \E w \in Workers : pc[w] # "idle" /\ ev[w] = e

\* The heartbeat of a picked job lapsed: its execution crashed, or is only slow
\* (a fault), in which case the stale execution goes on.
Recover(w, e) ==
    /\ ready
    /\ job[e].status = "picked"
    /\ IF Executing(e) THEN Fault ELSE UNCHANGED faults
    /\ Start(w, e)
    /\ UNCHANGED <<messageVars, progressVars, convLock, lock, snap, target, ready, aborts>>

\* requeue_jobs: the operator replays a held job.
Replay(e) ==
    /\ job[e].status = "failed"
    /\ job' = [job EXCEPT ![e] = Job("queued", "now", 0)]
    /\ UNCHANGED <<messageVars, progressVars, convLock, lock, workerVars, ready, boundVars>>

ReportSuccess(w) ==
    /\ pc[w] = "returned"
    /\ job' = [job EXCEPT ![ev[w]] = NoJob]
    /\ Leave(w)
    /\ UNCHANGED <<messageVars, progressVars, convLock, lock, ready, boundVars>>

\* Variant: a job out of retries is deleted instead of held.
ReportFailureDropped(w) ==
    LET e == ev[w]
    IN  /\ pc[w] = "failed"
        /\ job' = IF job[e].status = "none" THEN job
                  ELSE IF job[e].attempts >= MaxRetries
                  THEN [job EXCEPT ![e] = NoJob]
                  ELSE [job EXCEPT ![e] = Job("queued", "later", job[e].attempts + 1)]
        /\ Leave(w)
        /\ UNCHANGED <<messageVars, progressVars, convLock, lock, ready, boundVars>>

\* on_failure="hold" after the last retry; a row another execution deleted is gone.
ReportFailure(w) ==
    LET e == ev[w]
    IN  /\ pc[w] = "failed"
        /\ job' = IF job[e].status = "none" THEN job
                  ELSE IF job[e].attempts >= MaxRetries
                  THEN [job EXCEPT ![e].status = "failed"]
                  ELSE [job EXCEPT ![e] = Job("queued", "later", job[e].attempts + 1)]
        /\ Leave(w)
        /\ UNCHANGED <<messageVars, progressVars, convLock, lock, ready, boundVars>>

-----------------------------------------------------------------------------
(* IssueService.process *)

Goto(w, label) == pc' = [pc EXCEPT ![w] = label]

AcquireLock(w) ==
    /\ pc[w] = "waiting"
    /\ lock = NoOne
    /\ lock' = w
    /\ Goto(w, "locked")
    /\ UNCHANGED <<messageVars, progressVars, job, convLock, ev, snap, target, ready,
                   boundVars>>

Outcome(e) ==
    IF Blocked(e) THEN "raised"
    ELSE IF e \in completed THEN "done"
    ELSE IF e \in processed THEN "targeting" ELSE "deciding"

\* One repeatable-read transaction; it takes no row lock.
Snapshot(w) ==
    /\ pc[w] = "locked"
    /\ Goto(w, Outcome(ev[w]))
    /\ snap' = [snap EXCEPT ![w] = [version |-> issue.version,
                                    preceding |-> PrecedingReply(custSeq[ev[w]])]]
    /\ UNCHANGED <<messageVars, progressVars, job, convLock, lock, ev, target, ready,
                   boundVars>>

\* The mutation of complete: issue, links, sentiment and processed marker together.
Mutate(w, e, details) ==
    /\ details => e \in inScope
    /\ issue' = IF details
                THEN [issue EXCEPT !.version = issue.version + 1,
                                   !.processedSeq = replySeq[e]]
                ELSE issue
    /\ linked' = IF details THEN linked \union {e} ELSE linked
    /\ sentiments' = IF e \in inScope /\ (\A row \in sentiments : row.event # e)
                     THEN sentiments \union {[event |-> e, preceding |-> snap[w].preceding]}
                     ELSE sentiments
    /\ processed' = processed \union {e}
    /\ UNCHANGED completed

AlreadyApplied(e) == e \in processed \/ issue.processedSeq >= replySeq[e]

IssueChanged(w) == issue.version # snap[w].version

\* Variant: the transaction does not look at what happened since the snapshot.
CompleteUnguarded(w) ==
    /\ pc[w] = "deciding"
    /\ convLock = NoEvent
    /\ \E details \in BOOLEAN : Mutate(w, ev[w], details)
    /\ Goto(w, "targeting")
    /\ UNCHANGED <<messageVars, job, convLock, lock, ev, snap, target, ready, boundVars>>

\* details: did the model's decision carry an issue?  A turn out of scope is not
\* shown to the model and has none.
Complete(w) ==
    LET e == ev[w]
    IN  /\ pc[w] = "deciding"
        /\ convLock = NoEvent
        /\ IF AlreadyApplied(e) \/ IssueChanged(w)
           THEN UNCHANGED progressVars
           ELSE \E details \in BOOLEAN : Mutate(w, e, details)
        /\ Goto(w, IF ~AlreadyApplied(e) /\ IssueChanged(w) THEN "raised" ELSE "targeting")
        /\ UNCHANGED <<messageVars, job, convLock, lock, ev, snap, target, ready, boundVars>>

\* Variant: a missing embedding does not hold up the turn.
EmbeddingTargetSkipped(w) ==
    /\ pc[w] = "targeting"
    /\ Goto(w, "finishing")
    /\ UNCHANGED <<messageVars, progressVars, job, convLock, lock, ev, snap, target, ready,
                   boundVars>>

EmbeddingTarget(w) ==
    LET stale == ev[w] \in linked /\ issue.embeddingVersion < issue.version
    IN  /\ pc[w] = "targeting"
        /\ target' = [target EXCEPT ![w] = issue.version]
        /\ Goto(w, IF stale THEN "embedding" ELSE "finishing")
        /\ UNCHANGED <<messageVars, progressVars, job, convLock, lock, ev, snap, ready,
                       boundVars>>

\* Variant: the vector is stored whatever the current version is.
PublishUnguarded(w) ==
    /\ pc[w] = "embedding"
    /\ issue' = [issue EXCEPT !.embeddingVersion = target[w]]
    /\ Goto(w, "finishing")
    /\ UNCHANGED <<messageVars, processed, completed, linked, sentiments, job, convLock,
                   lock, ev, snap, target, ready, boundVars>>

\* The vector was computed from the target read above; a newer version rejects it.
Publish(w) ==
    /\ pc[w] = "embedding"
    /\ issue' = IF issue.version = target[w]
                THEN [issue EXCEPT !.embeddingVersion = target[w]]
                ELSE issue
    /\ Goto(w, "finishing")
    /\ UNCHANGED <<messageVars, processed, completed, linked, sentiments, job, convLock,
                   lock, ev, snap, target, ready, boundVars>>

\* Variant: a turn whose delivery is unknown is left to its first deadline.
ReleaseDelivered(done) ==
    [e \in Events |->
        IF IsHead(e, done) /\ job[e].status = "queued" /\ e \in delivered
        THEN [job[e] EXCEPT !.after = "now"]
        ELSE job[e]]

\* Only the next turn becomes eligible, after its channel-send grace if need be.
Release(done) ==
    [e \in Events |->
        IF IsHead(e, done) /\ job[e].status = "queued"
        THEN [job[e] EXCEPT !.after = IF e \in delivered THEN "now" ELSE "later"]
        ELSE job[e]]

Finish(w) ==
    LET e == ev[w]
        done == IF e \in processed THEN completed \union {e} ELSE completed
    IN  /\ pc[w] = "finishing"
        /\ convLock = NoEvent
        /\ completed' = done
        /\ job' = Release(done)
        /\ Goto(w, "done")
        /\ UNCHANGED <<messageVars, processed, linked, sentiments, issue, convLock, lock, ev,
                       snap, target, ready, boundVars>>

\* A model, embedding or database error: the transaction in progress is rolled back.
Fail(w) ==
    /\ pc[w] \in {"locked", "deciding", "targeting", "embedding", "finishing"}
    /\ Fault
    /\ Goto(w, "raised")
    /\ UNCHANGED <<messageVars, progressVars, job, convLock, lock, ev, snap, target, ready,
                   aborts>>

\* Leaving processing_lock; unlocking on a dead connection raises.
Unlock(w) ==
    /\ pc[w] \in {"done", "raised"}
    /\ lock' = IF lock = w THEN NoOne ELSE lock
    /\ Goto(w, IF lock = w /\ pc[w] = "done" THEN "returned" ELSE "failed")
    /\ UNCHANGED <<messageVars, progressVars, job, convLock, ev, snap, target, ready,
                   boundVars>>

\* The lock's own connection breaks: PostgreSQL frees it while the execution goes on.
LoseLock(w) ==
    /\ lock = w
    /\ Fault
    /\ lock' = NoOne
    /\ UNCHANGED <<messageVars, progressVars, job, convLock, workerVars, ready, aborts>>

\* The execution's process dies; its lock goes with its connection, its job stays picked.
Crash(w) ==
    /\ pc[w] # "idle"
    /\ Fault
    /\ Leave(w)
    /\ lock' = IF lock = w THEN NoOne ELSE lock
    /\ UNCHANGED <<messageVars, progressVars, job, convLock, ready, aborts>>

-----------------------------------------------------------------------------
(* PostgresIssueRepository.initialize, when a replica starts, also while    *)
(* others serve.  Its ALTER TABLE statements lock the messages table        *)
(* against readers and writers until the transaction commits, and so wait   *)
(* for an enqueue in progress; only PgQueuer, which does not look at the    *)
(* messages, may go on.                                                     *)

Gate(done) ==
    [e \in Events |->
        IF /\ e \in saved /\ job[e].status = "queued"
           /\ \E f \in saved \ done : replySeq[f] < replySeq[e]
        THEN [job[e] EXCEPT !.after = "far"]
        ELSE job[e]]

\* Variant: turns whose jobs an older version finished and deleted stay unfinished.
InitializeUnrepaired ==
    /\ convLock = NoEvent
    /\ job' = Gate(completed)
    /\ ready' = TRUE
    /\ UNCHANGED <<messageVars, progressVars, convLock, lock, workerVars, boundVars>>

\* Mark the finished turns of an older version, then park what waits behind the others.
Initialize ==
    /\ convLock = NoEvent
    /\ LET done == completed \union {e \in processed : job[e].status = "none"}
       IN  completed' = done /\ job' = Gate(done)
    /\ ready' = TRUE
    /\ UNCHANGED <<messageVars, processed, linked, sentiments, issue, convLock, lock,
                   workerVars, boundVars>>

-----------------------------------------------------------------------------
Init ==
    /\ nextSeq = 0
    /\ custSeq = [e \in Events |-> 0]
    /\ replySeq = [e \in Events |-> 0]
    /\ saved = {} /\ inScope = {} /\ delivered = {}
    /\ processed = {} /\ completed = {} /\ linked = {} /\ sentiments = {}
    /\ issue = [version |-> 0, processedSeq |-> 0, embeddingVersion |-> 0]
    /\ job = [e \in Events |-> NoJob]
    /\ convLock = NoEvent
    /\ lock = NoOne
    /\ pc = [w \in Workers |-> "idle"]
    /\ ev = [w \in Workers |-> NoEvent]
    /\ snap = [w \in Workers |-> NoSnapshot]
    /\ target = [w \in Workers |-> 0]
    /\ ready = FALSE
    /\ faults = 0 /\ aborts = 0

(***************************************************************************)
(* Tables a version without issue_completed_at left: it folded the turns   *)
(* in order, deleted a job when its turn was folded and embedded, parked   *)
(* nothing and stored no sentiments.  Some of its jobs are still queued,   *)
(* picked by a process now gone, or held.                                  *)
(***************************************************************************)
OlderJobs ==
    {Job("queued", "later", 0), Job("picked", "now", 0), Job("failed", "now", MaxRetries)}

OlderTables ==
    /\ saved \in SUBSET Events
    /\ nextSeq = 2 * Cardinality(saved)
    /\ custSeq \in [Events -> 0 .. nextSeq] /\ replySeq \in [Events -> 0 .. nextSeq]
    /\ \A e \in Events \ saved : custSeq[e] = 0 /\ replySeq[e] = 0
    /\ \A e \in saved : 0 < custSeq[e] /\ custSeq[e] < replySeq[e]
    /\ Cardinality({custSeq[e] : e \in saved} \union {replySeq[e] : e \in saved}) = nextSeq
    /\ inScope = saved /\ delivered \in SUBSET saved
    /\ processed \in SUBSET saved
    /\ \A e \in processed, f \in saved : replySeq[f] < replySeq[e] => f \in processed
    /\ completed = {} /\ linked = processed /\ sentiments = {}
    /\ issue \in [version : {Cardinality(processed)}, processedSeq : 0 .. nextSeq,
                  embeddingVersion : 0 .. Cardinality(processed)]
    /\ issue.processedSeq \in {0} \union {replySeq[e] : e \in processed}
    /\ \A e \in processed : replySeq[e] <= issue.processedSeq
    /\ job \in [Events -> OlderJobs \union {NoJob}]
    /\ \A e \in Events : job[e] = NoJob => e \notin saved \ processed
    /\ \A e \in Events \ saved : job[e] = NoJob
    /\ (\A e \in processed : job[e] = NoJob) => issue.embeddingVersion = issue.version
    /\ convLock = NoEvent /\ lock = NoOne
    /\ pc = [w \in Workers |-> "idle"]
    /\ ev = [w \in Workers |-> NoEvent]
    /\ snap = [w \in Workers |-> NoSnapshot]
    /\ target = [w \in Workers |-> 0]
    /\ ready = FALSE
    /\ faults = 0 /\ aborts = 0

TurnStep(e) ==
    \/ SaveCustomer(e) \/ BeginEnqueue(e) \/ CommitEnqueue(e) \/ AbortEnqueue(e)
    \/ Deliver(e) \/ TimePasses(e) \/ Replay(e)

WorkerStep(w) ==
    \/ \E e \in Events : Claim(w, e) \/ Recover(w, e)
    \/ AcquireLock(w) \/ Snapshot(w) \/ Complete(w) \/ EmbeddingTarget(w) \/ Publish(w)
    \/ Finish(w) \/ Fail(w) \/ Unlock(w) \/ LoseLock(w) \/ Crash(w)
    \/ ReportSuccess(w) \/ ReportFailure(w)

Next ==
    \/ \E e \in Events : TurnStep(e)
    \/ \E w \in Workers : WorkerStep(w)
    \/ Initialize

Spec == Init /\ [][Next]_vars

(***************************************************************************)
(* Fairness: timers fire, PgQueuer dequeues ready jobs and recovers lapsed *)
(* ones, an execution goes on until it returns or fails, a transaction     *)
(* ends, a lock waiter is served, and the operator replays held jobs as    *)
(* docs/issue-processing.md asks.  Failures stop at MaxFaults.  Customers, *)
(* deliveries, crashes and restarts owe nothing.                           *)
(***************************************************************************)
Progress(w) ==
    \/ Snapshot(w) \/ Complete(w) \/ EmbeddingTarget(w) \/ Publish(w) \/ Finish(w)
    \/ Unlock(w) \/ ReportSuccess(w) \/ ReportFailure(w)

Fairness ==
    /\ \A e \in Events : WF_vars(CommitEnqueue(e)) /\ WF_vars(TimePasses(e))
    /\ \A e \in Events : WF_vars(Replay(e)) /\ SF_vars(\E w \in Workers : Claim(w, e))
    /\ \A e \in Events : SF_vars(~Executing(e) /\ \E w \in Workers : Recover(w, e))
    /\ \A w \in Workers : SF_vars(AcquireLock(w)) /\ SF_vars(Progress(w))
    /\ WF_vars(~ready /\ Initialize)

\* Empty tables are among OlderTables, with nothing saved.
LiveSpec == OlderTables /\ [][Next]_vars /\ Fairness

-----------------------------------------------------------------------------
(* Properties *)

JobRows == [status : {"none", "queued", "picked", "failed"},
            after : {"now", "later", "far"}, attempts : Nat]

Labels == {"idle", "waiting", "locked", "deciding", "targeting", "embedding", "finishing",
           "done", "raised", "returned", "failed"}

\* Every variable stays in its set: the schema of the tables and of the executions.
TypeOK ==
    /\ nextSeq \in Nat
    /\ custSeq \in [Events -> Nat] /\ replySeq \in [Events -> Nat]
    /\ saved \subseteq Events /\ inScope \subseteq saved /\ delivered \subseteq saved
    /\ processed \subseteq saved /\ completed \subseteq saved /\ linked \subseteq saved
    /\ sentiments \subseteq [event : Events, preceding : SUBSET Events]
    /\ issue \in [version : Nat, processedSeq : Nat, embeddingVersion : Nat]
    /\ job \in [Events -> JobRows]
    /\ convLock \in Events \union {NoEvent}
    /\ lock \in Workers \union {NoOne}
    /\ pc \in [Workers -> Labels]
    /\ ev \in [Workers -> Events \union {NoEvent}]
    /\ snap \in [Workers -> [version : Nat, preceding : SUBSET Events]]
    /\ target \in [Workers -> Nat]
    /\ ready \in BOOLEAN
    /\ faults \in Nat /\ aborts \in Nat

\* A turn is folded into the issue only after every turn before it has finished both
\* its summary and its embedding, whatever retries, stale executions, lost locks and
\* restarts happen (snapshot's "Earlier issue turn must finish" and the parking).
TurnsInOrder ==
    \A e \in processed, f \in saved : replySeq[f] < replySeq[e] => f \in completed

\* PgQueuer deletes a job when process returns; a deleted job never belongs to an
\* unfinished turn, or the turn would block its conversation for ever.
NoTurnLost == \A e \in saved \ completed : job[e].status # "none"

\* A turn behind an unfinished one waits with its retry budget untouched
\* (docs/issue-processing.md: "without consuming their retry budgets").
BlockedUncharged ==
    \A e \in saved \ completed : Blocked(e) => job[e] = Job("queued", "far", 0)

\* Once every folded turn has finished, the stored embedding is that of the current
\* summary: no execution that lost its lease leaves an older vector behind.
EmbeddingCaughtUp ==
    processed \subseteq completed => issue.embeddingVersion = issue.version

\* Retries, recoveries and replays apply a turn's summary once: the version counts the
\* turns linked to the issue, and processed_sequence is that of the last of them.
OneMutationPerTurn ==
    /\ issue.version = Cardinality(linked)
    /\ \A e \in linked : replySeq[e] <= issue.processedSeq

\* The sentiment of an in-scope turn is stored with its processed marker, once, and
\* refers to the reply that precedes the customer's message, never to the turn's own.
SentimentOfPrecedingReply ==
    \A e \in Events :
        /\ Cardinality({row \in sentiments : row.event = e})
               = (IF e \in processed \intersect inScope THEN 1 ELSE 0)
        /\ \A row \in sentiments :
               row.event = e => /\ row.preceding = PrecedingReply(custSeq[e])
                                /\ \A g \in row.preceding : replySeq[g] < custSeq[e]

\* The first unfinished turn is never left parked at year 9999, where nothing would
\* ever run it (docs/issue-processing.md: finishing a turn "releases the next turn").
HeadReleased ==
    ready => \A e \in Events :
        IsHead(e, completed) /\ job[e].status = "queued" => job[e].after # "far"

Forward ==
    /\ issue'.version >= issue.version
    /\ issue'.embeddingVersion >= issue.embeddingVersion
    /\ issue'.version > issue.version => issue'.processedSeq > issue.processedSeq

\* The open issue only moves forward: no step takes back a version or an embedding,
\* and a new version comes from a later turn than the one before (complete, publish).
IssueMovesForward == [][Forward]_vars

\* Every saved turn finishes in the end, held jobs being replayed.
EveryTurnCompletes == \A e \in Events : e \in saved ~> e \in completed

\* The chain as its callers see it (module IssueChain).
Order == [e \in Events |-> IF e \in saved THEN replySeq[e] ELSE 0]

Chain == INSTANCE IssueChain WITH
    order <- Order,
    folded <- processed,
    settled <- completed,
    version <- issue.version,
    published <- issue.embeddingVersion

\* Every behaviour of the tables, jobs and executions is one of the abstract chain.
ImplementsChain == Chain!Spec
=============================================================================
