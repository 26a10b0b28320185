------------------------ MODULE IssueProcessingProofs ------------------------
(***************************************************************************)
(* Proofs about IssueProcessing, for any number of turns, executions,      *)
(* retries, faults and restarts.                                           *)
(*                                                                         *)
(* The inductive invariant says how far an execution has got in terms of   *)
(* the tables alone: whoever is about to finish a turn has either seen the *)
(* turn finished by somebody else or has published its embedding.  That is *)
(* what lets the processing lock be lost without harm.                     *)
(***************************************************************************)
EXTENDS IssueProcessing, FiniteSetTheorems, TLAPS

\* Reply sequence numbers order the turns as they become visible.
SequenceInv ==
    /\ \A e \in Events : replySeq[e] <= nextSeq
    /\ \A e \in saved : replySeq[e] # 0
    /\ \A e, f \in Events : replySeq[e] # 0 /\ replySeq[e] = replySeq[f] => e = f
    /\ \A e \in Events : e \notin saved /\ e # convLock => replySeq[e] = 0
    /\ convLock \in Events =>
          /\ convLock \notin saved /\ replySeq[convLock] # 0
          /\ \A f \in saved : replySeq[f] < replySeq[convLock]

\* Turns are folded and finished in that order.
ProgressInv ==
    /\ completed \subseteq processed
    /\ linked \subseteq processed
    /\ TurnsInOrder

\* The issue belongs to its last linked turn, and only an unfinished one may
\* have left the embedding behind.
IssueInv ==
    /\ \A e \in linked : replySeq[e] <= issue.processedSeq
    /\ issue.processedSeq # 0 => \E e \in linked : replySeq[e] = issue.processedSeq
    /\ issue.embeddingVersion <= issue.version
    /\ issue.embeddingVersion < issue.version => \E e \in linked : e \notin completed

JobInv ==
    /\ \A e \in Events \ saved : job[e].status = "none"
    /\ NoTurnLost
    /\ BlockedUncharged

\* What an execution knows of its turn, however stale it is.
WorkerInv ==
    \A w \in Workers :
        /\ pc[w] # "idle" => ev[w] \in saved /\ ~Blocked(ev[w])
        /\ pc[w] \in {"targeting", "embedding", "finishing"} => ev[w] \in processed
        /\ pc[w] \in {"done", "returned"} => ev[w] \in completed
        /\ pc[w] = "embedding" => ev[w] \in completed \/ target[w] = issue.version
        /\ pc[w] = "finishing" =>
              ev[w] \in completed \/ issue.embeddingVersion = issue.version

IInv ==
    /\ TypeOK
    /\ SequenceInv
    /\ ProgressInv
    /\ IssueInv
    /\ JobInv
    /\ WorkerInv

\* A queue row stays a queue row when it is claimed.
LEMMA PickedRow ==
    ASSUME NEW row \in JobRows
    PROVE  [row EXCEPT !.status = "picked"] \in JobRows
  BY DEF JobRows

\* initialize finds nothing to repair and parks only what is parked: in the tables of this
\* version a replica may start at any moment.
LEMMA RestartChangesNothing == IInv /\ Initialize => UNCHANGED <<completed, job>>
<1> SUFFICES ASSUME IInv, Initialize PROVE UNCHANGED <<completed, job>>
  OBVIOUS
<1> USE DEF IInv, TypeOK
<1>1. {e \in processed : job[e].status = "none"} \subseteq completed
  BY DEF JobInv, NoTurnLost
<1>2. completed' = completed /\ job' = Gate(completed)
  BY <1>1 DEF Initialize
<1>3. ASSUME NEW e \in saved, NEW f \in saved \ completed, replySeq[f] < replySeq[e]
      PROVE  job[e].after = "far"
  <2>1. e \notin completed
    BY <1>3 DEF ProgressInv, TurnsInOrder
  <2>2. Blocked(e)
    BY <1>3 DEF Blocked, Unfinished
  <2>3. QED
    BY <2>1, <2>2 DEF JobInv, BlockedUncharged, Job
<1>4. ASSUME NEW e \in Events PROVE Gate(completed)[e] = job[e]
  <2>1. job[e] \in JobRows
    OBVIOUS
  <2>2. job[e].after = "far" => [job[e] EXCEPT !.after = "far"] = job[e]
    BY <2>1 DEF JobRows
  <2>3. QED
    BY <1>3, <2>2 DEF Gate
<1>5. QED
  BY <1>2, <1>4 DEF Gate

\* Every step, of any actor, keeps every variable in its set.
LEMMA TypeStep == IInv /\ [Next]_vars => TypeOK'
<1> SUFFICES ASSUME IInv, [Next]_vars PROVE TypeOK'
  OBVIOUS
<1> USE DEF IInv, TypeOK, JobRows, Labels,
            messageVars, progressVars, workerVars, boundVars
<1>1. ASSUME NEW e \in Events, SaveCustomer(e) PROVE TypeOK'
  BY <1>1 DEF SaveCustomer
<1>2. ASSUME NEW e \in Events, BeginEnqueue(e) PROVE TypeOK'
  BY <1>2 DEF BeginEnqueue
<1>3. ASSUME NEW e \in Events, CommitEnqueue(e) PROVE TypeOK'
  BY <1>3 DEF CommitEnqueue, Job
<1>4. ASSUME NEW e \in Events, AbortEnqueue(e) PROVE TypeOK'
  BY <1>4 DEF AbortEnqueue
<1>5. ASSUME NEW e \in Events, Deliver(e) PROVE TypeOK'
  BY <1>5 DEF Deliver
<1>6. ASSUME NEW e \in Events, TimePasses(e) PROVE TypeOK'
  BY <1>6 DEF TimePasses
<1>7. ASSUME NEW e \in Events, Replay(e) PROVE TypeOK'
  BY <1>7 DEF Replay, Job
<1>8. ASSUME NEW w \in Workers, NEW e \in Events, Claim(w, e) PROVE TypeOK'
  <2> USE DEF Claim, Start
  <2>1. job' \in [Events -> JobRows]
    <3>1. job \in [Events -> JobRows] /\ job' = [job EXCEPT ![e].status = "picked"]
      BY <1>8
    <3>2. [job[e] EXCEPT !.status = "picked"] \in JobRows
      BY <3>1, PickedRow
    <3>3. QED
      BY <3>1, <3>2
  <2>2. pc' \in [Workers -> Labels] /\ ev' \in [Workers -> Events \union {NoEvent}]
    BY <1>8
  <2>3. QED
    BY <1>8, <2>1, <2>2
<1>9. ASSUME NEW w \in Workers, NEW e \in Events, Recover(w, e) PROVE TypeOK'
  BY <1>9 DEF Recover, Start, Fault
<1>10. ASSUME NEW w \in Workers, AcquireLock(w) PROVE TypeOK'
  BY <1>10 DEF AcquireLock, Goto
<1>11. ASSUME NEW w \in Workers, Snapshot(w) PROVE TypeOK'
  BY <1>11 DEF Snapshot, Goto, Outcome, PrecedingReply
<1>12. ASSUME NEW w \in Workers, Complete(w) PROVE TypeOK'
  <2> USE DEF Complete, Goto
  <2>1. ev[w] \in saved /\ ev[w] \in Events
    BY <1>12 DEF WorkerInv
  <2>2. CASE AlreadyApplied(ev[w]) \/ IssueChanged(w)
    BY <1>12, <2>2
  <2>3. CASE ~(AlreadyApplied(ev[w]) \/ IssueChanged(w))
    <3>1. PICK details \in BOOLEAN : Mutate(w, ev[w], details)
      BY <1>12, <2>3
    <3>2. issue' \in [version : Nat, processedSeq : Nat, embeddingVersion : Nat]
      <4>1. issue.version + 1 \in Nat /\ replySeq[ev[w]] \in Nat
        BY <2>1
      <4>2. CASE details
        BY <3>1, <4>1, <4>2 DEF Mutate
      <4>3. CASE ~details
        BY <3>1, <4>3 DEF Mutate
      <4>4. QED
        BY <4>2, <4>3
    <3>3. sentiments' \subseteq [event : Events, preceding : SUBSET Events]
      <4>1. snap[w].preceding \in SUBSET Events
        OBVIOUS
      <4>2. [event |-> ev[w], preceding |-> snap[w].preceding]
              \in [event : Events, preceding : SUBSET Events]
        BY <2>1, <4>1
      <4>3. QED
        BY <3>1, <4>2 DEF Mutate
    <3>4. linked' \subseteq saved /\ processed' \subseteq saved /\ completed' = completed
      BY <2>1, <3>1 DEF Mutate
    <3>5. QED
      BY <1>12, <2>3, <3>2, <3>3, <3>4
  <2>4. QED
    BY <2>2, <2>3
<1>13. ASSUME NEW w \in Workers, EmbeddingTarget(w) PROVE TypeOK'
  BY <1>13 DEF EmbeddingTarget, Goto
<1>14. ASSUME NEW w \in Workers, Publish(w) PROVE TypeOK'
  BY <1>14 DEF Publish, Goto
<1>15. ASSUME NEW w \in Workers, Finish(w) PROVE TypeOK'
  <2> USE DEF Finish, Goto
  <2>1. ev[w] \in saved
    BY <1>15 DEF WorkerInv
  <2>2. job' \in [Events -> JobRows]
    <3>1. ASSUME NEW r \in JobRows
          PROVE  [r EXCEPT !.after = "now"] \in JobRows /\ [r EXCEPT !.after = "later"] \in JobRows
      OBVIOUS
    <3>2. ASSUME NEW e \in Events PROVE job'[e] \in JobRows
      BY <1>15, <3>1, job[e] \in JobRows DEF Release
    <3>3. QED
      BY <1>15, <3>2 DEF Release
  <2>3. completed' \subseteq saved
    BY <1>15, <2>1
  <2>4. QED
    BY <1>15, <2>2, <2>3
<1>16. ASSUME NEW w \in Workers, Fail(w) PROVE TypeOK'
  BY <1>16 DEF Fail, Goto, Fault
<1>17. ASSUME NEW w \in Workers, Unlock(w) PROVE TypeOK'
  BY <1>17 DEF Unlock, Goto
<1>18. ASSUME NEW w \in Workers, LoseLock(w) PROVE TypeOK'
  BY <1>18 DEF LoseLock, Fault
<1>19. ASSUME NEW w \in Workers, Crash(w) PROVE TypeOK'
  BY <1>19 DEF Crash, Leave, Fault, NoSnapshot
<1>20. ASSUME NEW w \in Workers, ReportSuccess(w) PROVE TypeOK'
  BY <1>20 DEF ReportSuccess, Leave, NoSnapshot, NoJob, Job
<1>21. ASSUME NEW w \in Workers, ReportFailure(w) PROVE TypeOK'
  <2> USE DEF ReportFailure, Leave, NoSnapshot
  <2>1. ev[w] \in Events
    BY <1>21 DEF WorkerInv
  <2>2. job[ev[w]] \in JobRows
    BY <2>1
  <2>3. Job("queued", "later", job[ev[w]].attempts + 1) \in JobRows
    BY <2>2 DEF Job
  <2>4. job' \in [Events -> JobRows]
    BY <1>21, <2>1, <2>2, <2>3
  <2>5. QED
    BY <1>21, <2>4
<1>22. CASE Initialize
  BY <1>22, RestartChangesNothing DEF Initialize
<1>23. CASE UNCHANGED vars
  BY <1>23 DEF vars
<1>24. QED
  BY <1>1, <1>2, <1>3, <1>4, <1>5, <1>6, <1>7, <1>8, <1>9, <1>10, <1>11, <1>12,
     <1>13, <1>14, <1>15, <1>16, <1>17, <1>18, <1>19, <1>20, <1>21, <1>22, <1>23
     DEF Next, TurnStep, WorkerStep

\* Sequence numbers stay unique, and bounded by the generator, through every step.
LEMMA SequenceStep == IInv /\ [Next]_vars => SequenceInv'
<1> SUFFICES ASSUME IInv, [Next]_vars PROVE SequenceInv'
  OBVIOUS
<1> USE DEF IInv, SequenceInv,
            messageVars, progressVars, workerVars, boundVars
<1>1. ASSUME NEW e \in Events, SaveCustomer(e) PROVE SequenceInv'
  BY <1>1 DEF SaveCustomer, TypeOK
<1>2. ASSUME NEW e \in Events, BeginEnqueue(e) PROVE SequenceInv'
  BY <1>2, ConstantsAssumption DEF BeginEnqueue, TypeOK
<1>3. ASSUME NEW e \in Events, CommitEnqueue(e) PROVE SequenceInv'
  BY <1>3, ConstantsAssumption DEF CommitEnqueue, Job, TypeOK
<1>4. ASSUME NEW e \in Events, AbortEnqueue(e) PROVE SequenceInv'
  BY <1>4, ConstantsAssumption DEF AbortEnqueue, TypeOK
<1>5. ASSUME NEW e \in Events, Deliver(e) PROVE SequenceInv'
  BY <1>5 DEF Deliver
<1>6. ASSUME NEW e \in Events, TimePasses(e) PROVE SequenceInv'
  BY <1>6 DEF TimePasses
<1>7. ASSUME NEW e \in Events, Replay(e) PROVE SequenceInv'
  BY <1>7 DEF Replay, Job
<1>8. ASSUME NEW w \in Workers, NEW e \in Events, Claim(w, e) PROVE SequenceInv'
  BY <1>8 DEF Claim, Start
<1>9. ASSUME NEW w \in Workers, NEW e \in Events, Recover(w, e) PROVE SequenceInv'
  BY <1>9 DEF Recover, Start, Fault
<1>10. ASSUME NEW w \in Workers, AcquireLock(w) PROVE SequenceInv'
  BY <1>10 DEF AcquireLock, Goto
<1>11. ASSUME NEW w \in Workers, Snapshot(w) PROVE SequenceInv'
  BY <1>11 DEF Snapshot, Goto, Outcome
<1>12. ASSUME NEW w \in Workers, Complete(w) PROVE SequenceInv'
  BY <1>12 DEF Complete, Goto, Mutate, TypeOK
<1>13. ASSUME NEW w \in Workers, EmbeddingTarget(w) PROVE SequenceInv'
  BY <1>13 DEF EmbeddingTarget, Goto
<1>14. ASSUME NEW w \in Workers, Publish(w) PROVE SequenceInv'
  BY <1>14 DEF Publish, Goto
<1>15. ASSUME NEW w \in Workers, Finish(w) PROVE SequenceInv'
  BY <1>15 DEF Finish, Goto, Release
<1>16. ASSUME NEW w \in Workers, Fail(w) PROVE SequenceInv'
  BY <1>16 DEF Fail, Goto, Fault
<1>17. ASSUME NEW w \in Workers, Unlock(w) PROVE SequenceInv'
  BY <1>17 DEF Unlock, Goto
<1>18. ASSUME NEW w \in Workers, LoseLock(w) PROVE SequenceInv'
  BY <1>18 DEF LoseLock, Fault
<1>19. ASSUME NEW w \in Workers, Crash(w) PROVE SequenceInv'
  BY <1>19 DEF Crash, Leave, Fault, NoSnapshot
<1>20. ASSUME NEW w \in Workers, ReportSuccess(w) PROVE SequenceInv'
  BY <1>20 DEF ReportSuccess, Leave, NoSnapshot, NoJob, Job
<1>21. ASSUME NEW w \in Workers, ReportFailure(w) PROVE SequenceInv'
  BY <1>21 DEF ReportFailure, Leave, NoSnapshot, Job
<1>22. CASE Initialize
  BY <1>22, RestartChangesNothing DEF Initialize
<1>23. CASE UNCHANGED vars
  BY <1>23 DEF vars
<1>24. QED
  BY <1>1, <1>2, <1>3, <1>4, <1>5, <1>6, <1>7, <1>8, <1>9, <1>10, <1>11, <1>12,
     <1>13, <1>14, <1>15, <1>16, <1>17, <1>18, <1>19, <1>20, <1>21, <1>22, <1>23
     DEF Next, TurnStep, WorkerStep

\* Every step keeps the order of the three markers of a turn: saved, processed, completed.
LEMMA ProgressStep == IInv /\ [Next]_vars => ProgressInv'
<1> SUFFICES ASSUME IInv, [Next]_vars PROVE ProgressInv'
  OBVIOUS
<1> USE DEF IInv, ProgressInv, TurnsInOrder,
            messageVars, progressVars, workerVars, boundVars
<1>1. ASSUME NEW e \in Events, SaveCustomer(e) PROVE ProgressInv'
  BY <1>1 DEF SaveCustomer, TypeOK, SequenceInv
<1>2. ASSUME NEW e \in Events, BeginEnqueue(e) PROVE ProgressInv'
  BY <1>2 DEF BeginEnqueue, TypeOK, SequenceInv
<1>3. ASSUME NEW e \in Events, CommitEnqueue(e) PROVE ProgressInv'
  BY <1>3 DEF CommitEnqueue, Job, TypeOK, SequenceInv
<1>4. ASSUME NEW e \in Events, AbortEnqueue(e) PROVE ProgressInv'
  BY <1>4 DEF AbortEnqueue, TypeOK, SequenceInv
<1>5. ASSUME NEW e \in Events, Deliver(e) PROVE ProgressInv'
  BY <1>5 DEF Deliver
<1>6. ASSUME NEW e \in Events, TimePasses(e) PROVE ProgressInv'
  BY <1>6 DEF TimePasses
<1>7. ASSUME NEW e \in Events, Replay(e) PROVE ProgressInv'
  BY <1>7 DEF Replay, Job
<1>8. ASSUME NEW w \in Workers, NEW e \in Events, Claim(w, e) PROVE ProgressInv'
  BY <1>8 DEF Claim, Start
<1>9. ASSUME NEW w \in Workers, NEW e \in Events, Recover(w, e) PROVE ProgressInv'
  BY <1>9 DEF Recover, Start, Fault
<1>10. ASSUME NEW w \in Workers, AcquireLock(w) PROVE ProgressInv'
  BY <1>10 DEF AcquireLock, Goto
<1>11. ASSUME NEW w \in Workers, Snapshot(w) PROVE ProgressInv'
  BY <1>11 DEF Snapshot, Goto, Outcome
<1>12. ASSUME NEW w \in Workers, Complete(w) PROVE ProgressInv'
  BY <1>12
  DEF Complete, Goto, Mutate, TypeOK, WorkerInv, Blocked, Unfinished, AlreadyApplied,
       IssueChanged
<1>13. ASSUME NEW w \in Workers, EmbeddingTarget(w) PROVE ProgressInv'
  BY <1>13 DEF EmbeddingTarget, Goto
<1>14. ASSUME NEW w \in Workers, Publish(w) PROVE ProgressInv'
  BY <1>14 DEF Publish, Goto
<1>15. ASSUME NEW w \in Workers, Finish(w) PROVE ProgressInv'
  BY <1>15 DEF Finish, Goto, Release, TypeOK, WorkerInv
<1>16. ASSUME NEW w \in Workers, Fail(w) PROVE ProgressInv'
  BY <1>16 DEF Fail, Goto, Fault
<1>17. ASSUME NEW w \in Workers, Unlock(w) PROVE ProgressInv'
  BY <1>17 DEF Unlock, Goto
<1>18. ASSUME NEW w \in Workers, LoseLock(w) PROVE ProgressInv'
  BY <1>18 DEF LoseLock, Fault
<1>19. ASSUME NEW w \in Workers, Crash(w) PROVE ProgressInv'
  BY <1>19 DEF Crash, Leave, Fault, NoSnapshot
<1>20. ASSUME NEW w \in Workers, ReportSuccess(w) PROVE ProgressInv'
  BY <1>20 DEF ReportSuccess, Leave, NoSnapshot, NoJob, Job
<1>21. ASSUME NEW w \in Workers, ReportFailure(w) PROVE ProgressInv'
  BY <1>21 DEF ReportFailure, Leave, NoSnapshot, Job
<1>22. CASE Initialize
  BY <1>22, RestartChangesNothing DEF Initialize
<1>23. CASE UNCHANGED vars
  BY <1>23 DEF vars
<1>24. QED
  BY <1>1, <1>2, <1>3, <1>4, <1>5, <1>6, <1>7, <1>8, <1>9, <1>10, <1>11, <1>12,
     <1>13, <1>14, <1>15, <1>16, <1>17, <1>18, <1>19, <1>20, <1>21, <1>22, <1>23
     DEF Next, TurnStep, WorkerStep

\* Order facts about naturals that the prover wants spelled out.
LEMMA NatOrder ==
  \A m, n \in Nat : /\ m < n \/ m = n \/ n < m
                    /\ m >= n /\ m # n => n < m
                    /\ m <= n /\ m # n => m < n
  OBVIOUS

\* A turn some execution is about to fold is the only one in flight: all folded
\* turns are finished.
LEMMA FoldedAreFinished ==
  ASSUME IInv, NEW w \in Workers, pc[w] = "deciding", ev[w] \notin processed
  PROVE  processed \subseteq completed
<1> USE DEF IInv, TypeOK
<1>1. ev[w] \in saved /\ ~Blocked(ev[w])
  BY DEF WorkerInv
<1> SUFFICES ASSUME NEW f \in processed PROVE f \in completed
  OBVIOUS
<1>2. /\ replySeq[f] # replySeq[ev[w]]
      /\ replySeq[f] \in Nat /\ replySeq[ev[w]] \in Nat
  BY <1>1 DEF SequenceInv
<1>3. CASE replySeq[f] < replySeq[ev[w]]
  BY <1>1, <1>3 DEF Blocked, Unfinished
<1>4. CASE replySeq[ev[w]] < replySeq[f]
  BY <1>1, <1>4 DEF ProgressInv, TurnsInOrder
<1>5. QED
  BY <1>2, <1>3, <1>4, NatOrder

\* The early return of complete is taken only for a turn already folded: nothing is
\* lost by skipping it.
LEMMA AppliedIsProcessed ==
  ASSUME IInv, NEW w \in Workers, pc[w] = "deciding", AlreadyApplied(ev[w])
  PROVE  ev[w] \in processed
<1> USE DEF IInv, TypeOK
<1> SUFFICES ASSUME ev[w] \notin processed PROVE FALSE
  OBVIOUS
<1>1. ev[w] \in saved /\ replySeq[ev[w]] # 0 /\ replySeq[ev[w]] \in Nat
  BY DEF WorkerInv, SequenceInv
<1>2. issue.processedSeq >= replySeq[ev[w]] /\ issue.processedSeq \in Nat
  BY DEF AlreadyApplied
<1>3. PICK f \in linked : replySeq[f] = issue.processedSeq
  BY <1>1, <1>2 DEF IssueInv
<1>4. f \in completed /\ f # ev[w]
  BY <1>3, FoldedAreFinished DEF ProgressInv
<1>5. replySeq[ev[w]] < replySeq[f]
  <2>1. replySeq[f] # replySeq[ev[w]] /\ replySeq[f] \in Nat
    BY <1>1, <1>4 DEF SequenceInv
  <2>2. QED
    BY <1>1, <1>2, <1>3, <2>1, NatOrder
<1>6. QED
  BY <1>1, <1>4, <1>5 DEF ProgressInv, TurnsInOrder

\* Every step keeps the open issue in line with the turns folded into it.
LEMMA IssueStep == IInv /\ [Next]_vars => IssueInv'
<1> SUFFICES ASSUME IInv, [Next]_vars PROVE IssueInv'
  OBVIOUS
<1> USE DEF IInv, IssueInv, TypeOK,
            messageVars, progressVars, workerVars, boundVars
<1>1. ASSUME NEW e \in Events, SaveCustomer(e) PROVE IssueInv'
  BY <1>1 DEF SaveCustomer, SequenceInv, ProgressInv
<1>2. ASSUME NEW e \in Events, BeginEnqueue(e) PROVE IssueInv'
  BY <1>2 DEF BeginEnqueue, SequenceInv, ProgressInv
<1>3. ASSUME NEW e \in Events, CommitEnqueue(e) PROVE IssueInv'
  BY <1>3 DEF CommitEnqueue, Job, SequenceInv, ProgressInv
<1>4. ASSUME NEW e \in Events, AbortEnqueue(e) PROVE IssueInv'
  BY <1>4 DEF AbortEnqueue, SequenceInv, ProgressInv
<1>5. ASSUME NEW e \in Events, Deliver(e) PROVE IssueInv'
  BY <1>5 DEF Deliver
<1>6. ASSUME NEW e \in Events, TimePasses(e) PROVE IssueInv'
  BY <1>6 DEF TimePasses
<1>7. ASSUME NEW e \in Events, Replay(e) PROVE IssueInv'
  BY <1>7 DEF Replay, Job
<1>8. ASSUME NEW w \in Workers, NEW e \in Events, Claim(w, e) PROVE IssueInv'
  BY <1>8 DEF Claim, Start
<1>9. ASSUME NEW w \in Workers, NEW e \in Events, Recover(w, e) PROVE IssueInv'
  BY <1>9 DEF Recover, Start, Fault
<1>10. ASSUME NEW w \in Workers, AcquireLock(w) PROVE IssueInv'
  BY <1>10 DEF AcquireLock, Goto
<1>11. ASSUME NEW w \in Workers, Snapshot(w) PROVE IssueInv'
  BY <1>11 DEF Snapshot, Goto, Outcome
<1>12. ASSUME NEW w \in Workers, Complete(w) PROVE IssueInv'
  <2> USE DEF Complete, Goto
  <2>1. CASE AlreadyApplied(ev[w]) \/ IssueChanged(w)
    BY <1>12, <2>1
  <2>2. CASE ~(AlreadyApplied(ev[w]) \/ IssueChanged(w))
    <3>1. PICK details \in BOOLEAN : Mutate(w, ev[w], details)
      BY <1>12, <2>2
    <3>2. /\ ev[w] \in Events /\ ev[w] \notin completed
          /\ issue.processedSeq < replySeq[ev[w]]
      BY <1>12, <2>2 DEF AlreadyApplied, WorkerInv, ProgressInv
    <3>3. CASE details
      BY <1>12, <3>1, <3>2, <3>3 DEF Mutate
    <3>4. CASE ~details
      BY <1>12, <3>1, <3>4 DEF Mutate
    <3>5. QED
      BY <3>3, <3>4
  <2>3. QED
    BY <2>1, <2>2
<1>13. ASSUME NEW w \in Workers, EmbeddingTarget(w) PROVE IssueInv'
  BY <1>13 DEF EmbeddingTarget, Goto
<1>14. ASSUME NEW w \in Workers, Publish(w) PROVE IssueInv'
  BY <1>14 DEF Publish, Goto
<1>15. ASSUME NEW w \in Workers, Finish(w) PROVE IssueInv'
  BY <1>15
  DEF Finish, Goto, Release, ProgressInv, WorkerInv, TurnsInOrder, Blocked, Unfinished
<1>16. ASSUME NEW w \in Workers, Fail(w) PROVE IssueInv'
  BY <1>16 DEF Fail, Goto, Fault
<1>17. ASSUME NEW w \in Workers, Unlock(w) PROVE IssueInv'
  BY <1>17 DEF Unlock, Goto
<1>18. ASSUME NEW w \in Workers, LoseLock(w) PROVE IssueInv'
  BY <1>18 DEF LoseLock, Fault
<1>19. ASSUME NEW w \in Workers, Crash(w) PROVE IssueInv'
  BY <1>19 DEF Crash, Leave, Fault, NoSnapshot
<1>20. ASSUME NEW w \in Workers, ReportSuccess(w) PROVE IssueInv'
  BY <1>20 DEF ReportSuccess, Leave, NoSnapshot, NoJob, Job
<1>21. ASSUME NEW w \in Workers, ReportFailure(w) PROVE IssueInv'
  BY <1>21 DEF ReportFailure, Leave, NoSnapshot, Job
<1>22. CASE Initialize
  BY <1>22, RestartChangesNothing DEF Initialize
<1>23. CASE UNCHANGED vars
  BY <1>23 DEF vars
<1>24. QED
  BY <1>1, <1>2, <1>3, <1>4, <1>5, <1>6, <1>7, <1>8, <1>9, <1>10, <1>11, <1>12,
     <1>13, <1>14, <1>15, <1>16, <1>17, <1>18, <1>19, <1>20, <1>21, <1>22, <1>23
     DEF Next, TurnStep, WorkerStep

\* Every step keeps the job rows in line with the turns: blocked ones parked, none lost.
LEMMA JobStep == IInv /\ [Next]_vars => JobInv'
<1> SUFFICES ASSUME IInv, [Next]_vars PROVE JobInv'
  OBVIOUS
<1> USE DEF IInv, JobInv, TypeOK, NoTurnLost, BlockedUncharged, Job, Blocked, Unfinished,
     JobRows,
            messageVars, progressVars, workerVars, boundVars
<1>1. ASSUME NEW e \in Events, SaveCustomer(e) PROVE JobInv'
  BY <1>1 DEF SaveCustomer, SequenceInv, ProgressInv
<1>2. ASSUME NEW e \in Events, BeginEnqueue(e) PROVE JobInv'
  BY <1>2 DEF BeginEnqueue, SequenceInv, ProgressInv
<1>3. ASSUME NEW e \in Events, CommitEnqueue(e) PROVE JobInv'
  BY <1>3 DEF CommitEnqueue, Job, SequenceInv, ProgressInv
<1>4. ASSUME NEW e \in Events, AbortEnqueue(e) PROVE JobInv'
  BY <1>4 DEF AbortEnqueue, SequenceInv, ProgressInv
<1>5. ASSUME NEW e \in Events, Deliver(e) PROVE JobInv'
  BY <1>5 DEF Deliver, SequenceInv, ProgressInv
<1>6. ASSUME NEW e \in Events, TimePasses(e) PROVE JobInv'
  BY <1>6 DEF TimePasses
<1>7. ASSUME NEW e \in Events, Replay(e) PROVE JobInv'
  BY <1>7 DEF Replay, Job
<1>8. ASSUME NEW w \in Workers, NEW e \in Events, Claim(w, e) PROVE JobInv'
  BY <1>8 DEF Claim, Start
<1>9. ASSUME NEW w \in Workers, NEW e \in Events, Recover(w, e) PROVE JobInv'
  BY <1>9 DEF Recover, Start, Fault
<1>10. ASSUME NEW w \in Workers, AcquireLock(w) PROVE JobInv'
  BY <1>10 DEF AcquireLock, Goto
<1>11. ASSUME NEW w \in Workers, Snapshot(w) PROVE JobInv'
  BY <1>11 DEF Snapshot, Goto, Outcome
<1>12. ASSUME NEW w \in Workers, Complete(w) PROVE JobInv'
  BY <1>12 DEF Complete, Goto, Mutate, WorkerInv, ProgressInv, SequenceInv
<1>13. ASSUME NEW w \in Workers, EmbeddingTarget(w) PROVE JobInv'
  BY <1>13 DEF EmbeddingTarget, Goto
<1>14. ASSUME NEW w \in Workers, Publish(w) PROVE JobInv'
  BY <1>14 DEF Publish, Goto
<1>15. ASSUME NEW w \in Workers, Finish(w) PROVE JobInv'
  BY <1>15 DEF Finish, Goto, Release, ProgressInv, WorkerInv, IsHead
<1>16. ASSUME NEW w \in Workers, Fail(w) PROVE JobInv'
  BY <1>16 DEF Fail, Goto, Fault
<1>17. ASSUME NEW w \in Workers, Unlock(w) PROVE JobInv'
  BY <1>17 DEF Unlock, Goto
<1>18. ASSUME NEW w \in Workers, LoseLock(w) PROVE JobInv'
  BY <1>18 DEF LoseLock, Fault
<1>19. ASSUME NEW w \in Workers, Crash(w) PROVE JobInv'
  BY <1>19 DEF Crash, Leave, Fault, NoSnapshot
<1>20. ASSUME NEW w \in Workers, ReportSuccess(w) PROVE JobInv'
  BY <1>20
  DEF ReportSuccess, Leave, NoSnapshot, NoJob, Job, WorkerInv, ProgressInv, SequenceInv
<1>21. ASSUME NEW w \in Workers, ReportFailure(w) PROVE JobInv'
  BY <1>21 DEF ReportFailure, Leave, NoSnapshot, Job, WorkerInv, ProgressInv, SequenceInv
<1>22. CASE Initialize
  BY <1>22, RestartChangesNothing DEF Initialize
<1>23. CASE UNCHANGED vars
  BY <1>23 DEF vars
<1>24. QED
  BY <1>1, <1>2, <1>3, <1>4, <1>5, <1>6, <1>7, <1>8, <1>9, <1>10, <1>11, <1>12,
     <1>13, <1>14, <1>15, <1>16, <1>17, <1>18, <1>19, <1>20, <1>21, <1>22, <1>23
     DEF Next, TurnStep, WorkerStep

\* Every step keeps what each execution has read in line with the tables.
LEMMA ExecutionStep == IInv /\ [Next]_vars => WorkerInv'
<1> SUFFICES ASSUME IInv, [Next]_vars PROVE WorkerInv'
  OBVIOUS
<1> USE DEF IInv, WorkerInv, TypeOK, Blocked, Unfinished,
            messageVars, progressVars, workerVars, boundVars
<1>1. ASSUME NEW e \in Events, SaveCustomer(e) PROVE WorkerInv'
  BY <1>1 DEF SaveCustomer, SequenceInv, ProgressInv
<1>2. ASSUME NEW e \in Events, BeginEnqueue(e) PROVE WorkerInv'
  BY <1>2 DEF BeginEnqueue, SequenceInv, ProgressInv
<1>3. ASSUME NEW e \in Events, CommitEnqueue(e) PROVE WorkerInv'
  BY <1>3 DEF CommitEnqueue, Job, SequenceInv, ProgressInv
<1>4. ASSUME NEW e \in Events, AbortEnqueue(e) PROVE WorkerInv'
  BY <1>4 DEF AbortEnqueue, SequenceInv, ProgressInv
<1>5. ASSUME NEW e \in Events, Deliver(e) PROVE WorkerInv'
  BY <1>5 DEF Deliver
<1>6. ASSUME NEW e \in Events, TimePasses(e) PROVE WorkerInv'
  BY <1>6 DEF TimePasses
<1>7. ASSUME NEW e \in Events, Replay(e) PROVE WorkerInv'
  BY <1>7 DEF Replay, Job
<1>8. ASSUME NEW w \in Workers, NEW e \in Events, Claim(w, e) PROVE WorkerInv'
  <2> USE DEF Claim, Start
  <2>1. e \in saved /\ ~Blocked(e)
    BY <1>8 DEF JobInv, NoTurnLost, BlockedUncharged, Job, ProgressInv, TurnsInOrder
  <2>2. /\ pc' = [pc EXCEPT ![w] = "waiting"] /\ ev' = [ev EXCEPT ![w] = e]
        /\ UNCHANGED <<saved, processed, completed, replySeq, issue, target>>
    BY <1>8
  <2>3. QED
    BY <2>1, <2>2
<1>9. ASSUME NEW w \in Workers, NEW e \in Events, Recover(w, e) PROVE WorkerInv'
  <2> USE DEF Recover, Fault, Start
  <2>0. job[e].status = "picked"
    BY <1>9
  <2>1. e \in saved /\ ~Blocked(e)
    BY <2>0 DEF JobInv, NoTurnLost, BlockedUncharged, Job, ProgressInv, TurnsInOrder
  <2>2. /\ pc' = [pc EXCEPT ![w] = "waiting"] /\ ev' = [ev EXCEPT ![w] = e]
        /\ UNCHANGED <<saved, processed, completed, replySeq, issue, target>>
    BY <1>9
  <2>3. QED
    BY <2>1, <2>2
<1>10. ASSUME NEW w \in Workers, AcquireLock(w) PROVE WorkerInv'
  BY <1>10 DEF AcquireLock, Goto
<1>11. ASSUME NEW w \in Workers, Snapshot(w) PROVE WorkerInv'
  BY <1>11 DEF Snapshot, Goto, Outcome
<1>12. ASSUME NEW w \in Workers, Complete(w) PROVE WorkerInv'
  <2> USE DEF Complete, Goto
  <2>1. CASE AlreadyApplied(ev[w])
    BY <1>12, <2>1, AppliedIsProcessed
  <2>2. CASE ~AlreadyApplied(ev[w]) /\ IssueChanged(w)
    BY <1>12, <2>2
  <2>3. CASE ~AlreadyApplied(ev[w]) /\ ~IssueChanged(w)
    <3>1. PICK details \in BOOLEAN : Mutate(w, ev[w], details)
      BY <1>12, <2>3
    <3>2. processed \subseteq completed
      BY <1>12, <2>3, FoldedAreFinished DEF AlreadyApplied
    <3>3. /\ pc' = [pc EXCEPT ![w] = "targeting"] /\ processed' = processed \union {ev[w]}
          /\ UNCHANGED <<saved, completed, replySeq, target, ev>>
      BY <1>12, <2>3, <3>1 DEF Mutate
    <3>4. \A v \in Workers : pc'[v] \in {"embedding", "finishing"} => ev'[v] \in completed'
      BY <3>2, <3>3
    <3>5. \A v \in Workers : pc'[v] # "idle" => ev'[v] \in saved' /\ ~Blocked(ev[v])'
      BY <1>12, <3>3
    <3>6. \A v \in Workers :
             /\ pc'[v] \in {"targeting", "embedding", "finishing"} => ev'[v] \in processed'
             /\ pc'[v] \in {"done", "returned"} => ev'[v] \in completed'
      BY <3>3
    <3>7. QED
      BY <3>4, <3>5, <3>6
  <2>4. QED
    BY <2>1, <2>2, <2>3
<1>13. ASSUME NEW w \in Workers, EmbeddingTarget(w) PROVE WorkerInv'
  <2> USE DEF EmbeddingTarget, Goto
  <2>1. ASSUME ~(ev[w] \in linked /\ issue.embeddingVersion < issue.version)
        PROVE  ev[w] \in completed \/ issue.embeddingVersion = issue.version
    <3>0. issue.version \in Nat /\ issue.embeddingVersion \in Nat
      OBVIOUS
    <3> SUFFICES ASSUME issue.embeddingVersion < issue.version, ev[w] \notin completed
                 PROVE  FALSE
      <4>1. issue.embeddingVersion <= issue.version
        BY DEF IssueInv
      <4>2. QED
        BY <3>0, <4>1, NatOrder
    <3>1. PICK f \in linked : f \notin completed
      BY DEF IssueInv
    <3>2. ev[w] \in processed /\ f \in processed /\ f # ev[w]
      BY <1>13, <2>1, <3>1 DEF ProgressInv
    <3>3. replySeq[f] < replySeq[ev[w]] \/ replySeq[ev[w]] < replySeq[f]
      <4>1. replySeq[f] # replySeq[ev[w]] /\ replySeq[f] \in Nat /\ replySeq[ev[w]] \in Nat
        BY <3>2 DEF SequenceInv
      <4>2. QED
        BY <4>1, NatOrder
    <3>4. QED
      BY <3>1, <3>2, <3>3 DEF ProgressInv, TurnsInOrder
  <2>2. QED
    BY <1>13, <2>1
<1>14. ASSUME NEW w \in Workers, Publish(w) PROVE WorkerInv'
  BY <1>14 DEF Publish, Goto
<1>15. ASSUME NEW w \in Workers, Finish(w) PROVE WorkerInv'
  BY <1>15 DEF Finish, Goto, Release
<1>16. ASSUME NEW w \in Workers, Fail(w) PROVE WorkerInv'
  BY <1>16 DEF Fail, Goto, Fault
<1>17. ASSUME NEW w \in Workers, Unlock(w) PROVE WorkerInv'
  BY <1>17 DEF Unlock, Goto
<1>18. ASSUME NEW w \in Workers, LoseLock(w) PROVE WorkerInv'
  BY <1>18 DEF LoseLock, Fault
<1>19. ASSUME NEW w \in Workers, Crash(w) PROVE WorkerInv'
  BY <1>19 DEF Crash, Leave, Fault, NoSnapshot
<1>20. ASSUME NEW w \in Workers, ReportSuccess(w) PROVE WorkerInv'
  BY <1>20 DEF ReportSuccess, Leave, NoSnapshot, NoJob, Job
<1>21. ASSUME NEW w \in Workers, ReportFailure(w) PROVE WorkerInv'
  BY <1>21 DEF ReportFailure, Leave, NoSnapshot, Job
<1>22. CASE Initialize
  BY <1>22, RestartChangesNothing DEF Initialize
<1>23. CASE UNCHANGED vars
  BY <1>23 DEF vars
<1>24. QED
  BY <1>1, <1>2, <1>3, <1>4, <1>5, <1>6, <1>7, <1>8, <1>9, <1>10, <1>11, <1>12,
     <1>13, <1>14, <1>15, <1>16, <1>17, <1>18, <1>19, <1>20, <1>21, <1>22, <1>23
     DEF Next, TurnStep, WorkerStep

\* The empty tables satisfy the inductive invariant.
LEMMA InitIInv == Init => IInv
<1> SUFFICES ASSUME Init PROVE IInv
  OBVIOUS
<1> USE ConstantsAssumption DEF Init
<1>1. TypeOK
  BY DEF TypeOK, JobRows, Labels, NoJob, Job, NoSnapshot
<1>2. SequenceInv /\ ProgressInv /\ IssueInv /\ WorkerInv
  BY DEF SequenceInv, ProgressInv, TurnsInOrder, IssueInv, WorkerInv
<1>3. JobInv
  BY DEF JobInv, NoTurnLost, BlockedUncharged, NoJob, Job
<1>4. QED
  BY <1>1, <1>2, <1>3 DEF IInv

\* Every step preserves the inductive invariant.
LEMMA StepIInv == IInv /\ [Next]_vars => IInv'
<1> SUFFICES ASSUME IInv, [Next]_vars PROVE IInv'
  OBVIOUS
<1>1. TypeOK' /\ SequenceInv' /\ ProgressInv' /\ IssueInv' /\ JobInv' /\ WorkerInv'
  BY TypeStep, SequenceStep, ProgressStep, IssueStep, JobStep, ExecutionStep
<1>2. QED
  BY <1>1 DEF IInv

\* The inductive invariant holds of every behaviour.
THEOREM Inductive == Spec => []IInv
  BY InitIInv, StepIInv, PTL DEF Spec

-----------------------------------------------------------------------------

\* The tables and the executions keep their types.
THEOREM TypeCorrect == Spec => []TypeOK
<1>1. IInv => TypeOK
  BY DEF IInv
<1>2. QED
  BY <1>1, Inductive, PTL

\* Turns are folded in order, each after its predecessors have finished their embedding.
THEOREM FoldsInOrder == Spec => []TurnsInOrder
<1>1. IInv => TurnsInOrder
  BY DEF IInv, ProgressInv
<1>2. QED
  BY <1>1, Inductive, PTL

\* An unfinished turn always has its job.
THEOREM JobsOutliveTurns == Spec => []NoTurnLost
<1>1. IInv => NoTurnLost
  BY DEF IInv, JobInv
<1>2. QED
  BY <1>1, Inductive, PTL

\* A blocked turn is parked and spends no retry.
THEOREM BlockedTurnsWait == Spec => []BlockedUncharged
<1>1. IInv => BlockedUncharged
  BY DEF IInv, JobInv
<1>2. QED
  BY <1>1, Inductive, PTL

\* When no folded turn is unfinished the embedding is the current summary's.
THEOREM EmbeddingFollows == Spec => []EmbeddingCaughtUp
<1>1. ASSUME IInv PROVE EmbeddingCaughtUp
  <2>1. issue.version \in Nat /\ issue.embeddingVersion \in Nat
    BY <1>1 DEF IInv, TypeOK
  <2>2. processed \subseteq completed => ~(issue.embeddingVersion < issue.version)
    BY <1>1 DEF IInv, IssueInv, ProgressInv
  <2>3. issue.embeddingVersion <= issue.version
    BY <1>1 DEF IInv, IssueInv
  <2>4. QED
    BY <2>1, <2>2, <2>3, NatOrder DEF EmbeddingCaughtUp
<1>2. QED
  BY <1>1, Inductive, PTL

\* No step takes the issue back.
THEOREM MovesForward == Spec => IssueMovesForward
<1>1. IInv /\ [Next]_vars => [Forward]_vars
  <2> SUFFICES ASSUME IInv, [Next]_vars PROVE Forward
    OBVIOUS
  <2>1. /\ issue.version \in Nat /\ issue.embeddingVersion \in Nat /\ issue.processedSeq \in Nat
        /\ issue.embeddingVersion <= issue.version
    BY DEF IInv, TypeOK, IssueInv
  <2>2. CASE UNCHANGED issue
    BY <2>1, <2>2 DEF Forward
  <2>3. ASSUME NEW w \in Workers, Publish(w) PROVE Forward
    BY <2>1, <2>3 DEF Publish, Forward, IInv, TypeOK
  <2>4. ASSUME NEW w \in Workers, Complete(w), ~UNCHANGED issue PROVE Forward
    <3>1. PICK details \in BOOLEAN : Mutate(w, ev[w], details)
      BY <2>4 DEF Complete, progressVars
    <3>2. ~AlreadyApplied(ev[w]) /\ replySeq[ev[w]] \in Nat
      BY <2>4 DEF Complete, progressVars, IInv, TypeOK, WorkerInv
    <3>3. issue' = [issue EXCEPT !.version = issue.version + 1, !.processedSeq = replySeq[ev[w]]]
      BY <2>4, <3>1 DEF Mutate
    <3>4. issue.processedSeq < replySeq[ev[w]]
      BY <2>1, <3>2 DEF AlreadyApplied
    <3>5. QED
      BY <2>1, <3>2, <3>3, <3>4 DEF Forward, IInv, TypeOK
  <2>5. CASE ~UNCHANGED issue /\ \A w \in Workers : ~Publish(w) /\ ~Complete(w)
    <3>1. UNCHANGED issue
      BY <2>5 DEF Next, TurnStep, WorkerStep, vars, progressVars, SaveCustomer,
           BeginEnqueue,
         CommitEnqueue, AbortEnqueue, Deliver, TimePasses, Replay, Claim, Recover,
         AcquireLock, Snapshot, EmbeddingTarget, Finish, Fail, Unlock, LoseLock, Crash,
         ReportSuccess, ReportFailure, Initialize
    <3>2. QED
      BY <2>5, <3>1
  <2>6. QED
    BY <2>2, <2>3, <2>4, <2>5
<1>2. QED
  BY <1>1, Inductive, PTL DEF Spec, IssueMovesForward

-----------------------------------------------------------------------------
(* Exactly one mutation per linked turn *)

CountInv == IsFiniteSet(linked) /\ issue.version = Cardinality(linked)

\* Every step keeps the issue version equal to the number of linked turns.
LEMMA CountStep == IInv /\ CountInv /\ [Next]_vars => CountInv'
<1> SUFFICES ASSUME IInv, CountInv, [Next]_vars PROVE CountInv'
  OBVIOUS
<1> USE DEF CountInv
<1>1. ASSUME NEW w \in Workers, Complete(w) PROVE CountInv'
  <2>1. CASE UNCHANGED progressVars
    BY <2>1 DEF progressVars
  <2>2. CASE ~(AlreadyApplied(ev[w]) \/ IssueChanged(w))
    <3>1. PICK details \in BOOLEAN : Mutate(w, ev[w], details)
      BY <1>1, <2>2 DEF Complete
    <3>2. ev[w] \notin linked
      BY <2>2 DEF AlreadyApplied, IInv, ProgressInv
    <3>3. IsFiniteSet(linked \union {ev[w]})
          /\ Cardinality(linked \union {ev[w]}) = Cardinality(linked) + 1
      BY <3>2, FS_AddElement
    <3>4. CASE details
      <4>1. linked' = linked \union {ev[w]} /\ issue'.version = issue.version + 1
        BY <3>1, <3>4 DEF Mutate, IInv, TypeOK
      <4>2. QED
        BY <3>3, <4>1
    <3>5. CASE ~details
      BY <3>1, <3>5 DEF Mutate
    <3>6. QED
      BY <3>4, <3>5
  <2>3. QED
    BY <1>1, <2>1, <2>2 DEF Complete
<1>2. ASSUME NEW w \in Workers, Publish(w) PROVE CountInv'
  BY <1>2 DEF Publish, IInv, TypeOK
<1>3. CASE \A w \in Workers : ~Publish(w) /\ ~Complete(w)
  <2>1. UNCHANGED <<issue, linked>>
    BY <1>3 DEF Next, TurnStep, WorkerStep, vars, progressVars, SaveCustomer, BeginEnqueue,
       CommitEnqueue, AbortEnqueue, Deliver, TimePasses, Replay, Claim, Recover,
       AcquireLock, Snapshot, EmbeddingTarget, Finish, Fail, Unlock, LoseLock, Crash,
       ReportSuccess, ReportFailure, Initialize
  <2>2. QED
    BY <2>1
<1>4. QED
  BY <1>1, <1>2, <1>3

\* Whatever is retried, recovered or replayed, a turn changes the summary at most once.
THEOREM MutatesOnce == Spec => []OneMutationPerTurn
<1>1. Init => CountInv
  BY FS_EmptySet DEF Init, CountInv
<1>2. IInv /\ CountInv => OneMutationPerTurn
  BY DEF IInv, IssueInv, CountInv, OneMutationPerTurn
<1>3. QED
  BY <1>1, <1>2, CountStep, Inductive, PTL DEF Spec

-----------------------------------------------------------------------------
(* Refinement of the abstract chain *)

\* The sequence numbers of turns that are not yet visible may change.
LEMMA OrderFrame ==
  ASSUME UNCHANGED saved, \A e \in saved : replySeq'[e] = replySeq[e]
  PROVE  UNCHANGED Order
  BY DEF Order

\* Every step is a step of the abstract chain or a stutter of it.
LEMMA ChainStep == IInv /\ [Next]_vars => [Chain!Next]_Chain!vars
<1> SUFFICES ASSUME IInv, [Next]_vars PROVE [Chain!Next]_Chain!vars
  OBVIOUS
<1> USE DEF Chain!Next, Chain!vars
<1>0. IInv'
  BY StepIInv
<1>1. ASSUME NEW e \in Events, CommitEnqueue(e) PROVE Chain!Arrive(e)
  <2>1. /\ e \notin saved /\ saved' = saved \union {e}
        /\ UNCHANGED <<replySeq, processed, completed, issue>>
    BY <1>1 DEF CommitEnqueue, progressVars, IInv, SequenceInv
  <2>2. Order[e] = 0 /\ Order'[e] = replySeq[e]
    BY <2>1 DEF Order
  <2>3. \A f \in Events \ {e} : Order'[f] = Order[f]
    BY <2>1 DEF Order
  <2>4. replySeq[e] \in Nat /\ replySeq[e] # 0 /\ \A f \in saved : replySeq[f] < replySeq[e]
    BY <1>1 DEF CommitEnqueue, IInv, SequenceInv, TypeOK
  <2>5. \A f \in Events : Order[f] < replySeq[e]
    BY <2>4 DEF Order
  <2>6. QED
    BY <2>1, <2>2, <2>3, <2>5 DEF Chain!Arrive
<1>2. ASSUME NEW w \in Workers, Complete(w) PROVE Chain!Fold(ev[w]) \/ UNCHANGED Chain!vars
  <2>1. UNCHANGED Order
    BY <1>2 DEF Complete, messageVars, Order
  <2>2. CASE UNCHANGED progressVars
    BY <2>1, <2>2 DEF progressVars
  <2>3. CASE ~(AlreadyApplied(ev[w]) \/ IssueChanged(w))
    <3>1. PICK details \in BOOLEAN : Mutate(w, ev[w], details)
      BY <1>2, <2>3 DEF Complete
    <3>2. ev[w] \in saved /\ ev[w] \in Events /\ ev[w] \notin processed /\ ~Blocked(ev[w])
      BY <1>2, <2>3 DEF Complete, AlreadyApplied, IInv, WorkerInv, TypeOK
    <3>3. Order[ev[w]] # 0
      BY <3>2 DEF Order, IInv, SequenceInv
    <3>4. \A f \in Events : Order[f] # 0 /\ Order[f] < Order[ev[w]] => f \in completed
      BY <3>2 DEF Order, Blocked, Unfinished
    <3>5. /\ processed' = processed \union {ev[w]} /\ completed' = completed
          /\ issue'.version \in {issue.version, issue.version + 1}
          /\ issue'.embeddingVersion = issue.embeddingVersion
      BY <3>1 DEF Mutate, IInv, TypeOK
    <3>6. QED
      BY <2>1, <3>2, <3>3, <3>4, <3>5 DEF Chain!Fold
  <2>4. QED
    BY <1>2, <2>2, <2>3 DEF Complete
<1>3. ASSUME NEW w \in Workers, Publish(w) PROVE Chain!Publish \/ UNCHANGED Chain!vars
  <2>1. UNCHANGED Order
    BY <1>3 DEF Publish, messageVars, Order
  <2>2. QED
    BY <1>3, <2>1 DEF Publish, Chain!Publish, IInv, TypeOK
<1>4. ASSUME NEW w \in Workers, Finish(w) PROVE Chain!Settle(ev[w]) \/ UNCHANGED Chain!vars
  <2>1. UNCHANGED Order /\ UNCHANGED <<processed, issue>>
    BY <1>4 DEF Finish, messageVars, Order
  <2>2. ev[w] \in processed /\ completed' = completed \union {ev[w]}
    BY <1>4 DEF Finish, IInv, WorkerInv
  <2>3. CASE ev[w] \in completed
    BY <2>1, <2>2, <2>3
  <2>4. CASE ev[w] \notin completed
    BY <1>4, <2>1, <2>2, <2>4 DEF Finish, Chain!Settle, IInv, WorkerInv
  <2>5. QED
    BY <2>3, <2>4
<1>5. CASE Initialize
  BY <1>5, RestartChangesNothing DEF Initialize, messageVars, Order
<1>6. ASSUME NEW e \in Events, BeginEnqueue(e) \/ AbortEnqueue(e) PROVE UNCHANGED Chain!vars
  <2>1. UNCHANGED saved /\ \A f \in saved : replySeq'[f] = replySeq[f]
    BY <1>6 DEF BeginEnqueue, AbortEnqueue, IInv, TypeOK, SequenceInv
  <2>2. QED
    BY <1>6, <2>1, OrderFrame DEF BeginEnqueue, AbortEnqueue, progressVars
<1>7. CASE /\ ~Initialize
           /\ \A w \in Workers : ~Publish(w) /\ ~Complete(w) /\ ~Finish(w)
           /\ \A e \in Events : ~CommitEnqueue(e) /\ ~BeginEnqueue(e) /\ ~AbortEnqueue(e)
  <2>1. UNCHANGED <<issue, processed, completed, saved, replySeq>>
    BY <1>7 DEF Next, TurnStep, WorkerStep, vars, messageVars, progressVars, SaveCustomer,
       Deliver, TimePasses, Replay, Claim, Recover, AcquireLock, Snapshot,
       EmbeddingTarget, Fail, Unlock, LoseLock, Crash, ReportSuccess, ReportFailure
  <2>2. QED
    BY <2>1 DEF Order
<1>8. QED
  <2>1. \A w \in Workers : Complete(w) \/ Finish(w) => ev[w] \in Events
    BY DEF Complete, Finish, IInv, WorkerInv, TypeOK
  <2>2. QED
    BY <1>1, <1>2, <1>3, <1>4, <1>5, <1>6, <1>7, <2>1

\* The tables, jobs and executions implement the abstract chain: turns are folded once,
\* in order, with the embedding caught up in between.
THEOREM RefinesChain == Spec => ImplementsChain
<1>1. Init => Chain!Init
  BY DEF Init, Chain!Init, Order
<1>2. QED
  BY <1>1, ChainStep, Inductive, PTL DEF Spec, ImplementsChain, Chain!Spec

-----------------------------------------------------------------------------
(* The head of the chain *)

\* The first unfinished turn is not parked, whether or not a replica serves.
HeadInv ==
    \A e \in Events : IsHead(e, completed) /\ job[e].status = "queued" => job[e].after # "far"

\* Every step keeps the first unfinished turn released.
LEMMA HeadStep == IInv /\ HeadInv /\ [Next]_vars => HeadInv'
<1> SUFFICES ASSUME IInv, HeadInv, [Next]_vars PROVE HeadInv'
  OBVIOUS
<1> USE DEF IInv, TypeOK, HeadInv, IsHead, Blocked, Unfinished, JobRows,
            messageVars, progressVars, workerVars, boundVars
<1>1. ASSUME NEW e \in Events, SaveCustomer(e) PROVE HeadInv'
  BY <1>1 DEF SaveCustomer, SequenceInv
<1>2. ASSUME NEW e \in Events, BeginEnqueue(e) PROVE HeadInv'
  BY <1>2, ConstantsAssumption DEF BeginEnqueue, SequenceInv
<1>3. ASSUME NEW e \in Events, CommitEnqueue(e) PROVE HeadInv'
  BY <1>3, ConstantsAssumption DEF CommitEnqueue, Job, SequenceInv
<1>4. ASSUME NEW e \in Events, AbortEnqueue(e) PROVE HeadInv'
  BY <1>4, ConstantsAssumption DEF AbortEnqueue, SequenceInv
<1>5. ASSUME NEW e \in Events, Deliver(e) PROVE HeadInv'
  BY <1>5 DEF Deliver
<1>6. ASSUME NEW e \in Events, TimePasses(e) PROVE HeadInv'
  BY <1>6 DEF TimePasses
<1>7. ASSUME NEW e \in Events, Replay(e) PROVE HeadInv'
  BY <1>7 DEF Replay, Job
<1>8. ASSUME NEW w \in Workers, NEW e \in Events, Claim(w, e) PROVE HeadInv'
  BY <1>8 DEF Claim, Start
<1>9. ASSUME NEW w \in Workers, NEW e \in Events, Recover(w, e) PROVE HeadInv'
  BY <1>9 DEF Recover, Start, Fault
<1>10. ASSUME NEW w \in Workers, AcquireLock(w) PROVE HeadInv'
  BY <1>10 DEF AcquireLock, Goto
<1>11. ASSUME NEW w \in Workers, Snapshot(w) PROVE HeadInv'
  BY <1>11 DEF Snapshot, Goto, Outcome
<1>12. ASSUME NEW w \in Workers, Complete(w) PROVE HeadInv'
  BY <1>12 DEF Complete, Goto, Mutate
<1>13. ASSUME NEW w \in Workers, EmbeddingTarget(w) PROVE HeadInv'
  BY <1>13 DEF EmbeddingTarget, Goto
<1>14. ASSUME NEW w \in Workers, Publish(w) PROVE HeadInv'
  BY <1>14 DEF Publish, Goto
<1>15. ASSUME NEW w \in Workers, Finish(w) PROVE HeadInv'
  BY <1>15 DEF Finish, Goto, Release
<1>16. ASSUME NEW w \in Workers, Fail(w) PROVE HeadInv'
  BY <1>16 DEF Fail, Goto, Fault
<1>17. ASSUME NEW w \in Workers, Unlock(w) PROVE HeadInv'
  BY <1>17 DEF Unlock, Goto
<1>18. ASSUME NEW w \in Workers, LoseLock(w) PROVE HeadInv'
  BY <1>18 DEF LoseLock, Fault
<1>19. ASSUME NEW w \in Workers, Crash(w) PROVE HeadInv'
  BY <1>19 DEF Crash, Leave, Fault, NoSnapshot
<1>20. ASSUME NEW w \in Workers, ReportSuccess(w) PROVE HeadInv'
  BY <1>20 DEF ReportSuccess, Leave, NoSnapshot, NoJob, Job
<1>21. ASSUME NEW w \in Workers, ReportFailure(w) PROVE HeadInv'
  BY <1>21 DEF ReportFailure, Leave, NoSnapshot, Job
<1>22. CASE Initialize
  BY <1>22, RestartChangesNothing DEF Initialize
<1>23. CASE UNCHANGED vars
  BY <1>23 DEF vars
<1>24. QED
  BY <1>1, <1>2, <1>3, <1>4, <1>5, <1>6, <1>7, <1>8, <1>9, <1>10, <1>11, <1>12,
     <1>13, <1>14, <1>15, <1>16, <1>17, <1>18, <1>19, <1>20, <1>21, <1>22, <1>23
     DEF Next, TurnStep, WorkerStep

\* The first unfinished turn is never left parked, whenever replicas start.
THEOREM HeadsAreReleased == Spec => []HeadReleased
<1>1. Init => HeadInv
  BY DEF Init, HeadInv, IsHead, NoJob, Job
<1>2. HeadInv => HeadReleased
  BY DEF HeadInv, HeadReleased
<1>3. IInv /\ HeadInv /\ [Next]_vars => HeadInv'
  BY HeadStep
<1>4. QED
  BY <1>1, <1>2, <1>3, Inductive, PTL DEF Spec

\* In the tables of this version a replica that starts, at whatever moment, marks no turn
\* finished and parks no job that was released.
THEOREM RestartsAreHarmless == Spec => [][Initialize => UNCHANGED <<completed, job>>]_vars
<1>1. IInv /\ [Next]_vars => [Initialize => UNCHANGED <<completed, job>>]_vars
  BY RestartChangesNothing
<1>2. QED
  BY <1>1, Inductive, PTL DEF Spec

\* A turn's customer message is numbered before its reply.
OrderInv ==
    \A e \in Events : /\ custSeq[e] <= nextSeq
                      /\ replySeq[e] # 0 => custSeq[e] # 0 /\ custSeq[e] < replySeq[e]

\* The reply before the customer's message of a saved turn is the same in every later
\* state: a reply that becomes visible afterwards has a higher number.
SentimentInv ==
    /\ \A e \in processed \intersect inScope : \E row \in sentiments : row.event = e
    /\ \A row \in sentiments : /\ row.event \in processed \intersect inScope
                               /\ row.preceding = PrecedingReply(custSeq[row.event])
    /\ \A q, r \in sentiments : q.event = r.event => q = r
    /\ \A w \in Workers :
          pc[w] = "deciding" => snap[w].preceding = PrecedingReply(custSeq[ev[w]])

\* Only the transactions of the graph's side change messages, and no step of an execution
\* but complete stores a sentiment or finishes deciding with one.
LEMMA SentimentFrame ==
    ASSUME IInv, [Next]_vars
    PROVE  \/ \E e \in Events : SaveCustomer(e) \/ BeginEnqueue(e) \/ CommitEnqueue(e)
                                    \/ AbortEnqueue(e)
           \/ \E w \in Workers : Snapshot(w) \/ Complete(w)
           \/ /\ UNCHANGED <<nextSeq, custSeq, replySeq, saved, inScope, processed, sentiments>>
              /\ \A w \in Workers : pc'[w] = "deciding" => /\ pc[w] = "deciding"
                                                           /\ ev'[w] = ev[w]
                                                           /\ snap'[w] = snap[w]
<1> DEFINE Framed ==
      /\ UNCHANGED <<nextSeq, custSeq, replySeq, saved, inScope, processed, sentiments>>
      /\ \A w \in Workers : pc'[w] = "deciding" => /\ pc[w] = "deciding"
                                                   /\ ev'[w] = ev[w]
                                                   /\ snap'[w] = snap[w]
<1> USE DEF IInv, TypeOK, messageVars, progressVars, workerVars, boundVars
<1>1. ASSUME NEW e \in Events, Deliver(e) PROVE Framed
  BY <1>1 DEF Deliver
<1>2. ASSUME NEW e \in Events, TimePasses(e) PROVE Framed
  BY <1>2 DEF TimePasses
<1>3. ASSUME NEW e \in Events, Replay(e) PROVE Framed
  BY <1>3 DEF Replay
<1>4. ASSUME NEW w \in Workers, NEW e \in Events, Claim(w, e) PROVE Framed
  BY <1>4 DEF Claim, Start
<1>5. ASSUME NEW w \in Workers, NEW e \in Events, Recover(w, e) PROVE Framed
  BY <1>5 DEF Recover, Start
<1>6. ASSUME NEW w \in Workers, AcquireLock(w) PROVE Framed
  BY <1>6 DEF AcquireLock, Goto
<1>7. ASSUME NEW w \in Workers, EmbeddingTarget(w) PROVE Framed
  BY <1>7 DEF EmbeddingTarget, Goto
<1>8. ASSUME NEW w \in Workers, Publish(w) PROVE Framed
  BY <1>8 DEF Publish, Goto
<1>9. ASSUME NEW w \in Workers, Finish(w) PROVE Framed
  BY <1>9 DEF Finish, Goto
<1>10. ASSUME NEW w \in Workers, Fail(w) PROVE Framed
  BY <1>10 DEF Fail, Goto
<1>11. ASSUME NEW w \in Workers, Unlock(w) PROVE Framed
  BY <1>11 DEF Unlock, Goto
<1>12. ASSUME NEW w \in Workers, LoseLock(w) PROVE Framed
  BY <1>12 DEF LoseLock
<1>13. ASSUME NEW w \in Workers, Crash(w) PROVE Framed
  BY <1>13 DEF Crash, Leave
<1>14. ASSUME NEW w \in Workers, ReportSuccess(w) PROVE Framed
  BY <1>14 DEF ReportSuccess, Leave
<1>15. ASSUME NEW w \in Workers, ReportFailure(w) PROVE Framed
  BY <1>15 DEF ReportFailure, Leave
<1>16. CASE Initialize
  BY <1>16, RestartChangesNothing DEF Initialize
<1>17. CASE UNCHANGED vars
  BY <1>17 DEF vars
<1> HIDE DEF Framed
<1> QED
  BY <1>1, <1>2, <1>3, <1>4, <1>5, <1>6, <1>7, <1>8, <1>9, <1>10, <1>11, <1>12, <1>13,
     <1>14, <1>15, <1>16, <1>17 DEF Next, TurnStep, WorkerStep, Framed

LEMMA OrderStep == IInv /\ OrderInv /\ [Next]_vars => OrderInv'
<1> SUFFICES ASSUME IInv, OrderInv, [Next]_vars PROVE OrderInv'
  OBVIOUS
<1> USE DEF IInv, TypeOK, OrderInv
<1>1. ASSUME NEW e \in Events, SaveCustomer(e) PROVE OrderInv'
  BY <1>1 DEF SaveCustomer
<1>2. ASSUME NEW e \in Events, BeginEnqueue(e) PROVE OrderInv'
  BY <1>2 DEF BeginEnqueue
<1>3. ASSUME NEW e \in Events, CommitEnqueue(e) PROVE OrderInv'
  BY <1>3 DEF CommitEnqueue
<1>4. ASSUME NEW e \in Events, AbortEnqueue(e) PROVE OrderInv'
  BY <1>4 DEF AbortEnqueue
<1>5. ASSUME NEW w \in Workers, Snapshot(w) \/ Complete(w) PROVE OrderInv'
  BY <1>5 DEF Snapshot, Complete, messageVars
<1> QED
  BY <1>1, <1>2, <1>3, <1>4, <1>5, SentimentFrame

\* The reply before a saved turn's customer message does not change.
LEMMA PrecedingStays ==
    ASSUME IInv, OrderInv, [Next]_vars, NEW e \in saved
    PROVE  PrecedingReply(custSeq[e])' = PrecedingReply(custSeq[e])
<1> DEFINE Same ==
      /\ custSeq'[e] = custSeq[e]
      /\ saved \subseteq saved'
      /\ \A f \in saved : replySeq'[f] = replySeq[f]
      /\ \A f \in saved' \ saved : custSeq[e] < replySeq'[f]
<1> USE DEF IInv, TypeOK, OrderInv, SequenceInv
<1>1. ASSUME NEW f \in Events, SaveCustomer(f) PROVE Same
  BY <1>1 DEF SaveCustomer
<1>2. ASSUME NEW f \in Events, BeginEnqueue(f) PROVE Same
  BY <1>2 DEF BeginEnqueue
<1>3. ASSUME NEW f \in Events, CommitEnqueue(f) PROVE Same
  BY <1>3 DEF CommitEnqueue
<1>4. ASSUME NEW f \in Events, AbortEnqueue(f) PROVE Same
  BY <1>4 DEF AbortEnqueue
<1>5. ASSUME NEW w \in Workers, Snapshot(w) \/ Complete(w) PROVE Same
  BY <1>5 DEF Snapshot, Complete, messageVars
<1>6. Same
  <2> HIDE DEF Same
  <2> QED
    BY <1>1, <1>2, <1>3, <1>4, <1>5, SentimentFrame DEF Same
<1>7. saved' \subseteq Events /\ replySeq' \in [Events -> Nat]
  BY TypeStep
<1> QED
  BY <1>6, <1>7 DEF PrecedingReply

LEMMA SentimentStep == IInv /\ OrderInv /\ SentimentInv /\ [Next]_vars => SentimentInv'
<1> SUFFICES ASSUME IInv, OrderInv, SentimentInv, [Next]_vars PROVE SentimentInv'
  OBVIOUS
<1>1. \A e \in saved : PrecedingReply(custSeq[e])' = PrecedingReply(custSeq[e])
  BY PrecedingStays
<1>2. /\ processed \subseteq saved /\ inScope \subseteq saved
      /\ \A w \in Workers : pc[w] \in Labels /\ (pc[w] # "idle" => ev[w] \in saved)
  BY DEF IInv, TypeOK, WorkerInv
\* What was stored of sentiments stays right while no turn is folded.
<1>3. ASSUME UNCHANGED <<processed, sentiments>>, inScope \subseteq inScope',
             inScope' \intersect processed = inScope \intersect processed,
             \A w \in Workers :
                pc'[w] = "deciding" => snap'[w].preceding = PrecedingReply(custSeq[ev[w]])'
                                       /\ ev'[w] = ev[w]
      PROVE  SentimentInv'
  <2>1. ASSUME NEW row \in sentiments
        PROVE  row.preceding = PrecedingReply(custSeq[row.event])'
    <3>1. row.event \in saved /\ row.preceding = PrecedingReply(custSeq[row.event])
      BY <1>2 DEF SentimentInv
    <3> QED
      BY <3>1, PrecedingStays
  <2> QED
    BY <1>3, <2>1 DEF SentimentInv
<1>4. \A w \in Workers :
          pc[w] = "deciding" /\ ev'[w] = ev[w]
             => snap[w].preceding = PrecedingReply(custSeq[ev[w]])'
  <2> SUFFICES ASSUME NEW w \in Workers, pc[w] = "deciding", ev'[w] = ev[w]
               PROVE  snap[w].preceding = PrecedingReply(custSeq[ev[w]])'
    OBVIOUS
  <2>1. ev[w] \in saved /\ snap[w].preceding = PrecedingReply(custSeq[ev[w]])
    BY <1>2 DEF SentimentInv
  <2>2. PICK e \in saved : e = ev[w]
    BY <2>1
  <2>3. snap[w].preceding = PrecedingReply(custSeq[e])'
    BY <2>1, <2>2, PrecedingStays
  <2> QED
    BY <2>2, <2>3 DEF PrecedingReply
<1>5. ASSUME NEW e \in Events, SaveCustomer(e) \/ BeginEnqueue(e) \/ AbortEnqueue(e)
      PROVE  SentimentInv'
  <2>1. UNCHANGED <<processed, sentiments, inScope, pc, ev, snap>>
    BY <1>5 DEF SaveCustomer, BeginEnqueue, AbortEnqueue, progressVars, workerVars
  <2> QED
    BY <1>3, <1>4, <2>1
<1>6. ASSUME NEW e \in Events, CommitEnqueue(e) PROVE SentimentInv'
  <2>1. /\ UNCHANGED <<processed, sentiments, pc, ev, snap>>
        /\ inScope' = inScope \/ inScope' = inScope \union {e}
    BY <1>6 DEF CommitEnqueue, progressVars, workerVars
  <2>2. e \notin processed
    BY <1>2, <1>6 DEF CommitEnqueue, IInv, SequenceInv
  <2> QED
    BY <1>3, <1>4, <2>1, <2>2
<1>7. ASSUME NEW w \in Workers, Snapshot(w) PROVE SentimentInv'
  <2>1. /\ UNCHANGED <<processed, sentiments, inScope, ev>>
        /\ pc[w] = "locked"
        /\ pc' = [pc EXCEPT ![w] = Outcome(ev[w])]
        /\ snap' = [snap EXCEPT ![w] = [version |-> issue.version,
                                        preceding |-> PrecedingReply(custSeq[ev[w]])]]
    BY <1>7 DEF Snapshot, Goto, messageVars, progressVars
  <2>2. snap'[w].preceding = PrecedingReply(custSeq[ev[w]])
    BY <2>1 DEF IInv, TypeOK
  <2>3. \A x \in Workers \ {w} : pc'[x] = pc[x] /\ snap'[x] = snap[x]
    BY <2>1 DEF IInv, TypeOK
  <2>4. snap'[w].preceding = PrecedingReply(custSeq[ev[w]])'
    BY <1>1, <1>2, <2>1, <2>2
  <2> QED
    BY <1>3, <1>4, <2>1, <2>3, <2>4
<1>8. ASSUME NEW w \in Workers, Complete(w) PROVE SentimentInv'
  <2> DEFINE e == ev[w]
  <2>1. /\ pc[w] = "deciding" /\ UNCHANGED <<inScope, ev, snap>>
        /\ \A x \in Workers : pc'[x] = "deciding" => pc[x] = "deciding"
    BY <1>8 DEF Complete, Goto, messageVars, IInv, TypeOK
  <2>2. CASE UNCHANGED <<processed, sentiments>>
    BY <1>3, <1>4, <2>1, <2>2
  <2>3. CASE ~UNCHANGED <<processed, sentiments>>
    <3>1. ~AlreadyApplied(e) /\ \E details \in BOOLEAN : Mutate(w, e, details)
      BY <1>8, <2>3 DEF Complete, progressVars
    <3>2. e \in saved /\ e \notin processed
      BY <1>2, <2>1, <3>1 DEF AlreadyApplied
    <3>3. \A row \in sentiments : row.event # e
      BY <3>2 DEF SentimentInv
    <3> DEFINE new == [event |-> e, preceding |-> snap[w].preceding]
    <3>4. /\ processed' = processed \union {e}
          /\ sentiments' = IF e \in inScope THEN sentiments \union {new} ELSE sentiments
      BY <3>1, <3>3 DEF Mutate
    <3>5. ASSUME NEW row, row = new
          PROVE  row.event = e /\ row.preceding = PrecedingReply(custSeq[row.event])'
      <4>1. /\ row.event = e /\ row.event \in saved
            /\ row.preceding = PrecedingReply(custSeq[row.event])
        BY <2>1, <3>2, <3>5 DEF SentimentInv
      <4> QED
        BY <4>1, PrecedingStays
    <3> HIDE DEF new, e
    <3>6. \A w_1 \in Workers :
             pc'[w_1] = "deciding" => snap'[w_1].preceding = PrecedingReply(custSeq[ev[w_1]])'
                                      /\ ev'[w_1] = ev[w_1]
      BY <1>4, <2>1
    <3>7. \A row \in sentiments : /\ row.event \in (processed \intersect inScope)'
                                  /\ row.preceding = PrecedingReply(custSeq[row.event])'
      BY <1>1, <1>2, <2>1, <3>4 DEF SentimentInv
    <3>8. CASE e \in inScope
      <4>1. sentiments' = sentiments \union {new}
        BY <3>4, <3>8
      <4>2. \A f \in (processed \intersect inScope)' : \E row \in sentiments' : row.event = f
        BY <2>1, <3>4, <3>5, <4>1 DEF SentimentInv
      <4>3. ASSUME NEW row \in sentiments'
            PROVE  /\ row.event \in (processed \intersect inScope)'
                   /\ row.preceding = PrecedingReply(custSeq[row.event])'
        <5>1. CASE row \in sentiments
          BY <3>7, <5>1
        <5>2. CASE row = new
          BY <2>1, <3>4, <3>5, <3>8, <5>2
        <5> QED
          BY <4>1, <5>1, <5>2
      <4>4. \A q, r \in sentiments' : q.event = r.event => q = r
        BY <3>3, <3>5, <4>1 DEF SentimentInv
      <4> QED
        BY <2>1, <3>6, <4>2, <4>3, <4>4 DEF SentimentInv
    <3>9. CASE e \notin inScope
      <4>1. sentiments' = sentiments /\ (processed \intersect inScope)' = processed \intersect inScope
        BY <2>1, <3>4, <3>9
      <4> QED
        BY <2>1, <3>6, <3>7, <4>1 DEF SentimentInv
    <3> QED
      BY <3>8, <3>9
  <2> QED
    BY <2>2, <2>3
<1>9. CASE /\ UNCHANGED <<nextSeq, custSeq, replySeq, saved, inScope, processed, sentiments>>
           /\ \A w \in Workers : pc'[w] = "deciding" => /\ pc[w] = "deciding"
                                                        /\ ev'[w] = ev[w]
                                                        /\ snap'[w] = snap[w]
  BY <1>3, <1>4, <1>9
<1> QED
  BY <1>5, <1>6, <1>7, <1>8, <1>9, SentimentFrame

\* An in-scope turn has one sentiment once it is processed, and the sentiment refers to
\* the reply before the customer's message (SentimentOfPrecedingReply).
THEOREM SentimentsReferBack == Spec => []SentimentOfPrecedingReply
<1>1. Init => OrderInv /\ SentimentInv
  BY DEF Init, OrderInv, SentimentInv
<1>2. IInv /\ OrderInv /\ SentimentInv /\ [Next]_vars => OrderInv' /\ SentimentInv'
  BY OrderStep, SentimentStep
<1>3. IInv /\ SentimentInv => SentimentOfPrecedingReply
  <2> SUFFICES ASSUME IInv, SentimentInv, NEW e \in Events
               PROVE  /\ Cardinality({row \in sentiments : row.event = e})
                            = (IF e \in processed \intersect inScope THEN 1 ELSE 0)
                      /\ \A row \in sentiments :
                            row.event = e => /\ row.preceding = PrecedingReply(custSeq[e])
                                             /\ \A g \in row.preceding : replySeq[g] < custSeq[e]
    BY DEF SentimentOfPrecedingReply
  <2> DEFINE Of == {row \in sentiments : row.event = e}
  <2>1. CASE e \in processed \intersect inScope
    <3>1. PICK row \in sentiments : row.event = e
      BY <2>1 DEF SentimentInv
    <3>2. Of = {row}
      BY <3>1 DEF SentimentInv
    <3> QED
      BY <2>1, <3>2, FS_Singleton DEF SentimentInv, PrecedingReply
  <2>2. CASE e \notin processed \intersect inScope
    <3>1. Of = {}
      BY <2>2 DEF SentimentInv
    <3> QED
      BY <2>2, <3>1, FS_EmptySet DEF SentimentInv, PrecedingReply
  <2> QED
    BY <2>1, <2>2
<1> QED
  BY <1>1, <1>2, <1>3, Inductive, PTL DEF Spec
=============================================================================
