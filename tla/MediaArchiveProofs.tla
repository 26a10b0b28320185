-------------------------- MODULE MediaArchiveProofs --------------------------
(***************************************************************************)
(* Proofs that the archive keeps one file of an attachment, reports only   *)
(* intact copies, keeps the job of unsettled work and asks for attention   *)
(* with a cause.                                                           *)
(*                                                                         *)
(* An execution can lose its lock and go on calling Google beside the one  *)
(* that took over, so the invariant distinguishes what every execution     *)
(* knows (the stored id of the file) from what only the lock's holder      *)
(* knows (that no URL is stored, that nothing was uploaded yet).           *)
(***************************************************************************)
EXTENDS MediaArchive, FiniteSetTheorems, TLAPS

-----------------------------------------------------------------------------
(* The inductive invariant. *)

\* Labels of a transfer before and after it knows the id of its file.
Reading == {"checking", "opening", "marking", "chat", "folder", "folderMissing", "folderMade",
            "naming"}
Sending == {"inspecting", "downloading", "storing", "rechecking", "beginning", "storingUrl",
            "uploading", "forgetting", "verifying", "finishing"}


ColumnsTyped ==
    /\ status \in [Attachments -> {"none", "pending", "transferring", "complete", "failed"}]
    /\ missing \subseteq Attachments /\ checksum \subseteq Attachments
    /\ url \subseteq Attachments
    /\ fileId \in [Attachments -> {0, 1}]

\* A row that is queued, picked or held has an attachment.
QueueTyped ==
    /\ queueId \in [Attachments -> Rows \union {NoRow}]
    /\ jobs \in [Rows -> JobRows]
    /\ \A r \in Rows : jobs[r].status # "none" => jobs[r].attachment \in Attachments

WorkersTyped ==
    /\ lock \in [Attachments -> Workers \union {Nobody}]
    /\ pc \in [Workers -> Labels]
    /\ doing \in [Workers -> Attachments \union {NoAttachment}]
    /\ jobOf \in [Workers -> Rows \union {NoRow}]
    /\ \A w \in Workers : pc[w] # "idle" => doing[w] \in Attachments /\ jobOf[w] \in Rows

Records == [fileId : {0, 1}, checksum : BOOLEAN, url : {"none", "current", "old"}]

ReadTyped ==
    /\ row \in [Workers -> Records]
    /\ token \in [Workers -> {"none", "good", "revoked"}]
    /\ created \in [Workers -> BOOLEAN]
    /\ error \in [Workers -> Attention \union {"none", "transient", "permanent"}]

DriveTyped ==
    /\ drive \in {"none", "pending", "ready", "attention", "disconnected"}
    /\ rootMade \in BOOLEAN /\ chatMade \in BOOLEAN /\ enrolled \in BOOLEAN
    /\ trouble \in BOOLEAN
    /\ vault \in {"none", "good", "revoked"}
    /\ consent \in {"idle", "exchanged", "tokenStored", "foldersMissing", "foldersThere"}

GoogleTyped ==
    /\ folder \in [{"root", "chat"} -> {"absent", "private", "unfit"}]
    /\ files \in [Attachments -> SUBSET {1}]
    /\ content \in [Attachments -> {"none", "good", "bad"}]
    /\ session \in [Attachments -> {"none", "open", "received", "expired"}]
    /\ binned \subseteq Attachments /\ overlapped \subseteq Attachments
    /\ faults \in 0 .. MaxFaults
    /\ late \subseteq Workers

\* Before a file has its id, nothing was uploaded; who is about to use the id has it, and
\* who is to choose one and holds the lock knows that there is none.
IdInv ==
    /\ \A a \in Attachments : fileId[a] = 0 => files[a] = {}
    /\ \A w \in Workers : pc[w] \in Sending => row[w].fileId = 1 /\ fileId[doing[w]] = 1
    /\ \A w \in Workers : pc[w] \in Reading /\ Connected(w) => row[w].fileId = fileId[doing[w]]

Typed ==
    ColumnsTyped /\ QueueTyped /\ WorkersTyped /\ ReadTyped /\ DriveTyped /\ GoogleTyped


\* The upload session of an attachment is open only while its URL is stored and nothing
\* has arrived; the lock's holder knows the URL, and a file that is finished is intact.
SessionInv ==
    \A a \in Attachments :
        /\ (content[a] = "none") <=> (files[a] = {})
        /\ session[a] = "open" => a \in url /\ content[a] = "none"

KnowsUrl(w) ==
    LET a == doing[w]
    IN  /\ row[w].url # "old"
        /\ row[w].url = "none" <=> a \notin url
        /\ pc[w] \in {"beginning", "storingUrl"} => row[w].url = "none"
        /\ pc[w] = "storingUrl" => files[a] = {}
        /\ pc[w] = "forgetting" => session[a] = "expired"

UrlInv ==
    SessionInv /\ \A w \in Workers : pc[w] \in Reading \union Sending /\ Connected(w) => KnowsUrl(w)

IntactInv ==
    /\ \A w \in Workers : pc[w] = "finishing" => content[doing[w]] = "good"
    /\ \A a \in Attachments : status[a] = "complete" => content[a] = "good"

\* The job of an attachment is the one its row names; who works on an attachment without
\* another execution has its job, and has left it in a state that its row agrees with.
JobInv ==
    /\ \A r \in Rows : jobs[r].status # "none"
           => queueId[jobs[r].attachment] = r /\ status[jobs[r].attachment] # "none"
    /\ \A r \in Rows : jobs[r].status = "none" => jobs[r] = NoJob
    /\ \A w \in Workers : pc[w] # "idle"
           => jobs[jobOf[w]] = NoJob \/ jobs[jobOf[w]].attachment = doing[w]
    /\ \A w \in Workers : pc[w] # "idle" /\ doing[w] \notin overlapped
           => jobs[jobOf[w]].status = "picked"
    /\ \A v, w \in Workers : pc[v] # "idle" /\ pc[w] # "idle" /\ doing[v] = doing[w]
                             /\ doing[w] \notin overlapped => v = w
    /\ \A w \in Workers : pc[w] \in {"returned", "attention"} /\ doing[w] \notin overlapped
           => status[doing[w]] \notin {"pending", "transferring"}
    /\ \A a \in Attachments :
           status[a] \in {"pending", "transferring"} /\ a \notin overlapped
               => queueId[a] \in Rows /\ jobs[queueId[a]].attachment = a

Marks(w) == pc[w] = "attention" \/ (pc[w] = "failing" /\ error[w] \in Attention)

\* Whoever asks for attention found a drive that was not ready, or has an excuse.
AttentionInv ==
    /\ vault = "revoked" => trouble
    /\ \A f \in {"root", "chat"} : folder[f] = "unfit" => trouble
    /\ \A w \in Workers : pc[w] \in {"idle", "waiting", "checking"} => token[w] = "none"
    /\ \A w \in Workers : token[w] = "revoked" => trouble \/ w \in late
    /\ \A w \in Workers : Marks(w)
           => drive # "ready" \/ trouble \/ w \in late \/ doing[w] \in binned

LEMMA FaultCounted == Fault /\ faults \in 0 .. MaxFaults => faults' \in 0 .. MaxFaults
BY ArchiveAssumption DEF Fault

LEMMA NewId == \A a \in Attachments : files[a] = {} => FreshId(a) = 1
BY FS_EmptySet DEF FreshId

\* Parts of the types whose proof takes several steps.
LEMMA TypedRest ==
    ASSUME Typed, IdInv, JobInv, NEW w \in Workers
    PROVE  /\ \A r \in Rows : Recover(w, r) => GoogleTyped'
           /\ Begin(w) => ReadTyped'
           /\ NameFile(w) => ReadTyped'
           /\ Open(w) \/ Fails(w) \/ StoreUrl(w) => ReadTyped'
           /\ Fails(w) => DriveTyped'
           /\ RecheckDrive(w) => Typed'
           /\ Upload(w) => GoogleTyped'
           /\ ReportFailure(w) => Typed'
<1> USE DEF columns, queueVars, workVars, readVars, driveVars,
        googleVars, historyVars, vars, At, Goto
<1>1. ASSUME NEW r \in Rows, Recover(w, r) PROVE GoogleTyped'
  <2>1. jobs[r].attachment \in Attachments
    BY <1>1 DEF Recover, Typed, QueueTyped
  <2>2. overlapped' \subseteq Attachments
    <3>1. overlapped' = overlapped \/ overlapped' = overlapped \union {jobs[r].attachment}
      BY <1>1, Zenon DEF Recover
    <3> QED
      BY <2>1, <3>1 DEF Typed, GoogleTyped
  <2>3. faults' \in 0 .. MaxFaults
    <3>1. Fault \/ faults' = faults
      BY <1>1, Zenon DEF Recover
    <3> QED
      BY <3>1, FaultCounted DEF Typed, GoogleTyped
  <2>4. UNCHANGED <<googleVars, late>> 
    BY <1>1 DEF Recover
  <2> QED
    BY <2>2, <2>3, <2>4 DEF Typed, GoogleTyped
<1>2. ASSUME Begin(w) PROVE ReadTyped'
  <2> DEFINE a == doing[w]
             known == a \in checksum
             link == IF a \in url THEN "current" ELSE "none"
             id == fileId[a]
             read == [fileId |-> id, checksum |-> known, url |-> link]
  <2>1. row' = row \/ row' = [row EXCEPT ![w] = read]
    BY <1>2 DEF Begin
  <2>2. known \in BOOLEAN /\ link \in {"none", "current", "old"} /\ id \in {0, 1}
    BY <1>2 DEF Begin, Typed, WorkersTyped, ColumnsTyped
  <2> HIDE DEF known, link, id
  <2>3. read \in Records
    BY <2>2 DEF Records
  <2> HIDE DEF read
  <2>4. row' \in [Workers -> Records]
    BY <2>1, <2>3 DEF Typed, ReadTyped
  <2>5. token' = token /\ created' = created /\ error' = error
    BY <1>2 DEF Begin
  <2> QED
    BY <2>4, <2>5 DEF Typed, ReadTyped, Records, Attention
<1>3. ASSUME NameFile(w) PROVE ReadTyped'
  <2>1. row' = row \/ row' = [row EXCEPT ![w].fileId = 1]
    <3>1. CASE row[w].fileId = 0
      <4>1. fileId[doing[w]] = 0 /\ doing[w] \in Attachments
        BY <1>3, <3>1 DEF NameFile, Statement, IdInv, Reading, Typed, WorkersTyped
      <4>2. FreshId(doing[w]) = 1
        BY <4>1, NewId DEF IdInv
      <4> QED
        BY <1>3, <3>1, <4>2 DEF NameFile
    <3>2. CASE row[w].fileId # 0
      BY <1>3, <3>2 DEF NameFile
    <3> QED
      BY <3>1, <3>2
  <2>2. [row[w] EXCEPT !.fileId = 1] \in Records
    BY DEF Typed, ReadTyped, Records
  <2>3. row' \in [Workers -> Records]
    BY <2>1, <2>2 DEF Typed, ReadTyped
  <2>4. token' = token /\ created' = created /\ error' = error
    BY <1>3 DEF NameFile
  <2> QED
    BY <2>3, <2>4 DEF Typed, ReadTyped, Records, Attention
<1>4. ASSUME RecheckDrive(w) PROVE Typed'
  <2>1. PICK l \in {"beginning", "uploading", "failing"} : pc' = [pc EXCEPT ![w] = l]
    BY <1>4 DEF RecheckDrive, Raise
  <2>2. pc' \in [Workers -> Labels] /\ pc[w] # "idle"
    BY <1>4, <2>1 DEF RecheckDrive, Statement, Typed, WorkersTyped, Labels, InTransfer,
       Statements, Calls, Recording
  <2>3. error' \in [Workers -> Attention \union {"none", "transient", "permanent"}]
    BY <1>4 DEF RecheckDrive, Raise, Typed, ReadTyped, Attention
  <2>4. UNCHANGED <<columns, lock, readVars, chatMade, queueVars, workVars, driveVars, googleVars,
                    faults, historyVars>>
    BY <1>4 DEF RecheckDrive, Statement
  <2> QED
    BY <2>1, <2>2, <2>3, <2>4 DEF Typed, ColumnsTyped, QueueTyped, WorkersTyped, ReadTyped,
       DriveTyped, GoogleTyped
<1>5. ASSUME Upload(w) PROVE GoogleTyped'
  <2>1. doing[w] \in Attachments /\ row[w].fileId = 1
    BY <1>5 DEF Upload, Call, Typed, WorkersTyped, IdInv, Sending
  <2>2. files' = files \/ files' = [files EXCEPT ![doing[w]] = @ \union {1}]
    BY <1>5, <2>1 DEF Upload
  <2>3. session' = session \/ session' = [session EXCEPT ![doing[w]] = "received"]
    BY <1>5 DEF Upload
  <2>4. content' = content \/ \E c \in {"good", "bad"} : content' = [content EXCEPT ![doing[w]] = c]
    BY <1>5 DEF Upload
  <2>5. Fault \/ faults' = faults
    BY <1>5, Zenon DEF Upload
  <2>6. /\ folder' = folder /\ binned' = binned /\ overlapped' = overlapped /\ late' = late
    BY <1>5 DEF Upload
  <2>7. faults' \in 0 .. MaxFaults
    BY <2>5, FaultCounted DEF Typed, GoogleTyped
  <2>8. files' \in [Attachments -> SUBSET {1}]
    BY <2>1, <2>2 DEF Typed, GoogleTyped
  <2>9. content' \in [Attachments -> {"none", "good", "bad"}]
    BY <2>1, <2>4 DEF Typed, GoogleTyped
  <2>10. session' \in [Attachments -> {"none", "open", "received", "expired"}]
    BY <2>1, <2>3 DEF Typed, GoogleTyped
  <2>11. /\ folder' \in [{"root", "chat"} -> {"absent", "private", "unfit"}]
         /\ binned' \subseteq Attachments /\ overlapped' \subseteq Attachments
         /\ late' \subseteq Workers
    BY <2>6 DEF Typed, GoogleTyped
  <2> QED
    BY <2>7, <2>8, <2>9, <2>10, <2>11 DEF GoogleTyped
<1>6. ASSUME ReportFailure(w) PROVE Typed'
  <2> DEFINE r == jobOf[w]
             j == jobs[r]
             held == [j EXCEPT !.status = "failed"]
             again == Job(j.attachment, "queued", j.attempts + 1)
  <2>1. r \in Rows /\ j \in JobRows /\ (j.status # "none" => j.attachment \in Attachments)
    BY <1>6 DEF ReportFailure, Typed, QueueTyped, WorkersTyped
  <2>2. j.attachment \in Attachments \union {NoAttachment} /\ j.attempts \in 0 .. MaxRetries
    BY <2>1 DEF JobRows
  <2>3. held \in JobRows /\ held.attachment = j.attachment
    BY <2>1 DEF JobRows
  <2>4. j.attempts < MaxRetries => again \in JobRows /\ again.attachment = j.attachment
    BY <2>2, ArchiveAssumption DEF JobRows, Job
  <2>5. j = NoJob \/ j.status # "none"
    BY <2>1 DEF JobInv
  <2>6. jobs' = jobs \/ (j # NoJob /\ jobs' = [jobs EXCEPT ![r] = held])
          \/ (j # NoJob /\ j.attempts < MaxRetries /\ jobs' = [jobs EXCEPT ![r] = again])
    BY <1>6, <2>2, ArchiveAssumption DEF ReportFailure
  <2>7. queueId' = queueId
    BY <1>6 DEF ReportFailure
  <2> HIDE DEF held, again
  <2>8. QueueTyped'
    BY <2>1, <2>3, <2>4, <2>5, <2>6, <2>7 DEF Typed, QueueTyped
  <2>9. ColumnsTyped' /\ DriveTyped'
    BY <1>6 DEF ReportFailure, Typed, ColumnsTyped, DriveTyped
  <2>10. WorkersTyped'
    BY <1>6 DEF ReportFailure, Leave, Typed, WorkersTyped, Labels, InTransfer
  <2>11. ReadTyped'
    <3>1. NoRecord \in Records
      BY DEF NoRecord, Records
    <3> QED
      BY <1>6, <3>1 DEF ReportFailure, Leave, Typed, ReadTyped
  <2>12. GoogleTyped'
    BY <1>6 DEF ReportFailure, Leave, Typed, GoogleTyped
  <2> QED
    BY <2>8, <2>9, <2>10, <2>11, <2>12 DEF Typed
<1>7. ASSUME Open(w) \/ Fails(w) PROVE ReadTyped'
  <2>1. row' = row /\ created' = created
    BY <1>7, Zenon DEF Open, Fails
  <2>2. token' = token \/ token' = [token EXCEPT ![w] = "good"]
    BY <1>7, Zenon DEF Open, Fails
  <2>3. error' = error \/ \E class \in {"reconnect", "refused", "transient", "permanent"} :
            error' = [error EXCEPT ![w] = class]
    BY <1>7 DEF Open, Fails, Raise
  <2>4. token' \in [Workers -> {"none", "good", "revoked"}]
    BY <2>2 DEF Typed, ReadTyped
  <2>5. error' \in [Workers -> Attention \union {"none", "transient", "permanent"}]
    BY <2>3 DEF Typed, ReadTyped, Attention
  <2> QED
    BY <2>1, <2>4, <2>5 DEF Typed, ReadTyped, Records, Attention
<1>8. ASSUME StoreUrl(w) PROVE ReadTyped'
  <2> DEFINE Url(v, link) == [row[v] EXCEPT !.url = link]
  <2>1. \A v \in Workers : Url(v, "current") \in Records /\ Url(v, "old") \in Records
    BY DEF Typed, ReadTyped, Records
  <2>2. row' = [v \in Workers |->
                   IF v = w THEN Url(v, "current")
                   ELSE IF doing[v] = doing[w] /\ row[v].url = "current"
                   THEN Url(v, "old") ELSE row[v]]
    BY <1>8 DEF StoreUrl
  <2> HIDE DEF Url
  <2>3. row' \in [Workers -> Records]
    BY <2>1, <2>2 DEF Typed, ReadTyped
  <2>4. token' = token /\ created' = created /\ error' = error
    BY <1>8 DEF StoreUrl
  <2> QED
    BY <2>3, <2>4 DEF Typed, ReadTyped, Records, Attention
<1>9. ASSUME Fails(w) PROVE DriveTyped'
  <2>1. \/ trouble' = trouble
        \/ \E class \in {"transient", "permanent", "refused"} :
               trouble' = (trouble \/ class = "refused")
    BY <1>9, Zenon DEF Fails
  <2>2. trouble' \in BOOLEAN
    BY <2>1, Zenon DEF Typed, DriveTyped
  <2>3. UNCHANGED <<driveVars, chatMade>>
    BY <1>9, Zenon DEF Fails
  <2> QED
    BY <2>2, <2>3 DEF Typed, DriveTyped
<1> QED
  BY <1>1, <1>2, <1>3, <1>4, <1>5, <1>6, <1>7, <1>8, <1>9 DEF Typed

\* The steps that change the types' larger parts, part by part.
LEMMA TypedParts ==
    ASSUME Typed, IdInv, JobInv,
           \/ \E a \in Attachments : Import(a) \/ Replay(a)
           \/ \E w \in Workers :
                  \/ \E r \in Rows : Claim(w, r) \/ Recover(w, r)
                  \/ Begin(w) \/ CheckDrive(w) \/ Open(w) \/ FindFolder(w)
                  \/ MakeFolder(w) \/ NameFile(w) \/ Inspect(w) \/ BeginUpload(w)
                  \/ StoreUrl(w) \/ Upload(w) \/ ForgetUrl(w) \/ Verify(w)
                  \/ RecordFailure(w) \/ Fails(w)
    PROVE  Typed'
<1> USE ArchiveAssumption DEF Typed, columns, queueVars, workVars, readVars, driveVars,
        googleVars, historyVars, vars, At, Goto
<1>1. ASSUME NEW a \in Attachments, Import(a) PROVE Typed'
  <2>1. ColumnsTyped'
    BY <1>1, SMTT(90) DEF Import, FreshRow, Job, NoJob, ColumnsTyped, WorkersTyped
  <2>2. QueueTyped'
    BY <1>1, SMTT(90) DEF Import, FreshRow, Job, NoJob, QueueTyped, JobRows, WorkersTyped
  <2>3. WorkersTyped'
    BY <1>1, SMTT(90) DEF Import, FreshRow, Job, NoJob, WorkersTyped, Labels, InTransfer,
       Statements, Calls, Recording
  <2>4. ReadTyped'
    BY <1>1, SMTT(90) DEF Import, FreshRow, Job, NoJob, ReadTyped, Attention, Records,
       WorkersTyped, ColumnsTyped
  <2>5. DriveTyped'
    BY <1>1, SMTT(90) DEF Import, FreshRow, Job, NoJob, DriveTyped, WorkersTyped
  <2>6. GoogleTyped'
    BY <1>1, SMTT(90) DEF Import, FreshRow, Job, NoJob, GoogleTyped, WorkersTyped
  <2> QED
    BY <2>1, <2>2, <2>3, <2>4, <2>5, <2>6
<1>2. ASSUME NEW a \in Attachments, Replay(a) PROVE Typed'
  <2>1. ColumnsTyped'
    BY <1>2, SMTT(90) DEF Replay, FreshRow, LiveJobs, Job, NoJob, ColumnsTyped, WorkersTyped
  <2>2. QueueTyped'
    BY <1>2, SMTT(90) DEF Replay, FreshRow, LiveJobs, Job, NoJob, QueueTyped, JobRows,
       WorkersTyped
  <2>3. WorkersTyped'
    BY <1>2, SMTT(90) DEF Replay, FreshRow, LiveJobs, Job, NoJob, WorkersTyped, Labels,
       InTransfer, Statements, Calls, Recording
  <2>4. ReadTyped'
    BY <1>2, SMTT(90) DEF Replay, FreshRow, LiveJobs, Job, NoJob, ReadTyped, Attention,
       Records, WorkersTyped, ColumnsTyped
  <2>5. DriveTyped'
    BY <1>2, SMTT(90) DEF Replay, FreshRow, LiveJobs, Job, NoJob, DriveTyped, WorkersTyped
  <2>6. GoogleTyped'
    BY <1>2, SMTT(90) DEF Replay, FreshRow, LiveJobs, Job, NoJob, GoogleTyped, WorkersTyped
  <2> QED
    BY <2>1, <2>2, <2>3, <2>4, <2>5, <2>6
<1>3. ASSUME NEW w \in Workers, NEW r \in Rows, Claim(w, r) PROVE Typed'
  <2>1. ColumnsTyped'
    BY <1>3, SMTT(90) DEF Claim, Start, Job, NoJob, ColumnsTyped, WorkersTyped
  <2>2. QueueTyped'
    BY <1>3, SMTT(90) DEF Claim, Start, Job, NoJob, QueueTyped, JobRows, WorkersTyped
  <2>3. WorkersTyped'
    BY <1>3, SMTT(90) DEF Claim, Start, Job, NoJob, WorkersTyped, Labels, InTransfer,
       Statements, Calls, Recording, QueueTyped, JobRows
  <2>4. ReadTyped'
    BY <1>3, SMTT(90) DEF Claim, Start, Job, NoJob, ReadTyped, Attention, Records,
       WorkersTyped, ColumnsTyped
  <2>5. DriveTyped'
    BY <1>3, SMTT(90) DEF Claim, Start, Job, NoJob, DriveTyped, WorkersTyped
  <2>6. GoogleTyped'
    BY <1>3, SMTT(90) DEF Claim, Start, Job, NoJob, GoogleTyped, WorkersTyped
  <2> QED
    BY <2>1, <2>2, <2>3, <2>4, <2>5, <2>6
<1>4. ASSUME NEW w \in Workers, NEW r \in Rows, Recover(w, r) PROVE Typed'
  <2>1. ColumnsTyped'
    BY <1>4, SMTT(90) DEF Recover, Start, Executing, Job, NoJob, ColumnsTyped, WorkersTyped
  <2>2. QueueTyped'
    BY <1>4, SMTT(90) DEF Recover, Start, Executing, Job, NoJob, QueueTyped, JobRows,
       WorkersTyped
  <2>3. WorkersTyped'
    BY <1>4, SMTT(90) DEF Recover, Start, Executing, Job, NoJob, WorkersTyped, Labels,
       InTransfer, Statements, Calls, Recording, QueueTyped, JobRows
  <2>4. ReadTyped'
    BY <1>4, SMTT(90) DEF Recover, Start, Executing, Job, NoJob, ReadTyped, Attention,
       Records, WorkersTyped, ColumnsTyped
  <2>5. DriveTyped'
    BY <1>4, SMTT(90) DEF Recover, Start, Fault, Executing, Job, NoJob, DriveTyped, WorkersTyped
  <2>6. GoogleTyped'
    BY <1>4, TypedRest
  <2> QED
    BY <2>1, <2>2, <2>3, <2>4, <2>5, <2>6
<1>5. ASSUME NEW w \in Workers, Begin(w) PROVE Typed'
  <2>1. ColumnsTyped'
    BY <1>5, SMTT(90) DEF Begin, ColumnsTyped, WorkersTyped
  <2>2. QueueTyped'
    BY <1>5, SMTT(90) DEF Begin, QueueTyped, JobRows, WorkersTyped
  <2>3. WorkersTyped'
    BY <1>5, SMTT(90) DEF Begin, WorkersTyped, Labels, InTransfer, Statements, Calls, Recording
  <2>4. ReadTyped'
    BY <1>5, TypedRest
  <2>5. DriveTyped'
    BY <1>5, SMTT(90) DEF Begin, DriveTyped, WorkersTyped
  <2>6. GoogleTyped'
    BY <1>5, SMTT(90) DEF Begin, GoogleTyped, WorkersTyped
  <2> QED
    BY <2>1, <2>2, <2>3, <2>4, <2>5, <2>6
<1>6. ASSUME NEW w \in Workers, CheckDrive(w) PROVE Typed'
  <2>1. ColumnsTyped'
    BY <1>6, SMTT(90) DEF CheckDrive, Statement, Raise, Connected, ColumnsTyped, WorkersTyped
  <2>2. QueueTyped'
    BY <1>6, SMTT(90) DEF CheckDrive, Statement, Raise, Connected, QueueTyped, JobRows,
       WorkersTyped
  <2>3. WorkersTyped'
    BY <1>6, SMTT(90) DEF CheckDrive, Statement, Raise, Connected, WorkersTyped, Labels,
       InTransfer, Statements, Calls, Recording
  <2>4. ReadTyped'
    BY <1>6, SMTT(90) DEF CheckDrive, Statement, Raise, Connected, ReadTyped, Attention,
       Records, WorkersTyped, ColumnsTyped
  <2>5. DriveTyped'
    BY <1>6, SMTT(90) DEF CheckDrive, Statement, Raise, Connected, DriveTyped, WorkersTyped
  <2>6. GoogleTyped'
    BY <1>6, SMTT(90) DEF CheckDrive, Statement, Raise, Connected, GoogleTyped, WorkersTyped
  <2> QED
    BY <2>1, <2>2, <2>3, <2>4, <2>5, <2>6
<1>7. ASSUME NEW w \in Workers, Open(w) PROVE Typed'
  <2>1. ColumnsTyped'
    BY <1>7, SMTT(90) DEF Open, Raise, ColumnsTyped, WorkersTyped
  <2>2. QueueTyped'
    BY <1>7, SMTT(90) DEF Open, Raise, QueueTyped, JobRows, WorkersTyped
  <2>3. WorkersTyped'
    BY <1>7, SMTT(90) DEF Open, Raise, WorkersTyped, Labels, InTransfer, Statements, Calls,
       Recording
  <2>4. ReadTyped'
    BY <1>7, TypedRest
  <2>5. DriveTyped'
    BY <1>7, SMTT(90) DEF Open, Raise, DriveTyped, WorkersTyped
  <2>6. GoogleTyped'
    BY <1>7, SMTT(90) DEF Open, Raise, GoogleTyped, WorkersTyped
  <2> QED
    BY <2>1, <2>2, <2>3, <2>4, <2>5, <2>6
<1>8. ASSUME NEW w \in Workers, FindFolder(w) PROVE Typed'
  <2>1. ColumnsTyped'
    BY <1>8, SMTT(90) DEF FindFolder, Call, Raise, ColumnsTyped, WorkersTyped
  <2>2. QueueTyped'
    BY <1>8, SMTT(90) DEF FindFolder, Call, Raise, QueueTyped, JobRows, WorkersTyped
  <2>3. WorkersTyped'
    BY <1>8, SMTT(90) DEF FindFolder, Call, Raise, WorkersTyped, Labels, InTransfer,
       Statements, Calls, Recording
  <2>4. ReadTyped'
    BY <1>8, SMTT(90) DEF FindFolder, Call, Raise, ReadTyped, Attention, Records,
       WorkersTyped, ColumnsTyped
  <2>5. DriveTyped'
    BY <1>8, SMTT(90) DEF FindFolder, Call, Raise, DriveTyped, WorkersTyped
  <2>6. GoogleTyped'
    BY <1>8, SMTT(90) DEF FindFolder, Call, Raise, GoogleTyped, WorkersTyped
  <2> QED
    BY <2>1, <2>2, <2>3, <2>4, <2>5, <2>6
<1>9. ASSUME NEW w \in Workers, MakeFolder(w) PROVE Typed'
  <2>1. ColumnsTyped'
    BY <1>9, SMTT(90) DEF MakeFolder, Call, Raise, ColumnsTyped, WorkersTyped
  <2>2. QueueTyped'
    BY <1>9, SMTT(90) DEF MakeFolder, Call, Raise, QueueTyped, JobRows, WorkersTyped
  <2>3. WorkersTyped'
    BY <1>9, SMTT(90) DEF MakeFolder, Call, Raise, WorkersTyped, Labels, InTransfer,
       Statements, Calls, Recording
  <2>4. ReadTyped'
    BY <1>9, SMTT(90) DEF MakeFolder, Call, Raise, ReadTyped, Attention, Records,
       WorkersTyped, ColumnsTyped
  <2>5. DriveTyped'
    BY <1>9, SMTT(90) DEF MakeFolder, Call, Raise, DriveTyped, WorkersTyped
  <2>6. GoogleTyped'
    BY <1>9, SMTT(90) DEF MakeFolder, Call, Raise, GoogleTyped, WorkersTyped
  <2> QED
    BY <2>1, <2>2, <2>3, <2>4, <2>5, <2>6
<1>10. ASSUME NEW w \in Workers, NameFile(w) PROVE Typed'
  <2>1. ColumnsTyped'
    BY <1>10, NewId, SMTT(90) DEF NameFile, Statement, Connected, ColumnsTyped, WorkersTyped,
       IdInv, Reading, GoogleTyped
  <2>2. QueueTyped'
    BY <1>10, SMTT(90) DEF NameFile, Statement, Connected, FreshId, QueueTyped, JobRows,
       WorkersTyped
  <2>3. WorkersTyped'
    BY <1>10, SMTT(90) DEF NameFile, Statement, Connected, FreshId, WorkersTyped, Labels,
       InTransfer, Statements, Calls, Recording
  <2>4. ReadTyped'
    BY <1>10, TypedRest
  <2>5. DriveTyped'
    BY <1>10, SMTT(90) DEF NameFile, Statement, Connected, FreshId, DriveTyped, WorkersTyped
  <2>6. GoogleTyped'
    BY <1>10, SMTT(90) DEF NameFile, Statement, Connected, FreshId, GoogleTyped, WorkersTyped
  <2> QED
    BY <2>1, <2>2, <2>3, <2>4, <2>5, <2>6
<1>11. ASSUME NEW w \in Workers, Inspect(w) PROVE Typed'
  <2>1. ColumnsTyped'
    BY <1>11, SMTT(90) DEF Inspect, Call, Raise, ColumnsTyped, WorkersTyped
  <2>2. QueueTyped'
    BY <1>11, SMTT(90) DEF Inspect, Call, Raise, QueueTyped, JobRows, WorkersTyped
  <2>3. WorkersTyped'
    BY <1>11, SMTT(90) DEF Inspect, Call, Raise, WorkersTyped, Labels, InTransfer, Statements,
       Calls, Recording
  <2>4. ReadTyped'
    BY <1>11, SMTT(90) DEF Inspect, Call, Raise, ReadTyped, Attention, Records, WorkersTyped,
       ColumnsTyped
  <2>5. DriveTyped'
    BY <1>11, SMTT(90) DEF Inspect, Call, Raise, DriveTyped, WorkersTyped
  <2>6. GoogleTyped'
    BY <1>11, SMTT(90) DEF Inspect, Call, Raise, GoogleTyped, WorkersTyped
  <2> QED
    BY <2>1, <2>2, <2>3, <2>4, <2>5, <2>6
<1>12. ASSUME NEW w \in Workers, BeginUpload(w) PROVE Typed'
  <2>1. ColumnsTyped'
    BY <1>12, SMTT(90) DEF BeginUpload, Call, Raise, ColumnsTyped, WorkersTyped
  <2>2. QueueTyped'
    BY <1>12, SMTT(90) DEF BeginUpload, Call, Raise, QueueTyped, JobRows, WorkersTyped
  <2>3. WorkersTyped'
    BY <1>12, SMTT(90) DEF BeginUpload, Call, Raise, WorkersTyped, Labels, InTransfer,
       Statements, Calls, Recording
  <2>4. ReadTyped'
    BY <1>12, SMTT(90) DEF BeginUpload, Call, Raise, ReadTyped, Attention, Records,
       WorkersTyped, ColumnsTyped
  <2>5. DriveTyped'
    BY <1>12, SMTT(90) DEF BeginUpload, Call, Raise, DriveTyped, WorkersTyped
  <2>6. GoogleTyped'
    BY <1>12, SMTT(90) DEF BeginUpload, Call, Raise, GoogleTyped, WorkersTyped
  <2> QED
    BY <2>1, <2>2, <2>3, <2>4, <2>5, <2>6
<1>13. ASSUME NEW w \in Workers, StoreUrl(w) PROVE Typed'
  <2>1. ColumnsTyped'
    BY <1>13, SMTT(90) DEF StoreUrl, Connected, ColumnsTyped, WorkersTyped
  <2>2. QueueTyped'
    BY <1>13, SMTT(90) DEF StoreUrl, Connected, QueueTyped, JobRows, WorkersTyped
  <2>3. WorkersTyped'
    BY <1>13, SMTT(90) DEF StoreUrl, Connected, WorkersTyped, Labels, InTransfer, Statements,
       Calls, Recording
  <2>4. ReadTyped'
    BY <1>13, TypedRest
  <2>5. DriveTyped'
    BY <1>13, SMTT(90) DEF StoreUrl, Connected, DriveTyped, WorkersTyped
  <2>6. GoogleTyped'
    BY <1>13, SMTT(90) DEF StoreUrl, Connected, GoogleTyped, WorkersTyped
  <2> QED
    BY <2>1, <2>2, <2>3, <2>4, <2>5, <2>6
<1>14. ASSUME NEW w \in Workers, Upload(w) PROVE Typed'
  <2>1. ColumnsTyped'
    BY <1>14, SMTT(90) DEF Upload, Call, ColumnsTyped, WorkersTyped
  <2>2. QueueTyped'
    BY <1>14, SMTT(90) DEF Upload, Call, QueueTyped, JobRows, WorkersTyped
  <2>3. WorkersTyped'
    BY <1>14, SMTT(90) DEF Upload, Call, WorkersTyped, Labels, InTransfer, Statements, Calls,
       Recording
  <2>4. ReadTyped'
    BY <1>14, SMTT(90) DEF Upload, Call, ReadTyped, Attention, Records, WorkersTyped,
       ColumnsTyped
  <2>5. DriveTyped'
    BY <1>14, SMTT(90) DEF Upload, Call, Fault, DriveTyped, WorkersTyped
  <2>6. GoogleTyped'
    BY <1>14, TypedRest
  <2> QED
    BY <2>1, <2>2, <2>3, <2>4, <2>5, <2>6
<1>15. ASSUME NEW w \in Workers, ForgetUrl(w) PROVE Typed'
  <2>1. ColumnsTyped'
    BY <1>15, SMTT(90) DEF ForgetUrl, Statement, Raise, Connected, ColumnsTyped, WorkersTyped
  <2>2. QueueTyped'
    BY <1>15, SMTT(90) DEF ForgetUrl, Statement, Raise, Connected, QueueTyped, JobRows,
       WorkersTyped
  <2>3. WorkersTyped'
    BY <1>15, SMTT(90) DEF ForgetUrl, Statement, Raise, Connected, WorkersTyped, Labels,
       InTransfer, Statements, Calls, Recording
  <2>4. ReadTyped'
    BY <1>15, SMTT(90) DEF ForgetUrl, Statement, Raise, Connected, ReadTyped, Attention,
       Records, WorkersTyped, ColumnsTyped
  <2>5. DriveTyped'
    BY <1>15, SMTT(90) DEF ForgetUrl, Statement, Raise, Connected, DriveTyped, WorkersTyped
  <2>6. GoogleTyped'
    BY <1>15, SMTT(90) DEF ForgetUrl, Statement, Raise, Connected, GoogleTyped, WorkersTyped
  <2> QED
    BY <2>1, <2>2, <2>3, <2>4, <2>5, <2>6
<1>16. ASSUME NEW w \in Workers, Verify(w) PROVE Typed'
  <2>1. ColumnsTyped'
    BY <1>16, SMTT(90) DEF Verify, Call, Raise, ColumnsTyped, WorkersTyped
  <2>2. QueueTyped'
    BY <1>16, SMTT(90) DEF Verify, Call, Raise, QueueTyped, JobRows, WorkersTyped
  <2>3. WorkersTyped'
    BY <1>16, SMTT(90) DEF Verify, Call, Raise, WorkersTyped, Labels, InTransfer, Statements,
       Calls, Recording
  <2>4. ReadTyped'
    BY <1>16, SMTT(90) DEF Verify, Call, Raise, ReadTyped, Attention, Records, WorkersTyped,
       ColumnsTyped
  <2>5. DriveTyped'
    BY <1>16, SMTT(90) DEF Verify, Call, Raise, DriveTyped, WorkersTyped
  <2>6. GoogleTyped'
    BY <1>16, SMTT(90) DEF Verify, Call, Raise, GoogleTyped, WorkersTyped
  <2> QED
    BY <2>1, <2>2, <2>3, <2>4, <2>5, <2>6
<1>17. ASSUME NEW w \in Workers, RecordFailure(w) PROVE Typed'
  <2>1. ColumnsTyped'
    BY <1>17, SMTT(90) DEF RecordFailure, Statement, Unlock, Connected, Attention,
       ColumnsTyped, WorkersTyped
  <2>2. QueueTyped'
    BY <1>17, SMTT(90) DEF RecordFailure, Statement, Unlock, Connected, Attention, QueueTyped,
       JobRows, WorkersTyped
  <2>3. WorkersTyped'
    BY <1>17, SMTT(90) DEF RecordFailure, Statement, Unlock, Connected, Attention,
       WorkersTyped, Labels, InTransfer, Statements, Calls, Recording
  <2>4. ReadTyped'
    BY <1>17, SMTT(90) DEF RecordFailure, Statement, Unlock, Connected, Attention, ReadTyped,
       Records, WorkersTyped, ColumnsTyped
  <2>5. DriveTyped'
    BY <1>17, SMTT(90) DEF RecordFailure, Statement, Unlock, Connected, Attention, DriveTyped,
       WorkersTyped
  <2>6. GoogleTyped'
    BY <1>17, SMTT(90) DEF RecordFailure, Statement, Unlock, Connected, Attention,
       GoogleTyped, WorkersTyped
  <2> QED
    BY <2>1, <2>2, <2>3, <2>4, <2>5, <2>6
<1>18. ASSUME NEW w \in Workers, Fails(w) PROVE Typed'
  <2>1. ColumnsTyped'
    BY <1>18, SMTT(90) DEF Fails, Raise, Calls, Statements, ColumnsTyped, WorkersTyped
  <2>2. QueueTyped'
    BY <1>18, SMTT(90) DEF Fails, Raise, Calls, Statements, QueueTyped, JobRows, WorkersTyped
  <2>3. WorkersTyped'
    BY <1>18, SMTT(90) DEF Fails, Raise, Calls, Statements, WorkersTyped, Labels, InTransfer,
       Recording
  <2>4. ReadTyped'
    BY <1>18, TypedRest
  <2>5. DriveTyped'
    BY <1>18, TypedRest
  <2>6. GoogleTyped'
    BY <1>18, FaultCounted, SMTT(90) DEF Fails, Raise, Fault, Calls, Statements, GoogleTyped,
       WorkersTyped
  <2> QED
    BY <2>1, <2>2, <2>3, <2>4, <2>5, <2>6
<1> QED
  BY <1>1, <1>2, <1>3, <1>4, <1>5, <1>6, <1>7, <1>8, <1>9, <1>10, <1>11, <1>12, <1>13, <1>14,
     <1>15, <1>16, <1>17, <1>18

\* Every step keeps the types.
LEMMA TypedStep == Typed /\ IdInv /\ JobInv /\ [Next]_vars => Typed'
<1> SUFFICES ASSUME Typed, IdInv, JobInv, [Next]_vars PROVE Typed'
  OBVIOUS
<1> USE ArchiveAssumption
<1> USE DEF Typed, ColumnsTyped, QueueTyped, WorkersTyped, ReadTyped, DriveTyped, GoogleTyped,
        JobRows, Records, Attention, Labels, InTransfer, Statements, Calls, Recording
<1> USE DEF columns, queueVars, workVars, readVars, driveVars, googleVars, historyVars, vars,
   At,
        Goto
<1>1. CASE BeginComplete
  BY <1>1, FaultCounted, SMTT(90) DEF BeginComplete
<1>2. CASE WriteToken
  BY <1>2, SMTT(90) DEF WriteToken
<1>3. CASE MarkPending
  BY <1>3, SMTT(90) DEF MarkPending
<1>4. CASE RootFolders
  BY <1>4, SMTT(90) DEF RootFolders
<1>5. CASE MarkReady
  BY <1>5, SMTT(90) DEF MarkReady
<1>6. CASE AbandonComplete
  BY <1>6, FaultCounted, SMTT(90) DEF AbandonComplete
<1>7. CASE Disconnect
  BY <1>7, FaultCounted, SMTT(90) DEF Disconnect
<1>8. CASE Revoke
  BY <1>8, FaultCounted, SMTT(90) DEF Revoke
<1>9. CASE Enroll
  BY <1>9, SMTT(90) DEF Enroll
<1>10. ASSUME NEW f \in {"root", "chat"}, Spoil(f) PROVE Typed'
  BY <1>10, FaultCounted, SMTT(90) DEF Spoil
<1>11. ASSUME NEW f \in {"root", "chat"}, Repair(f) PROVE Typed'
  BY <1>11, SMTT(90) DEF Repair
<1>12. ASSUME NEW a \in Attachments, Import(a) PROVE Typed'
  BY <1>12, TypedParts
<1>13. ASSUME NEW a \in Attachments, Replay(a) PROVE Typed'
  BY <1>13, TypedParts
<1>14. ASSUME NEW a \in Attachments, Bin(a) PROVE Typed'
  BY <1>14, FaultCounted, SMTT(90) DEF Bin
<1>15. ASSUME NEW a \in Attachments, Expire(a) PROVE Typed'
  BY <1>15, FaultCounted, SMTT(90) DEF Expire
<1>16. ASSUME NEW r \in Rows, Requeue(r) PROVE Typed'
  BY <1>16, SMTT(90) DEF Requeue, Job, NoJob
<1>17. ASSUME NEW w \in Workers, NEW r \in Rows, Claim(w, r) PROVE Typed'
  BY <1>17, TypedParts
<1>18. ASSUME NEW w \in Workers, NEW r \in Rows, Recover(w, r) PROVE Typed'
  BY <1>18, TypedParts
<1>19. ASSUME NEW w \in Workers, Begin(w) PROVE Typed'
  BY <1>19, TypedParts
<1>20. ASSUME NEW w \in Workers, CheckDrive(w) PROVE Typed'
  BY <1>20, TypedParts
<1>21. ASSUME NEW w \in Workers, Open(w) PROVE Typed'
  BY <1>21, TypedParts
<1>22. ASSUME NEW w \in Workers, MarkTransferring(w) PROVE Typed'
  BY <1>22, SMTT(90) DEF MarkTransferring, Statement, Connected
<1>23. ASSUME NEW w \in Workers, ReadChat(w) PROVE Typed'
  BY <1>23, SMTT(90) DEF ReadChat, Statement, Connected
<1>24. ASSUME NEW w \in Workers, FindFolder(w) PROVE Typed'
  BY <1>24, TypedParts
<1>25. ASSUME NEW w \in Workers, MakeFolder(w) PROVE Typed'
  BY <1>25, TypedParts
<1>26. ASSUME NEW w \in Workers, MarkFolders(w) PROVE Typed'
  BY <1>26, SMTT(90) DEF MarkFolders, Statement, Connected
<1>27. ASSUME NEW w \in Workers, NameFile(w) PROVE Typed'
  BY <1>27, TypedParts
<1>28. ASSUME NEW w \in Workers, Inspect(w) PROVE Typed'
  BY <1>28, TypedParts
<1>29. ASSUME NEW w \in Workers, Download(w) PROVE Typed'
  BY <1>29, SMTT(90) DEF Download
<1>30. ASSUME NEW w \in Workers, StoreChecksum(w) PROVE Typed'
  BY <1>30, SMTT(90) DEF StoreChecksum, Statement, Connected
<1>31. ASSUME NEW w \in Workers, RecheckDrive(w) PROVE Typed'
  BY <1>31, TypedRest
<1>32. ASSUME NEW w \in Workers, BeginUpload(w) PROVE Typed'
  BY <1>32, TypedParts
<1>33. ASSUME NEW w \in Workers, StoreUrl(w) PROVE Typed'
  BY <1>33, TypedParts
<1>34. ASSUME NEW w \in Workers, Upload(w) PROVE Typed'
  BY <1>34, TypedParts
<1>35. ASSUME NEW w \in Workers, ForgetUrl(w) PROVE Typed'
  BY <1>35, TypedParts
<1>36. ASSUME NEW w \in Workers, Verify(w) PROVE Typed'
  BY <1>36, TypedParts
<1>37. ASSUME NEW w \in Workers, MarkComplete(w) PROVE Typed'
  BY <1>37, SMTT(90) DEF MarkComplete, Statement, Unlock, Connected
<1>38. ASSUME NEW w \in Workers, RecordFailure(w) PROVE Typed'
  BY <1>38, TypedParts
<1>39. ASSUME NEW w \in Workers, MarkAttention(w) PROVE Typed'
  BY <1>39, SMTT(90) DEF MarkAttention, Unlock, Connected
<1>40. ASSUME NEW w \in Workers, Denied(w) PROVE Typed'
  BY <1>40, SMTT(90) DEF Denied, Raise
<1>41. ASSUME NEW w \in Workers, Disconnected(w) PROVE Typed'
  BY <1>41, SMTT(90) DEF Disconnected, Connected
<1>42. ASSUME NEW w \in Workers, ReportSuccess(w) PROVE Typed'
  BY <1>42, SMTT(90) DEF ReportSuccess, Leave, Job, NoJob, NoRecord
<1>43. ASSUME NEW w \in Workers, ReportFailure(w) PROVE Typed'
  BY <1>43, TypedRest
<1>44. ASSUME NEW w \in Workers, Fails(w) PROVE Typed'
  BY <1>44, TypedParts
<1>45. ASSUME NEW w \in Workers, LoseLock(w) PROVE Typed'
  BY <1>45, FaultCounted, SMTT(90) DEF LoseLock, Unlock, Connected
<1>46. ASSUME NEW w \in Workers, Crash(w) PROVE Typed'
  BY <1>46, FaultCounted, SMTT(90) DEF Crash, Leave, Unlock, Connected, NoRecord
<1>47. CASE UNCHANGED vars
  BY <1>47
<1> QED
  BY <1>1, <1>2, <1>3, <1>4, <1>5, <1>6, <1>7, <1>8, <1>9, <1>10, <1>11, <1>12, <1>13, <1>14,
     <1>15, <1>16, <1>17, <1>18, <1>19, <1>20, <1>21, <1>22, <1>23, <1>24, <1>25, <1>26, <1>27,
     <1>28, <1>29, <1>30, <1>31, <1>32, <1>33, <1>34, <1>35, <1>36, <1>37, <1>38, <1>39, <1>40,
     <1>41, <1>42, <1>43, <1>44, <1>45, <1>46, <1>47, ZenonT(60)
        DEF Next, Drive, Transfer, LiveJobs

\* What becomes of the drive changes nothing of the transfers but their tokens.
LEMMA DriveKeeps ==
    Drive => UNCHANGED <<columns, queueVars, lock, pc, doing, jobOf, row, files, content,
                         session, overlapped>>
BY SMTT(90) DEF Drive, BeginComplete, WriteToken, MarkPending, RootFolders, MarkReady,
   AbandonComplete, Disconnect, Revoke, Enroll, Spoil, Repair,
   columns, queueVars, workVars, readVars, googleVars, historyVars

\* A step that only moves w on.
LEMMA IdMove ==
    ASSUME Typed, IdInv, NEW w \in Workers, NEW l \in Labels, pc' = [pc EXCEPT ![w] = l],
           UNCHANGED <<fileId, files, lock, row, doing>>,
           l \in Sending => row[w].fileId = 1 /\ fileId[doing[w]] = 1,
           l \in Reading => pc[w] \in Reading
    PROVE  IdInv'
BY DEF Typed, WorkersTyped, IdInv, Connected, Reading, Sending

\* Steps that read or choose the id.
LEMMA IdSteps ==
    ASSUME Typed, IdInv, Typed', NEW w \in Workers,
           \/ Begin(w) \/ FindFolder(w) \/ NameFile(w) \/ Inspect(w) \/ Upload(w)
           \/ RecordFailure(w) \/ Fails(w) \/ CheckDrive(w) \/ Verify(w)
    PROVE  IdInv'
<1> USE DEF columns, queueVars, workVars, readVars, driveVars, googleVars, historyVars, vars,
   At,
        Goto, Labels, InTransfer, Statements, Calls, Recording
<1>1. CASE Begin(w)
  <2>1. CASE status[doing[w]] = "complete"
    BY <1>1, <2>1, IdMove DEF Begin, Reading, Sending
  <2>2. CASE status[doing[w]] # "complete"
    <3> DEFINE a == doing[w]
               read == [fileId |-> fileId[a], checksum |-> a \in checksum,
                        url |-> IF a \in url THEN "current" ELSE "none"]
    <3>1. /\ pc' = [pc EXCEPT ![w] = "checking"] /\ lock' = [lock EXCEPT ![a] = w]
          /\ row' = [row EXCEPT ![w] = read] /\ UNCHANGED <<fileId, files, doing>>
          /\ lock[a] = Nobody /\ a \in Attachments
          /\ read.fileId = fileId[a]
      BY <1>1, <2>2 DEF Begin, Typed, WorkersTyped
    <3> HIDE DEF read
    <3> QED
      BY <3>1, ArchiveAssumption DEF Typed, WorkersTyped, ReadTyped, IdInv, Connected,
         Reading, Sending
  <2> QED
    BY <2>1, <2>2
<1>2. CASE FindFolder(w)
  <2>1. PICK l \in {"naming", "folderMade", "folderMissing", "failing"} :
            pc' = [pc EXCEPT ![w] = l]
    BY <1>2 DEF FindFolder, Raise
  <2> QED
    BY <1>2, <2>1, IdMove DEF FindFolder, Call, Reading, Sending
<1>3. CASE NameFile(w)
  <2> DEFINE a == doing[w]
  <2>0. pc[w] \in Reading /\ Connected(w) /\ row[w].fileId = fileId[a] /\ a \in Attachments
        /\ fileId[a] \in {0, 1}
    BY <1>3 DEF NameFile, Statement, Reading, IdInv, Typed, WorkersTyped, Connected,
       ColumnsTyped
  <2>1. CASE row[w].fileId = 0
    <3>1. FreshId(a) = 1
      BY <2>0, <2>1, NewId DEF IdInv
    <3>2. /\ fileId' = [fileId EXCEPT ![a] = 1]
          /\ row' = [row EXCEPT ![w].fileId = 1]
          /\ pc' = [pc EXCEPT ![w] = "downloading"]
          /\ UNCHANGED <<files, lock, doing>>
      BY <1>3, <2>1, <3>1 DEF NameFile, Statement
    <3>3. row'[w].fileId = 1 /\ \A v \in Workers : v # w => row'[v] = row[v]
      BY <3>2 DEF Typed, ReadTyped, Records
    <3> QED
      BY <2>0, <2>1, <3>2, <3>3 DEF Typed, WorkersTyped, ColumnsTyped, IdInv, Connected,
         Reading, Sending
  <2>2. CASE row[w].fileId # 0
    BY <1>3, <2>0, <2>2, IdMove DEF NameFile, Statement, Reading, Sending
  <2> QED
    BY <2>1, <2>2
<1>4. CASE Inspect(w)
  <2>1. PICK l \in {"finishing", "downloading", "failing"} : pc' = [pc EXCEPT ![w] = l]
    BY <1>4 DEF Inspect, Raise
  <2>2. row[w].fileId = 1 /\ fileId[doing[w]] = 1 /\ l \notin Reading
    BY <1>4, <2>1 DEF Inspect, Call, IdInv, Sending, Reading
  <2> QED
    BY <1>4, <2>1, <2>2, IdMove DEF Inspect, Call
<1>5. CASE Upload(w)
  <2>1. PICK l \in {"verifying", "forgetting"} : pc' = [pc EXCEPT ![w] = l]
    BY <1>5 DEF Upload
  <2>2. row[w].fileId = 1 /\ fileId[doing[w]] = 1 /\ l \notin Reading
    BY <1>5, <2>1 DEF Upload, Call, IdInv, Sending, Reading
  <2>3. UNCHANGED <<fileId, lock, row, doing>>
    BY <1>5 DEF Upload, Call
  <2>4. \A a \in Attachments : files'[a] = files[a] \/ a = doing[w]
    BY <1>5 DEF Upload, Typed, GoogleTyped
  <2> QED
    BY <2>1, <2>2, <2>3, <2>4 DEF Typed, WorkersTyped, IdInv, Connected, Reading, Sending
<1>6. CASE RecordFailure(w)
  <2>1. PICK l \in {"attention", "raised", "returned"} : pc' = [pc EXCEPT ![w] = l]
    BY <1>6 DEF RecordFailure
  <2>2. UNCHANGED <<fileId, files, row, doing>>
    BY <1>6 DEF RecordFailure, Statement
  <2>3. \A v \in Workers : v # w => pc'[v] = pc[v] /\ (Connected(v)' => Connected(v))
    <3>1. lock' = lock \/ lock' = [lock EXCEPT ![doing[w]] = Nobody]
      BY <1>6 DEF RecordFailure, Unlock
    <3>2. \A a \in Attachments : lock'[a] = lock[a] \/ lock'[a] = Nobody
      BY <3>1 DEF Typed, WorkersTyped
    <3> QED
      BY <2>1, <2>2, <3>2, ArchiveAssumption DEF Connected, Typed, WorkersTyped
  <2> QED
    BY <2>1, <2>2, <2>3 DEF Typed, WorkersTyped, IdInv, Reading, Sending
<1>7. CASE Fails(w)
  <2>1. pc' = [pc EXCEPT ![w] = "failing"] /\ UNCHANGED <<fileId, files, lock, row, doing>>
    BY <1>7, Zenon DEF Fails, Raise
  <2> QED
    BY <2>1, IdMove DEF Reading, Sending
<1>8. CASE CheckDrive(w)
  <2>1. PICK l \in {"opening", "failing"} : pc' = [pc EXCEPT ![w] = l]
    BY <1>8 DEF CheckDrive, Raise
  <2> QED
    BY <1>8, <2>1, IdMove DEF CheckDrive, Statement, Reading, Sending
<1>9. CASE Verify(w)
  <2>1. PICK l \in {"finishing", "failing"} : pc' = [pc EXCEPT ![w] = l]
    BY <1>9 DEF Verify, Raise
  <2>2. row[w].fileId = 1 /\ fileId[doing[w]] = 1 /\ l \notin Reading
    BY <1>9, <2>1 DEF Verify, Call, IdInv, Sending, Reading
  <2> QED
    BY <1>9, <2>1, <2>2, IdMove DEF Verify, Call
<1> QED
  BY <1>1, <1>2, <1>3, <1>4, <1>5, <1>6, <1>7, <1>8, <1>9

\* A file's id is stored before it is used, and stays.
LEMMA IdStep == Typed /\ IdInv /\ Typed' /\ [Next]_vars => IdInv'
<1> SUFFICES ASSUME Typed, IdInv, Typed', [Next]_vars PROVE IdInv'
  OBVIOUS
<1> USE ArchiveAssumption DEF Typed, columns, queueVars, workVars, readVars, driveVars,
        googleVars, historyVars, vars, At, Goto
<1> USE DEF IdInv, ColumnsTyped, WorkersTyped, ReadTyped, GoogleTyped, Connected, Reading,
   Sending, Labels, Records
<1>1. CASE Drive
  BY <1>1, DriveKeeps
<1>2. ASSUME NEW a \in Attachments, Import(a) PROVE IdInv'
  BY <1>2, SMTT(90) DEF Import, FreshRow, Job, NoJob
<1>3. ASSUME NEW a \in Attachments, Replay(a) PROVE IdInv'
  BY <1>3, SMTT(90) DEF Replay, FreshRow, LiveJobs, Job, NoJob
<1>4. ASSUME NEW a \in Attachments, Bin(a) PROVE IdInv'
  BY <1>4, SMTT(90) DEF Bin
<1>5. ASSUME NEW a \in Attachments, Expire(a) PROVE IdInv'
  BY <1>5, SMTT(90) DEF Expire
<1>6. ASSUME NEW r \in Rows, Requeue(r) PROVE IdInv'
  BY <1>6, SMTT(90) DEF Requeue, Job, NoJob
<1>7. ASSUME NEW w \in Workers, NEW r \in Rows, Claim(w, r) PROVE IdInv'
  BY <1>7, SMTT(90) DEF Claim, Start, Job, NoJob
<1>8. ASSUME NEW w \in Workers, NEW r \in Rows, Recover(w, r) PROVE IdInv'
  BY <1>8, SMTT(90) DEF Recover, Start, Executing, Job, NoJob
<1>9. ASSUME NEW w \in Workers, Begin(w) PROVE IdInv'
  BY <1>9, IdSteps
<1>10. ASSUME NEW w \in Workers, CheckDrive(w) PROVE IdInv'
  BY <1>10, IdSteps
<1>11. ASSUME NEW w \in Workers, Open(w) PROVE IdInv'
  BY <1>11, SMTT(90) DEF Open, Raise
<1>12. ASSUME NEW w \in Workers, MarkTransferring(w) PROVE IdInv'
  BY <1>12, SMTT(90) DEF MarkTransferring, Statement
<1>13. ASSUME NEW w \in Workers, ReadChat(w) PROVE IdInv'
  BY <1>13, SMTT(90) DEF ReadChat, Statement
<1>14. ASSUME NEW w \in Workers, FindFolder(w) PROVE IdInv'
  BY <1>14, IdSteps
<1>15. ASSUME NEW w \in Workers, MakeFolder(w) PROVE IdInv'
  BY <1>15, SMTT(90) DEF MakeFolder, Call, Raise
<1>16. ASSUME NEW w \in Workers, MarkFolders(w) PROVE IdInv'
  BY <1>16, SMTT(90) DEF MarkFolders, Statement
<1>17. ASSUME NEW w \in Workers, NameFile(w) PROVE IdInv'
  BY <1>17, IdSteps
<1>18. ASSUME NEW w \in Workers, Inspect(w) PROVE IdInv'
  BY <1>18, IdSteps
<1>19. ASSUME NEW w \in Workers, Download(w) PROVE IdInv'
  BY <1>19, SMTT(90) DEF Download
<1>20. ASSUME NEW w \in Workers, StoreChecksum(w) PROVE IdInv'
  BY <1>20, SMTT(90) DEF StoreChecksum, Statement
<1>21. ASSUME NEW w \in Workers, RecheckDrive(w) PROVE IdInv'
  BY <1>21, SMTT(90) DEF RecheckDrive, Statement, Raise
<1>22. ASSUME NEW w \in Workers, BeginUpload(w) PROVE IdInv'
  BY <1>22, SMTT(90) DEF BeginUpload, Call, Raise
<1>23. ASSUME NEW w \in Workers, StoreUrl(w) PROVE IdInv'
  BY <1>23, SMTT(90) DEF StoreUrl
<1>24. ASSUME NEW w \in Workers, Upload(w) PROVE IdInv'
  BY <1>24, IdSteps
<1>25. ASSUME NEW w \in Workers, ForgetUrl(w) PROVE IdInv'
  BY <1>25, SMTT(90) DEF ForgetUrl, Statement, Raise
<1>26. ASSUME NEW w \in Workers, Verify(w) PROVE IdInv'
  BY <1>26, IdSteps
<1>27. ASSUME NEW w \in Workers, MarkComplete(w) PROVE IdInv'
  BY <1>27, SMTT(90) DEF MarkComplete, Statement, Unlock
<1>28. ASSUME NEW w \in Workers, RecordFailure(w) PROVE IdInv'
  BY <1>28, IdSteps
<1>29. ASSUME NEW w \in Workers, MarkAttention(w) PROVE IdInv'
  BY <1>29, SMTT(90) DEF MarkAttention, Unlock
<1>30. ASSUME NEW w \in Workers, Denied(w) PROVE IdInv'
  BY <1>30, SMTT(90) DEF Denied, Raise, Calls
<1>31. ASSUME NEW w \in Workers, Disconnected(w) PROVE IdInv'
  BY <1>31, SMTT(90) DEF Disconnected, Statements, Recording
<1>32. ASSUME NEW w \in Workers, ReportSuccess(w) PROVE IdInv'
  BY <1>32, SMTT(90) DEF ReportSuccess, Leave, Job, NoJob, NoRecord
<1>33. ASSUME NEW w \in Workers, ReportFailure(w) PROVE IdInv'
  BY <1>33, SMTT(90) DEF ReportFailure, Leave, Job, NoJob, NoRecord
<1>34. ASSUME NEW w \in Workers, Fails(w) PROVE IdInv'
  BY <1>34, IdSteps
<1>35. ASSUME NEW w \in Workers, LoseLock(w) PROVE IdInv'
  BY <1>35, SMTT(90) DEF LoseLock, Unlock, InTransfer, Statements, Calls, Recording
<1>36. ASSUME NEW w \in Workers, Crash(w) PROVE IdInv'
  BY <1>36, SMTT(90) DEF Crash, Leave, Unlock, NoRecord
<1>37. CASE UNCHANGED vars
  BY <1>37
<1> QED
  BY <1>1, <1>2, <1>3, <1>4, <1>5, <1>6, <1>7, <1>8, <1>9, <1>10, <1>11, <1>12, <1>13, <1>14,
     <1>15, <1>16, <1>17, <1>18, <1>19, <1>20, <1>21, <1>22, <1>23, <1>24, <1>25, <1>26, <1>27,
     <1>28, <1>29, <1>30, <1>31, <1>32, <1>33, <1>34, <1>35, <1>36, <1>37 DEF Next, Transfer,
     LiveJobs

\* A step that only moves w on.
LEMMA UrlMove ==
    ASSUME Typed, UrlInv, NEW w \in Workers, NEW l \in Labels, pc' = [pc EXCEPT ![w] = l],
           UNCHANGED <<url, lock, row, doing, files, content, session>>,
           l \in Reading \union Sending => pc[w] \in Reading \union Sending,
           l \in {"beginning", "storingUrl"} /\ Connected(w) => row[w].url = "none",
           l = "storingUrl" => files[doing[w]] = {},
           l # "forgetting"
    PROVE  UrlInv'
<1>1. SessionInv'
  BY DEF UrlInv, SessionInv
<1>2. ASSUME NEW v \in Workers, pc'[v] \in Reading \union Sending, Connected(v)'
      PROVE  KnowsUrl(v)'
  <2>1. CASE v = w
    <3>1. pc'[v] = l /\ Connected(v) /\ KnowsUrl(v)
      BY <1>2, <2>1 DEF Typed, WorkersTyped, Connected, UrlInv, Reading, Sending
    <3> QED
      BY <2>1, <3>1 DEF KnowsUrl
  <2>2. CASE v # w
    <3>1. pc'[v] = pc[v] /\ Connected(v) /\ KnowsUrl(v)
      BY <1>2, <2>2 DEF Typed, WorkersTyped, Connected, UrlInv
    <3> QED
      BY <3>1 DEF KnowsUrl
  <2> QED
    BY <2>1, <2>2
<1> QED
  BY <1>1, <1>2 DEF UrlInv

\* Steps that change no column, no row that was read and nothing at Google.
LEMMA UrlReads ==
    ASSUME Typed, IdInv, UrlInv, Typed', NEW w \in Workers,
           CheckDrive(w) \/ Open(w) \/ FindFolder(w) \/ MakeFolder(w) \/ Inspect(w)
             \/ RecheckDrive(w) \/ BeginUpload(w) \/ Verify(w) \/ Fails(w)
    PROVE UrlInv'
<1> USE DEF columns, queueVars, workVars, readVars, driveVars,
        googleVars, historyVars, vars, At, Goto
<1>1. UNCHANGED <<url, lock, row, doing, files, content, session>>
  BY Zenon DEF CheckDrive, Open, FindFolder, MakeFolder, Inspect, RecheckDrive, BeginUpload,
     Verify,
         Fails, Statement, Call
<1>2. CASE CheckDrive(w)
  <2>1. PICK l \in {"opening", "failing"} : pc' = [pc EXCEPT ![w] = l]
    BY <1>2 DEF CheckDrive, Raise
  <2> QED
    BY <1>1, <1>2, <2>1, UrlMove DEF CheckDrive, Statement, Reading, Sending, Labels,
       InTransfer, Statements, Calls, Recording
<1>3. CASE Open(w)
  <2>1. PICK l \in {"marking", "failing"} : pc' = [pc EXCEPT ![w] = l]
    BY <1>3 DEF Open, Raise
  <2> QED
    BY <1>1, <1>3, <2>1, UrlMove DEF Open, Reading, Sending, Labels, InTransfer, Statements,
       Calls, Recording
<1>4. CASE FindFolder(w)
  <2>1. PICK l \in {"naming", "folderMade", "folderMissing", "failing"} : pc' = [pc EXCEPT ![w] = l]
    BY <1>4 DEF FindFolder, Raise
  <2> QED
    BY <1>1, <1>4, <2>1, UrlMove DEF FindFolder, Call, Reading, Sending, Labels, InTransfer,
       Statements, Calls, Recording
<1>5. CASE MakeFolder(w)
  <2>1. PICK l \in {"folderMade", "failing"} : pc' = [pc EXCEPT ![w] = l]
    BY <1>5 DEF MakeFolder, Raise
  <2> QED
    BY <1>1, <1>5, <2>1, UrlMove DEF MakeFolder, Call, Reading, Sending, Labels, InTransfer,
       Statements, Calls, Recording
<1>6. CASE Inspect(w)
  <2>1. PICK l \in {"finishing", "downloading", "failing"} : pc' = [pc EXCEPT ![w] = l]
    BY <1>6 DEF Inspect, Raise
  <2> QED
    BY <1>1, <1>6, <2>1, UrlMove DEF Inspect, Call, Reading, Sending, Labels, InTransfer,
       Statements, Calls, Recording
<1>7. CASE RecheckDrive(w)
  <2>1. PICK l \in {"beginning", "uploading", "failing"} :
            pc' = [pc EXCEPT ![w] = l] /\ (l = "beginning" => row[w].url = "none")
    BY <1>7 DEF RecheckDrive, Raise
  <2> QED
    BY <1>1, <1>7, <2>1, UrlMove DEF RecheckDrive, Statement, Reading, Sending, Labels,
       InTransfer, Statements, Calls, Recording
<1>8. CASE BeginUpload(w)
  <2>1. PICK l \in {"storingUrl", "failing"} :
            pc' = [pc EXCEPT ![w] = l] /\ (l = "storingUrl" => row[w].fileId \notin files[doing[w]])
    BY <1>8 DEF BeginUpload, Raise
  <2>2. pc[w] = "beginning" /\ row[w].fileId = 1 /\ files[doing[w]] \subseteq {1}
    BY <1>8 DEF BeginUpload, Call, IdInv, Sending, Typed, WorkersTyped, GoogleTyped
  <2>3. l = "storingUrl" => files[doing[w]] = {}
    BY <2>1, <2>2
  <2>4. l = "storingUrl" /\ Connected(w) => row[w].url = "none"
    BY <2>2 DEF UrlInv, KnowsUrl, Sending
  <2> QED
    BY <1>1, <2>1, <2>2, <2>3, <2>4, UrlMove DEF Reading, Sending, Labels, InTransfer,
       Statements, Calls, Recording
<1>9. CASE Verify(w)
  <2>1. PICK l \in {"finishing", "failing"} : pc' = [pc EXCEPT ![w] = l]
    BY <1>9 DEF Verify, Raise
  <2> QED
    BY <1>1, <1>9, <2>1, UrlMove DEF Verify, Call, Reading, Sending, Labels, InTransfer,
       Statements, Calls, Recording
<1>10. CASE Fails(w)
  <2>1. pc' = [pc EXCEPT ![w] = "failing"]
    BY <1>10, Zenon DEF Fails, Raise
  <2> QED
    BY <1>1, <2>1, UrlMove DEF Reading, Sending, Labels, InTransfer, Statements, Calls,
       Recording
<1> QED
  BY <1>2, <1>3, <1>4, <1>5, <1>6, <1>7, <1>8, <1>9, <1>10

\* Steps that read or change the URL, the session or the file.
LEMMA UrlWrites ==
    ASSUME Typed, IdInv, UrlInv, IntactInv, Typed', NEW w \in Workers,
           \/ Begin(w) \/ NameFile(w) \/ StoreUrl(w) \/ Upload(w) \/ MarkComplete(w)
           \/ RecordFailure(w) \/ ForgetUrl(w)
    PROVE  UrlInv'
<1> USE DEF columns, queueVars, workVars, readVars, driveVars,
        googleVars, historyVars, vars, At, Goto
<1> DEFINE a == doing[w]
<1>1. CASE Begin(w)
  <2>1. CASE status[a] = "complete"
    BY <1>1, <2>1, UrlMove DEF Begin, Reading, Sending, Labels, InTransfer, Statements, Calls,
       Recording
  <2>2. CASE status[a] # "complete"
    <3> DEFINE read == [fileId |-> fileId[a], checksum |-> a \in checksum,
                        url |-> IF a \in url THEN "current" ELSE "none"]
    <3>1. /\ pc' = [pc EXCEPT ![w] = "checking"] /\ lock' = [lock EXCEPT ![a] = w]
          /\ row' = [row EXCEPT ![w] = read]
          /\ UNCHANGED <<url, doing, files, content, session>>
          /\ lock[a] = Nobody /\ a \in Attachments
          /\ read.url = IF a \in url THEN "current" ELSE "none"
      BY <1>1, <2>2 DEF Begin, Typed, WorkersTyped
    <3> HIDE DEF read
    <3>2. SessionInv'
      BY <3>1 DEF UrlInv, SessionInv
    <3>3. ASSUME NEW v \in Workers, pc'[v] \in Reading \union Sending, Connected(v)'
          PROVE  KnowsUrl(v)'
      <4>1. CASE v = w
        BY <3>1, <4>1 DEF Typed, WorkersTyped, ReadTyped, KnowsUrl
      <4>2. CASE v # w
        <5>1. pc'[v] = pc[v] /\ row'[v] = row[v] /\ Connected(v)
          BY <3>1, <3>3, <4>2, ArchiveAssumption DEF Typed, WorkersTyped, ReadTyped, Connected
        <5> QED
          BY <3>1, <3>3, <5>1 DEF UrlInv, KnowsUrl
      <4> QED
        BY <4>1, <4>2
    <3> QED
      BY <3>2, <3>3 DEF UrlInv
  <2> QED
    BY <2>1, <2>2
<1>2. CASE NameFile(w)
  <2>1. UNCHANGED <<url, lock, doing, files, content, session>> /\ pc[w] = "naming"
    BY <1>2 DEF NameFile, Statement
  <2>2. PICK l \in {"downloading", "inspecting"} : pc' = [pc EXCEPT ![w] = l]
    BY <1>2 DEF NameFile
  <2>3. \A v \in Workers : row'[v].url = row[v].url
    <3>1. row' = row \/ row' = [row EXCEPT ![w].fileId = FreshId(a)]
      BY <1>2 DEF NameFile
    <3> QED
      BY <3>1 DEF Typed, ReadTyped, Records
  <2>4. SessionInv'
    BY <2>1 DEF UrlInv, SessionInv
  <2>5. ASSUME NEW v \in Workers, pc'[v] \in Reading \union Sending, Connected(v)'
        PROVE  KnowsUrl(v)'
    <3>1. pc[v] \in Reading \union Sending /\ Connected(v) /\ KnowsUrl(v)
          /\ (pc'[v] = pc[v] \/ pc'[v] \in {"downloading", "inspecting"})
      BY <2>1, <2>2, <2>5 DEF Typed, WorkersTyped, Connected, UrlInv, Reading
    <3> QED
      BY <2>1, <2>3, <3>1 DEF KnowsUrl
  <2> QED
    BY <2>4, <2>5 DEF UrlInv
<1>3. CASE StoreUrl(w)
  <2>1. /\ pc[w] = "storingUrl" /\ Connected(w) /\ a \in Attachments
        /\ url' = url \union {a} /\ session' = [session EXCEPT ![a] = "open"]
        /\ pc' = [pc EXCEPT ![w] = "uploading"]
        /\ UNCHANGED <<lock, doing, files, content>>
    BY <1>3 DEF StoreUrl, Typed, WorkersTyped
  <2>2. KnowsUrl(w)
    BY <2>1 DEF UrlInv, Sending
  <2>3. row'[w].url = "current" /\ \A v \in Workers : v # w /\ doing[v] # a => row'[v] = row[v]
    BY <1>3 DEF StoreUrl, Typed, ReadTyped, Records
  <2>4. SessionInv'
    BY <2>1, <2>2 DEF UrlInv, SessionInv, KnowsUrl, Typed, GoogleTyped
  <2>5. ASSUME NEW v \in Workers, pc'[v] \in Reading \union Sending, Connected(v)'
        PROVE  KnowsUrl(v)'
    <3>1. CASE v = w
      BY <2>1, <2>3, <3>1 DEF KnowsUrl, Typed, WorkersTyped
    <3>2. CASE v # w
      <4>1. pc'[v] = pc[v] /\ Connected(v) /\ doing[v] # a
        BY <2>1, <2>5, <3>2 DEF Typed, WorkersTyped, Connected
      <4>2. KnowsUrl(v) /\ row'[v] = row[v] /\ doing[v] \in Attachments
        BY <2>3, <2>5, <3>2, <4>1 DEF UrlInv, Typed, WorkersTyped, Reading, Sending
      <4> QED
        BY <2>1, <4>1, <4>2 DEF KnowsUrl, Typed, GoogleTyped
    <3> QED
      BY <3>1, <3>2
  <2> QED
    BY <2>4, <2>5 DEF UrlInv
<1>4. CASE Upload(w)
  <2>0. pc[w] = "uploading" /\ a \in Attachments /\ row[w].fileId = 1
        /\ UNCHANGED <<url, lock, row, doing>>
    BY <1>4 DEF Upload, Call, Typed, WorkersTyped, IdInv, Sending
  <2>1. CASE row[w].url = "current" /\ session[a] = "open"
    <3>1. /\ files' = [files EXCEPT ![a] = @ \union {1}]
          /\ session' = [session EXCEPT ![a] = "received"]
          /\ pc' = [pc EXCEPT ![w] = "verifying"]
          /\ content' = [content EXCEPT ![a] = "good"] \/ content' = [content EXCEPT ![a] = "bad"]
      BY <1>4, <2>0, <2>1 DEF Upload
    <3>2. content'[a] # "none" /\ files'[a] # {} /\ session'[a] = "received" /\ a \in url
          /\ \A b \in Attachments : b # a => /\ content'[b] = content[b] /\ files'[b] = files[b]
                                             /\ session'[b] = session[b]
      <4>1. a \in url
        BY <2>0, <2>1 DEF UrlInv, SessionInv
      <4>2. files'[a] = files[a] \union {1} /\ session'[a] = "received"
            /\ content'[a] \in {"good", "bad"}
        BY <2>0, <3>1 DEF Typed, GoogleTyped
      <4>3. \A b \in Attachments : b # a => /\ content'[b] = content[b] /\ files'[b] = files[b]
                                             /\ session'[b] = session[b]
        BY <3>1 DEF Typed, GoogleTyped
      <4> QED
        BY <4>1, <4>2, <4>3
    <3>3. SessionInv'
      BY <2>0, <3>2 DEF UrlInv, SessionInv
    <3>4. ASSUME NEW v \in Workers, pc'[v] \in Reading \union Sending, Connected(v)'
          PROVE  KnowsUrl(v)'
      <4>1. Connected(v) /\ pc[v] \in Reading \union Sending
            /\ (pc'[v] = pc[v] \/ pc'[v] = "verifying")
        BY <2>0, <3>1, <3>4 DEF Typed, WorkersTyped, Connected, Sending
      <4>2. KnowsUrl(v) /\ doing[v] \in Attachments
        BY <4>1 DEF UrlInv, Typed, WorkersTyped, Reading, Sending
      <4>3. CASE doing[v] = a
        <5>1. row[v].url # "none" /\ pc[v] \notin {"storingUrl", "forgetting", "beginning"}
          BY <2>1, <3>2, <4>2, <4>3 DEF KnowsUrl
        <5> QED
          BY <2>0, <4>1, <4>2, <5>1 DEF KnowsUrl
      <4>4. CASE doing[v] # a
        BY <2>0, <3>2, <4>1, <4>2, <4>4 DEF KnowsUrl
      <4> QED
        BY <4>3, <4>4
    <3> QED
      BY <3>3, <3>4 DEF UrlInv
  <2>2. CASE row[w].url = "current" /\ session[a] = "received" /\ UNCHANGED session
    <3>1. UNCHANGED <<files, content, session>> /\ pc' = [pc EXCEPT ![w] = "verifying"]
      BY <1>4, <2>2 DEF Upload
    <3> QED
      BY <2>0, <3>1, UrlMove DEF Reading, Sending, Labels, InTransfer, Statements, Calls,
         Recording
  <2>3. CASE (row[w].url = "old" \/ session[a] = "expired")
    <3>1. UNCHANGED <<files, content, session>> /\ pc' = [pc EXCEPT ![w] = "forgetting"]
      BY <1>4, <2>3 DEF Upload
    <3>2. SessionInv'
      BY <2>0, <3>1 DEF UrlInv, SessionInv
    <3>3. ASSUME NEW v \in Workers, pc'[v] \in Reading \union Sending, Connected(v)'
          PROVE  KnowsUrl(v)'
      <4>1. Connected(v) /\ pc[v] \in Reading \union Sending
            /\ (pc'[v] = pc[v] \/ (v = w /\ pc'[v] = "forgetting"))
        BY <2>0, <3>1, <3>3 DEF Typed, WorkersTyped, Connected, Sending
      <4>2. KnowsUrl(v)
        BY <4>1 DEF UrlInv
      <4> QED
        BY <2>0, <2>3, <3>1, <4>1, <4>2 DEF KnowsUrl
    <3> QED
      BY <3>2, <3>3 DEF UrlInv
  <2> QED
    BY <1>4, <2>1, <2>2, <2>3 DEF Upload
<1>5. CASE MarkComplete(w)
  <2>1. /\ pc[w] = "finishing" /\ Connected(w) /\ a \in Attachments
        /\ url' = url \ {a} /\ lock' = [lock EXCEPT ![a] = Nobody]
        /\ pc' = [pc EXCEPT ![w] = "returned"]
        /\ UNCHANGED <<doing, row, files, content, session>>
    BY <1>5 DEF MarkComplete, Statement, Unlock, Typed, WorkersTyped
  <2>2. content[a] = "good"
    BY <2>1 DEF IntactInv
  <2>3. SessionInv'
    BY <2>1, <2>2 DEF UrlInv, SessionInv
  <2>4. ASSUME NEW v \in Workers, pc'[v] \in Reading \union Sending, Connected(v)'
        PROVE  KnowsUrl(v)'
    <3>1. pc'[v] = pc[v] /\ Connected(v) /\ doing[v] # a
      BY <2>1, <2>4, ArchiveAssumption DEF Typed, WorkersTyped, Connected, Reading, Sending
    <3>2. KnowsUrl(v)
      BY <2>4, <3>1 DEF UrlInv
    <3> QED
      BY <2>1, <3>1, <3>2 DEF KnowsUrl
  <2> QED
    BY <2>3, <2>4 DEF UrlInv
<1>6. CASE RecordFailure(w)
  <2>1. UNCHANGED <<url, doing, row, files, content, session>>
    BY <1>6 DEF RecordFailure, Statement
  <2>2. PICK l \in {"attention", "raised", "returned"} : pc' = [pc EXCEPT ![w] = l]
    BY <1>6 DEF RecordFailure
  <2>3. \A b \in Attachments : lock'[b] = lock[b] \/ lock'[b] = Nobody
    <3>1. lock' = lock \/ lock' = [lock EXCEPT ![a] = Nobody]
      BY <1>6 DEF RecordFailure, Unlock
    <3> QED
      BY <3>1 DEF Typed, WorkersTyped
  <2>4. SessionInv'
    BY <2>1 DEF UrlInv, SessionInv
  <2>5. ASSUME NEW v \in Workers, pc'[v] \in Reading \union Sending, Connected(v)'
        PROVE  KnowsUrl(v)'
    <3>1. pc'[v] = pc[v] /\ Connected(v)
      BY <2>1, <2>2, <2>3, <2>5, ArchiveAssumption DEF Typed, WorkersTyped, Connected,
         Reading, Sending
    <3>2. KnowsUrl(v)
      BY <2>5, <3>1 DEF UrlInv
    <3> QED
      BY <2>1, <3>1, <3>2 DEF KnowsUrl
  <2> QED
    BY <2>4, <2>5 DEF UrlInv
<1>7. CASE ForgetUrl(w)
  <2>1. /\ pc[w] = "forgetting" /\ Connected(w) /\ a \in Attachments
        /\ url' = url \ {a} /\ pc' = [pc EXCEPT ![w] = "failing"]
        /\ UNCHANGED <<lock, doing, row, files, content, session>>
    BY <1>7 DEF ForgetUrl, Statement, Raise, Typed, WorkersTyped
  <2>2. session[a] = "expired"
    BY <2>1 DEF UrlInv, KnowsUrl, Sending
  <2>3. SessionInv'
    BY <2>1, <2>2 DEF UrlInv, SessionInv
  <2>4. ASSUME NEW v \in Workers, pc'[v] \in Reading \union Sending, Connected(v)'
        PROVE  KnowsUrl(v)'
    <3>1. pc'[v] = pc[v] /\ Connected(v) /\ doing[v] # a
      BY <2>1, <2>4 DEF Typed, WorkersTyped, Connected, Reading, Sending
    <3>2. KnowsUrl(v)
      BY <2>4, <3>1 DEF UrlInv
    <3> QED
      BY <2>1, <3>1, <3>2 DEF KnowsUrl
  <2> QED
    BY <2>3, <2>4 DEF UrlInv
<1> QED
  BY <1>1, <1>2, <1>3, <1>4, <1>5, <1>6, <1>7

\* The lock's holder knows the URL; an open session has received nothing.
LEMMA UrlStep == Typed /\ IdInv /\ UrlInv /\ IntactInv /\ Typed' /\ [Next]_vars => UrlInv'
<1> SUFFICES ASSUME Typed, IdInv, UrlInv, IntactInv, Typed', [Next]_vars PROVE UrlInv'
  OBVIOUS
<1> USE ArchiveAssumption DEF Typed, columns, queueVars, workVars, readVars, driveVars,
        googleVars, historyVars, vars, At, Goto
<1> USE DEF UrlInv, SessionInv, KnowsUrl, ColumnsTyped, WorkersTyped, ReadTyped, GoogleTyped,
   Connected, Reading, Sending, Labels, Records, IdInv
<1>1. CASE Drive
  BY <1>1, DriveKeeps
<1>2. ASSUME NEW a \in Attachments, Import(a) PROVE UrlInv'
  BY <1>2, SMTT(90) DEF Import, FreshRow, Job, NoJob
<1>3. ASSUME NEW a \in Attachments, Replay(a) PROVE UrlInv'
  BY <1>3, SMTT(90) DEF Replay, FreshRow, LiveJobs, Job, NoJob
<1>4. ASSUME NEW a \in Attachments, Bin(a) PROVE UrlInv'
  BY <1>4, SMTT(90) DEF Bin
<1>5. ASSUME NEW a \in Attachments, Expire(a) PROVE UrlInv'
  BY <1>5, SMTT(90) DEF Expire
<1>6. ASSUME NEW r \in Rows, Requeue(r) PROVE UrlInv'
  BY <1>6, SMTT(90) DEF Requeue, Job, NoJob
<1>7. ASSUME NEW w \in Workers, NEW r \in Rows, Claim(w, r) PROVE UrlInv'
  BY <1>7, SMTT(90) DEF Claim, Start, Job, NoJob
<1>8. ASSUME NEW w \in Workers, NEW r \in Rows, Recover(w, r) PROVE UrlInv'
  BY <1>8, SMTT(90) DEF Recover, Start, Executing, Job, NoJob
<1>9. ASSUME NEW w \in Workers, Begin(w) PROVE UrlInv'
  BY <1>9, UrlWrites
<1>10. ASSUME NEW w \in Workers, CheckDrive(w) PROVE UrlInv'
  BY <1>10, UrlReads
<1>11. ASSUME NEW w \in Workers, Open(w) PROVE UrlInv'
  BY <1>11, UrlReads
<1>12. ASSUME NEW w \in Workers, MarkTransferring(w) PROVE UrlInv'
  BY <1>12, SMTT(90) DEF MarkTransferring, Statement
<1>13. ASSUME NEW w \in Workers, ReadChat(w) PROVE UrlInv'
  BY <1>13, SMTT(90) DEF ReadChat, Statement
<1>14. ASSUME NEW w \in Workers, FindFolder(w) PROVE UrlInv'
  BY <1>14, UrlReads
<1>15. ASSUME NEW w \in Workers, MakeFolder(w) PROVE UrlInv'
  BY <1>15, UrlReads
<1>16. ASSUME NEW w \in Workers, MarkFolders(w) PROVE UrlInv'
  BY <1>16, SMTT(90) DEF MarkFolders, Statement
<1>17. ASSUME NEW w \in Workers, NameFile(w) PROVE UrlInv'
  BY <1>17, UrlWrites
<1>18. ASSUME NEW w \in Workers, Inspect(w) PROVE UrlInv'
  BY <1>18, UrlReads
<1>19. ASSUME NEW w \in Workers, Download(w) PROVE UrlInv'
  BY <1>19, SMTT(90) DEF Download
<1>20. ASSUME NEW w \in Workers, StoreChecksum(w) PROVE UrlInv'
  BY <1>20, SMTT(90) DEF StoreChecksum, Statement
<1>21. ASSUME NEW w \in Workers, RecheckDrive(w) PROVE UrlInv'
  BY <1>21, UrlReads
<1>22. ASSUME NEW w \in Workers, BeginUpload(w) PROVE UrlInv'
  BY <1>22, UrlReads
<1>23. ASSUME NEW w \in Workers, StoreUrl(w) PROVE UrlInv'
  BY <1>23, UrlWrites
<1>24. ASSUME NEW w \in Workers, Upload(w) PROVE UrlInv'
  BY <1>24, UrlWrites
<1>25. ASSUME NEW w \in Workers, ForgetUrl(w) PROVE UrlInv'
  BY <1>25, UrlWrites
<1>26. ASSUME NEW w \in Workers, Verify(w) PROVE UrlInv'
  BY <1>26, UrlReads
<1>27. ASSUME NEW w \in Workers, MarkComplete(w) PROVE UrlInv'
  BY <1>27, UrlWrites
<1>28. ASSUME NEW w \in Workers, RecordFailure(w) PROVE UrlInv'
  BY <1>28, UrlWrites
<1>29. ASSUME NEW w \in Workers, MarkAttention(w) PROVE UrlInv'
  BY <1>29, SMTT(90) DEF MarkAttention, Unlock
<1>30. ASSUME NEW w \in Workers, Denied(w) PROVE UrlInv'
  BY <1>30, SMTT(90) DEF Denied, Raise, Calls
<1>31. ASSUME NEW w \in Workers, Disconnected(w) PROVE UrlInv'
  BY <1>31, SMTT(90) DEF Disconnected, Statements, Recording
<1>32. ASSUME NEW w \in Workers, ReportSuccess(w) PROVE UrlInv'
  BY <1>32, SMTT(90) DEF ReportSuccess, Leave, Job, NoJob, NoRecord
<1>33. ASSUME NEW w \in Workers, ReportFailure(w) PROVE UrlInv'
  BY <1>33, SMTT(90) DEF ReportFailure, Leave, Job, NoJob, NoRecord
<1>34. ASSUME NEW w \in Workers, Fails(w) PROVE UrlInv'
  BY <1>34, UrlReads
<1>35. ASSUME NEW w \in Workers, LoseLock(w) PROVE UrlInv'
  BY <1>35, SMTT(90) DEF LoseLock, Unlock, InTransfer, Statements, Calls, Recording
<1>36. ASSUME NEW w \in Workers, Crash(w) PROVE UrlInv'
  BY <1>36, SMTT(90) DEF Crash, Leave, Unlock, NoRecord
<1>37. CASE UNCHANGED vars
  BY <1>37
<1> QED
  BY <1>1, <1>2, <1>3, <1>4, <1>5, <1>6, <1>7, <1>8, <1>9, <1>10, <1>11, <1>12, <1>13, <1>14,
     <1>15, <1>16, <1>17, <1>18, <1>19, <1>20, <1>21, <1>22, <1>23, <1>24, <1>25, <1>26, <1>27,
     <1>28, <1>29, <1>30, <1>31, <1>32, <1>33, <1>34, <1>35, <1>36, <1>37 DEF Next, Transfer,
     LiveJobs

\* What is finished stays intact.
LEMMA IntactStep == Typed /\ UrlInv /\ IntactInv /\ Typed' /\ [Next]_vars => IntactInv'
<1> SUFFICES ASSUME Typed, UrlInv, IntactInv, Typed', [Next]_vars PROVE IntactInv'
  OBVIOUS
<1> USE ArchiveAssumption DEF Typed, columns, queueVars, workVars, readVars, driveVars,
        googleVars, historyVars, vars, At, Goto
<1> USE DEF UrlInv, SessionInv, KnowsUrl, IntactInv, ColumnsTyped, WorkersTyped, ReadTyped,
   GoogleTyped, Connected, Labels, Records
<1>1. CASE Drive
  BY <1>1, DriveKeeps
<1>2. ASSUME NEW a \in Attachments, Import(a) PROVE IntactInv'
  BY <1>2, SMTT(90) DEF Import, FreshRow, Job, NoJob
<1>3. ASSUME NEW a \in Attachments, Replay(a) PROVE IntactInv'
  BY <1>3, SMTT(90) DEF Replay, FreshRow, LiveJobs, Job, NoJob
<1>4. ASSUME NEW a \in Attachments, Bin(a) PROVE IntactInv'
  BY <1>4, SMTT(90) DEF Bin
<1>5. ASSUME NEW a \in Attachments, Expire(a) PROVE IntactInv'
  BY <1>5, SMTT(90) DEF Expire
<1>6. ASSUME NEW r \in Rows, Requeue(r) PROVE IntactInv'
  BY <1>6, SMTT(90) DEF Requeue, Job, NoJob
<1>7. ASSUME NEW w \in Workers, NEW r \in Rows, Claim(w, r) PROVE IntactInv'
  BY <1>7, SMTT(90) DEF Claim, Start, Job, NoJob
<1>8. ASSUME NEW w \in Workers, NEW r \in Rows, Recover(w, r) PROVE IntactInv'
  BY <1>8, SMTT(90) DEF Recover, Start, Executing, Job, NoJob
<1>9. ASSUME NEW w \in Workers, Begin(w) PROVE IntactInv'
  BY <1>9, SMTT(90) DEF Begin
<1>10. ASSUME NEW w \in Workers, CheckDrive(w) PROVE IntactInv'
  BY <1>10, SMTT(90) DEF CheckDrive, Statement, Raise
<1>11. ASSUME NEW w \in Workers, Open(w) PROVE IntactInv'
  BY <1>11, SMTT(90) DEF Open, Raise
<1>12. ASSUME NEW w \in Workers, MarkTransferring(w) PROVE IntactInv'
  BY <1>12, SMTT(90) DEF MarkTransferring, Statement
<1>13. ASSUME NEW w \in Workers, ReadChat(w) PROVE IntactInv'
  BY <1>13, SMTT(90) DEF ReadChat, Statement
<1>14. ASSUME NEW w \in Workers, FindFolder(w) PROVE IntactInv'
  BY <1>14, SMTT(90) DEF FindFolder, Call, Raise
<1>15. ASSUME NEW w \in Workers, MakeFolder(w) PROVE IntactInv'
  BY <1>15, SMTT(90) DEF MakeFolder, Call, Raise
<1>16. ASSUME NEW w \in Workers, MarkFolders(w) PROVE IntactInv'
  BY <1>16, SMTT(90) DEF MarkFolders, Statement
<1>17. ASSUME NEW w \in Workers, NameFile(w) PROVE IntactInv'
  BY <1>17, SMTT(90) DEF NameFile, Statement
<1>18. ASSUME NEW w \in Workers, Inspect(w) PROVE IntactInv'
  BY <1>18, SMTT(90) DEF Inspect, Call, Raise
<1>19. ASSUME NEW w \in Workers, Download(w) PROVE IntactInv'
  BY <1>19, SMTT(90) DEF Download
<1>20. ASSUME NEW w \in Workers, StoreChecksum(w) PROVE IntactInv'
  BY <1>20, SMTT(90) DEF StoreChecksum, Statement
<1>21. ASSUME NEW w \in Workers, RecheckDrive(w) PROVE IntactInv'
  BY <1>21, SMTT(90) DEF RecheckDrive, Statement, Raise
<1>22. ASSUME NEW w \in Workers, BeginUpload(w) PROVE IntactInv'
  BY <1>22, SMTT(90) DEF BeginUpload, Call, Raise
<1>23. ASSUME NEW w \in Workers, StoreUrl(w) PROVE IntactInv'
  BY <1>23, SMTT(90) DEF StoreUrl
<1>24. ASSUME NEW w \in Workers, Upload(w) PROVE IntactInv'
  BY <1>24, SMTT(90) DEF Upload, Call
<1>25. ASSUME NEW w \in Workers, ForgetUrl(w) PROVE IntactInv'
  BY <1>25, SMTT(90) DEF ForgetUrl, Statement, Raise
<1>26. ASSUME NEW w \in Workers, Verify(w) PROVE IntactInv'
  BY <1>26, SMTT(90) DEF Verify, Call, Raise
<1>27. ASSUME NEW w \in Workers, MarkComplete(w) PROVE IntactInv'
  BY <1>27, SMTT(90) DEF MarkComplete, Statement, Unlock
<1>28. ASSUME NEW w \in Workers, RecordFailure(w) PROVE IntactInv'
  BY <1>28, SMTT(90) DEF RecordFailure, Statement, Unlock, Attention
<1>29. ASSUME NEW w \in Workers, MarkAttention(w) PROVE IntactInv'
  BY <1>29, SMTT(90) DEF MarkAttention, Unlock
<1>30. ASSUME NEW w \in Workers, Denied(w) PROVE IntactInv'
  BY <1>30, SMTT(90) DEF Denied, Raise, Calls
<1>31. ASSUME NEW w \in Workers, Disconnected(w) PROVE IntactInv'
  BY <1>31, SMTT(90) DEF Disconnected, Statements, Recording
<1>32. ASSUME NEW w \in Workers, ReportSuccess(w) PROVE IntactInv'
  BY <1>32, SMTT(90) DEF ReportSuccess, Leave, Job, NoJob, NoRecord
<1>33. ASSUME NEW w \in Workers, ReportFailure(w) PROVE IntactInv'
  BY <1>33, SMTT(90) DEF ReportFailure, Leave, Job, NoJob, NoRecord
<1>34. ASSUME NEW w \in Workers, Fails(w) PROVE IntactInv'
  BY <1>34, SMTT(90) DEF Fails, Raise, Calls, Statements
<1>35. ASSUME NEW w \in Workers, LoseLock(w) PROVE IntactInv'
  BY <1>35, SMTT(90) DEF LoseLock, Unlock, InTransfer, Statements, Calls, Recording
<1>36. ASSUME NEW w \in Workers, Crash(w) PROVE IntactInv'
  BY <1>36, SMTT(90) DEF Crash, Leave, Unlock, NoRecord
<1>37. CASE UNCHANGED vars
  BY <1>37
<1> QED
  BY <1>1, <1>2, <1>3, <1>4, <1>5, <1>6, <1>7, <1>8, <1>9, <1>10, <1>11, <1>12, <1>13, <1>14,
     <1>15, <1>16, <1>17, <1>18, <1>19, <1>20, <1>21, <1>22, <1>23, <1>24, <1>25, <1>26, <1>27,
     <1>28, <1>29, <1>30, <1>31, <1>32, <1>33, <1>34, <1>35, <1>36, <1>37 DEF Next, Transfer,
     LiveJobs

\* Imports, replays and claims.
LEMMA JobSteps ==
    ASSUME Typed, JobInv, Typed',
           \/ \E a \in Attachments : Import(a) \/ Replay(a)
           \/ \E w \in Workers : MarkTransferring(w) \/ \E r \in Rows : Claim(w, r)
    PROVE JobInv'
<1> USE DEF columns, queueVars, workVars, readVars, driveVars,
        googleVars, historyVars, vars, At, Goto
<1>1. ASSUME NEW a \in Attachments, NEW r \in Rows, FreshRow(r), LiveJobs(a) = {},
             jobs' = [jobs EXCEPT ![r] = Job(a, "queued", 0)],
             queueId' = [queueId EXCEPT ![a] = r],
             status' = [status EXCEPT ![a] = "pending"],
             UNCHANGED <<pc, doing, jobOf, overlapped>>
      PROVE  JobInv'
  <2> DEFINE new == Job(a, "queued", 0)
  <2>1. new.status = "queued" /\ new.attachment = a
    BY DEF Job
  <2>2. /\ jobs[r] = NoJob /\ \A w \in Workers : jobOf[w] # r
        /\ \A s \in Rows : jobs[s].attachment # a
    BY <1>1 DEF FreshRow, LiveJobs
  <2> HIDE DEF new
  <2>3. jobs'[r] = new /\ \A s \in Rows : s # r => jobs'[s] = jobs[s]
    BY <1>1 DEF new, Typed, QueueTyped
  <2>4. status'[a] = "pending" /\ queueId'[a] = r
        /\ \A b \in Attachments : b # a => status'[b] = status[b] /\ queueId'[b] = queueId[b]
    BY <1>1 DEF Typed, QueueTyped, ColumnsTyped
  <2>5. \A w \in Workers : pc[w] # "idle" => jobOf[w] \in Rows /\ doing[w] \in Attachments
    BY DEF Typed, WorkersTyped
  <2>6. \A w \in Workers : pc[w] # "idle" /\ doing[w] = a => a \in overlapped
    <3>1. NoJob.status = "none"
      BY DEF NoJob, Job
    <3> QED
      BY <2>2, <2>5, <3>1 DEF JobInv
  <2>7. \A s \in Rows : jobs'[s].status # "none"
           => queueId'[jobs'[s].attachment] = s /\ status'[jobs'[s].attachment] # "none"
    <3>1. \A s \in Rows : jobs[s].status # "none" => jobs[s].attachment \in Attachments
      BY DEF Typed, QueueTyped
    <3> QED
      BY <2>1, <2>2, <2>3, <2>4, <3>1 DEF JobInv
  <2>8. \A b \in Attachments :
           status'[b] \in {"pending", "transferring"} /\ b \notin overlapped
               => queueId'[b] \in Rows /\ jobs'[queueId'[b]].attachment = b
    <3> SUFFICES ASSUME NEW b \in Attachments, b # a, b \notin overlapped,
                        status[b] \in {"pending", "transferring"}
                 PROVE  queueId[b] \in Rows /\ jobs'[queueId[b]].attachment = b
      BY <1>1, <2>1, <2>3, <2>4
    <3>1. queueId[b] \in Rows /\ jobs[queueId[b]].attachment = b
      BY DEF JobInv
    <3>2. queueId[b] # r
      BY <2>2, <3>1, ArchiveAssumption DEF NoJob, Job
    <3> QED
      BY <2>3, <3>1, <3>2
  <2>9. \A w \in Workers : pc[w] # "idle" => jobs'[jobOf[w]] = jobs[jobOf[w]]
    BY <2>2, <2>3, <2>5
  <2>10. \A s \in Rows : jobs'[s].status = "none" => jobs'[s] = NoJob
    BY <2>1, <2>3 DEF JobInv
  <2>11. /\ \A w \in Workers : pc[w] # "idle"
                => jobs'[jobOf[w]] = NoJob \/ jobs'[jobOf[w]].attachment = doing[w]
         /\ \A w \in Workers : pc[w] # "idle" /\ doing[w] \notin overlapped
                => jobs'[jobOf[w]].status = "picked"
    BY <2>9 DEF JobInv
  <2>12. \A v, w \in Workers : pc[v] # "idle" /\ pc[w] # "idle" /\ doing[v] = doing[w]
                             /\ doing[w] \notin overlapped => v = w
    BY DEF JobInv
  <2>13. \A w \in Workers : pc[w] \in {"returned", "attention"} /\ doing[w] \notin overlapped
           => status'[doing[w]] \notin {"pending", "transferring"}
    BY <2>4, <2>5, <2>6 DEF JobInv
  <2> QED
    BY <1>1, <2>7, <2>8, <2>10, <2>11, <2>12, <2>13 DEF JobInv
<1>2. ASSUME NEW a \in Attachments, Import(a) PROVE JobInv'
  <2>1. status[a] = "none" /\ LiveJobs(a) = {}
    <3>1. \A r \in Rows : jobs[r].attachment = a => jobs[r].status # "none"
      BY ArchiveAssumption DEF JobInv, NoJob, Job
    <3> QED
      BY <1>2, <3>1 DEF Import, JobInv, LiveJobs
  <2>2. UNCHANGED <<pc, doing, jobOf, overlapped>>
    BY <1>2 DEF Import
  <2>3. CASE status' = [status EXCEPT ![a] = "failed"] /\ UNCHANGED queueVars
    <3>1. status'[a] = "failed" /\ \A b \in Attachments : b # a => status'[b] = status[b]
      BY <2>3 DEF Typed, ColumnsTyped
    <3>2. \A w \in Workers : pc[w] # "idle" => doing[w] \in Attachments
      BY DEF Typed, WorkersTyped
    <3>3. \A s \in Rows : jobs[s].status # "none" => jobs[s].attachment \in Attachments
      BY DEF Typed, QueueTyped
    <3> QED
      BY <2>2, <2>3, <3>1, <3>2, <3>3 DEF JobInv
  <2>4. ASSUME NEW r \in Rows, FreshRow(r), jobs' = [jobs EXCEPT ![r] = Job(a, "queued", 0)],
               queueId' = [queueId EXCEPT ![a] = r], status' = [status EXCEPT ![a] = "pending"]
        PROVE  JobInv'
    BY <1>1, <2>1, <2>2, <2>4
  <2> QED
    BY <1>2, <2>3, <2>4 DEF Import
<1>3. ASSUME NEW a \in Attachments, Replay(a) PROVE JobInv'
  <2> DEFINE r == queueId[a]
  <2>1. status' = [status EXCEPT ![a] = "pending"] /\ UNCHANGED <<pc, doing, jobOf, overlapped>>
    BY <1>3 DEF Replay
  <2>2. CASE r \in LiveJobs(a) /\ jobs[r].status = "failed"
             /\ jobs' = [jobs EXCEPT ![r] = Job(a, "queued", 0)] /\ UNCHANGED queueId
    <3> DEFINE new == Job(a, "queued", 0)
    <3>1. new.status = "queued" /\ new.attachment = a
      BY DEF Job
    <3> HIDE DEF new
    <3>2. /\ r \in Rows /\ jobs[r].attachment = a
          /\ jobs'[r] = new /\ \A s \in Rows : s # r => jobs'[s] = jobs[s]
      BY <2>2 DEF new, Typed, QueueTyped, LiveJobs
    <3>3. status'[a] = "pending"
          /\ \A b \in Attachments : b # a => status'[b] = status[b]
      BY <2>1 DEF Typed, ColumnsTyped
    <3>4. \A w \in Workers : pc[w] # "idle" => jobOf[w] \in Rows /\ doing[w] \in Attachments
      BY DEF Typed, WorkersTyped
    <3>5. NoJob.status = "none"
      BY DEF NoJob, Job
    <3>6. \A w \in Workers : pc[w] # "idle" /\ doing[w] = a => a \in overlapped
      BY <2>2, <3>4, <3>5 DEF JobInv
    <3>7. \A s \in Rows : jobs[s].status # "none" => jobs[s].attachment \in Attachments
      BY DEF Typed, QueueTyped
    <3>8. \A w \in Workers : pc[w] # "idle" /\ jobOf[w] = r => doing[w] = a
      BY <2>2, <3>2, <3>5 DEF JobInv
    <3>9. /\ \A s \in Rows : jobs'[s].status # "none"
                 => queueId[jobs'[s].attachment] = s /\ status'[jobs'[s].attachment] # "none"
          /\ \A s \in Rows : jobs'[s].status = "none" => jobs'[s] = NoJob
      BY <3>1, <3>2, <3>3, <3>7 DEF JobInv
    <3>10. \A w \in Workers : pc[w] # "idle"
               => jobs'[jobOf[w]] = NoJob \/ jobs'[jobOf[w]].attachment = doing[w]
      BY <3>1, <3>2, <3>4, <3>8 DEF JobInv
    <3>11. \A w \in Workers : pc[w] # "idle" /\ doing[w] \notin overlapped
               => jobs'[jobOf[w]].status = "picked"
      BY <3>2, <3>4, <3>6, <3>8 DEF JobInv
    <3>12. \A w \in Workers : pc[w] \in {"returned", "attention"} /\ doing[w] \notin overlapped
               => status'[doing[w]] \notin {"pending", "transferring"}
      BY <3>3, <3>4, <3>6 DEF JobInv
    <3>13. \A b \in Attachments :
               status'[b] \in {"pending", "transferring"} /\ b \notin overlapped
                   => queueId[b] \in Rows /\ jobs'[queueId[b]].attachment = b
      BY <3>1, <3>2, <3>3 DEF JobInv
    <3>14. \A v, w \in Workers : pc[v] # "idle" /\ pc[w] # "idle" /\ doing[v] = doing[w]
                               /\ doing[w] \notin overlapped => v = w
      BY DEF JobInv
    <3> QED
      BY <2>1, <2>2, <3>9, <3>10, <3>11, <3>12, <3>13, <3>14 DEF JobInv
  <2>3. CASE r \notin LiveJobs(a)
    <3>1. \A s \in Rows : jobs[s].attachment = a => jobs[s].status # "none"
      BY ArchiveAssumption DEF JobInv, NoJob, Job
    <3>2. LiveJobs(a) = {}
      BY <2>3, <3>1 DEF LiveJobs, JobInv
    <3>3. PICK n \in Rows : /\ FreshRow(n) /\ jobs' = [jobs EXCEPT ![n] = Job(a, "queued", 0)]
                            /\ queueId' = [queueId EXCEPT ![a] = n]
      BY <1>3, <2>3 DEF Replay
    <3> QED
      BY <1>1, <2>1, <3>2, <3>3
  <2> QED
    BY <1>3, <2>2, <2>3 DEF Replay
<1>4. ASSUME NEW w \in Workers, MarkTransferring(w) PROVE JobInv'
  <2> DEFINE a == doing[w]
  <2>1. /\ pc[w] = "marking" /\ a \in Attachments /\ jobOf[w] \in Rows
        /\ status' = [status EXCEPT ![a] = "transferring"]
        /\ pc' = [pc EXCEPT ![w] = "chat"]
        /\ UNCHANGED <<queueId, jobs, doing, jobOf, overlapped>>
    BY <1>4 DEF MarkTransferring, Statement, Typed, WorkersTyped
  <2>2. status'[a] = "transferring" /\ \A b \in Attachments : b # a => status'[b] = status[b]
    BY <2>1 DEF Typed, ColumnsTyped
  <2>3. pc'[w] = "chat" /\ \A v \in Workers : v # w => pc'[v] = pc[v]
    BY <2>1 DEF Typed, WorkersTyped
  <2>4. NoJob.status = "none"
    BY DEF NoJob, Job
  <2>5. a \notin overlapped => queueId[a] = jobOf[w] /\ jobs[jobOf[w]].attachment = a
    BY <2>1, <2>4 DEF JobInv
  <2>6. \A s \in Rows : jobs[s].status # "none" => jobs[s].attachment \in Attachments
    BY DEF Typed, QueueTyped
  <2>7. \A v \in Workers : pc[v] # "idle" => doing[v] \in Attachments
    BY DEF Typed, WorkersTyped
  <2>8. \A v \in Workers : pc'[v] \in {"returned", "attention"} /\ doing[v] \notin overlapped
               => status'[doing[v]] \notin {"pending", "transferring"}
    BY <2>1, <2>2, <2>3, <2>7 DEF JobInv
  <2>9. \A s \in Rows : jobs[s].status # "none"
             => queueId[jobs[s].attachment] = s /\ status'[jobs[s].attachment] # "none"
    BY <2>2, <2>6 DEF JobInv
  <2>10. \A b \in Attachments :
             status'[b] \in {"pending", "transferring"} /\ b \notin overlapped
                 => queueId[b] \in Rows /\ jobs[queueId[b]].attachment = b
    BY <2>1, <2>2, <2>5 DEF JobInv
  <2> QED
    BY <2>1, <2>3, <2>8, <2>9, <2>10 DEF JobInv
<1>5. ASSUME NEW w \in Workers, NEW r \in Rows, Claim(w, r) PROVE JobInv'
  <2> DEFINE a == jobs[r].attachment
             new == [jobs[r] EXCEPT !.status = "picked"]
  <2>1. new.status = "picked" /\ new.attachment = a
    BY DEF Typed, QueueTyped, JobRows
  <2>2. /\ jobs[r].status = "queued" /\ pc[w] = "idle" /\ a \in Attachments
        /\ jobs' = [jobs EXCEPT ![r] = new]
        /\ jobOf' = [jobOf EXCEPT ![w] = r] /\ doing' = [doing EXCEPT ![w] = a]
        /\ pc' = [pc EXCEPT ![w] = "waiting"]
        /\ UNCHANGED <<status, queueId, overlapped>>
    BY <1>5 DEF Claim, Start, Typed, QueueTyped
  <2> HIDE DEF new
  <2>3. /\ jobs'[r] = new /\ \A s \in Rows : s # r => jobs'[s] = jobs[s]
        /\ pc'[w] = "waiting" /\ jobOf'[w] = r /\ doing'[w] = a
        /\ \A v \in Workers : v # w => /\ pc'[v] = pc[v] /\ jobOf'[v] = jobOf[v]
                                       /\ doing'[v] = doing[v]
    BY <2>2 DEF Typed, WorkersTyped, QueueTyped
  <2>4. NoJob.status = "none"
    BY DEF NoJob, Job
  <2>5. \A v \in Workers : pc[v] # "idle" => jobOf[v] \in Rows
    BY DEF Typed, WorkersTyped
  <2>6. \A v \in Workers : pc[v] # "idle" /\ doing[v] = a => a \in overlapped
    BY <2>2, <2>4, <2>5 DEF JobInv
  <2>7. /\ \A s \in Rows : jobs'[s].status # "none"
               => queueId[jobs'[s].attachment] = s /\ status[jobs'[s].attachment] # "none"
        /\ \A s \in Rows : jobs'[s].status = "none" => jobs'[s] = NoJob
    BY <2>1, <2>2, <2>3 DEF JobInv
  <2>8. \A v \in Workers : pc'[v] # "idle"
             => jobs'[jobOf'[v]] = NoJob \/ jobs'[jobOf'[v]].attachment = doing'[v]
    BY <2>1, <2>2, <2>3, <2>4, <2>5 DEF JobInv
  <2>9. \A v \in Workers : pc'[v] # "idle" /\ doing'[v] \notin overlapped
             => jobs'[jobOf'[v]].status = "picked"
    BY <2>1, <2>3, <2>5 DEF JobInv
  <2>10. \A u, v \in Workers : pc'[u] # "idle" /\ pc'[v] # "idle" /\ doing'[u] = doing'[v]
                              /\ doing'[v] \notin overlapped => u = v
    BY <2>3, <2>6 DEF JobInv
  <2>11. \A v \in Workers : pc'[v] \in {"returned", "attention"} /\ doing'[v] \notin overlapped
               => status[doing'[v]] \notin {"pending", "transferring"}
    BY <2>3 DEF JobInv
  <2>12. \A b \in Attachments :
             status[b] \in {"pending", "transferring"} /\ b \notin overlapped
                 => queueId[b] \in Rows /\ jobs'[queueId[b]].attachment = b
    BY <2>1, <2>3 DEF JobInv
  <2> QED
    BY <2>2, <2>7, <2>8, <2>9, <2>10, <2>11, <2>12 DEF JobInv
<1> QED
  BY <1>2, <1>3, <1>4, <1>5

\* Jobs, rows and executions stay together.
LEMMA JobStep == Typed /\ JobInv /\ Typed' /\ [Next]_vars => JobInv'
<1> SUFFICES ASSUME Typed, JobInv, Typed', [Next]_vars PROVE JobInv'
  OBVIOUS
<1> USE ArchiveAssumption DEF Typed, columns, queueVars, workVars, readVars, driveVars,
        googleVars, historyVars, vars, At, Goto
<1> USE DEF JobInv, ColumnsTyped, QueueTyped, WorkersTyped, Connected, Labels, JobRows
<1>1. CASE Drive
  BY <1>1, DriveKeeps
<1>2. ASSUME NEW a \in Attachments, Import(a) PROVE JobInv'
  BY <1>2, JobSteps
<1>3. ASSUME NEW a \in Attachments, Replay(a) PROVE JobInv'
  BY <1>3, JobSteps
<1>4. ASSUME NEW a \in Attachments, Bin(a) PROVE JobInv'
  BY <1>4, SMTT(90) DEF Bin
<1>5. ASSUME NEW a \in Attachments, Expire(a) PROVE JobInv'
  BY <1>5, SMTT(90) DEF Expire
<1>6. ASSUME NEW r \in Rows, Requeue(r) PROVE JobInv'
  BY <1>6, SMTT(90) DEF Requeue, Job, NoJob
<1>7. ASSUME NEW w \in Workers, NEW r \in Rows, Claim(w, r) PROVE JobInv'
  BY <1>7, JobSteps
<1>8. ASSUME NEW w \in Workers, NEW r \in Rows, Recover(w, r) PROVE JobInv'
  BY <1>8, SMTT(90) DEF Recover, Start, Executing, Job, NoJob
<1>9. ASSUME NEW w \in Workers, Begin(w) PROVE JobInv'
  BY <1>9, SMTT(90) DEF Begin
<1>10. ASSUME NEW w \in Workers, CheckDrive(w) PROVE JobInv'
  BY <1>10, SMTT(90) DEF CheckDrive, Statement, Raise
<1>11. ASSUME NEW w \in Workers, Open(w) PROVE JobInv'
  BY <1>11, SMTT(90) DEF Open, Raise
<1>12. ASSUME NEW w \in Workers, MarkTransferring(w) PROVE JobInv'
  BY <1>12, JobSteps
<1>13. ASSUME NEW w \in Workers, ReadChat(w) PROVE JobInv'
  BY <1>13, SMTT(90) DEF ReadChat, Statement
<1>14. ASSUME NEW w \in Workers, FindFolder(w) PROVE JobInv'
  BY <1>14, SMTT(90) DEF FindFolder, Call, Raise
<1>15. ASSUME NEW w \in Workers, MakeFolder(w) PROVE JobInv'
  BY <1>15, SMTT(90) DEF MakeFolder, Call, Raise
<1>16. ASSUME NEW w \in Workers, MarkFolders(w) PROVE JobInv'
  BY <1>16, SMTT(90) DEF MarkFolders, Statement
<1>17. ASSUME NEW w \in Workers, NameFile(w) PROVE JobInv'
  BY <1>17, SMTT(90) DEF NameFile, Statement
<1>18. ASSUME NEW w \in Workers, Inspect(w) PROVE JobInv'
  BY <1>18, SMTT(90) DEF Inspect, Call, Raise
<1>19. ASSUME NEW w \in Workers, Download(w) PROVE JobInv'
  BY <1>19, SMTT(90) DEF Download
<1>20. ASSUME NEW w \in Workers, StoreChecksum(w) PROVE JobInv'
  BY <1>20, SMTT(90) DEF StoreChecksum, Statement
<1>21. ASSUME NEW w \in Workers, RecheckDrive(w) PROVE JobInv'
  BY <1>21, SMTT(90) DEF RecheckDrive, Statement, Raise
<1>22. ASSUME NEW w \in Workers, BeginUpload(w) PROVE JobInv'
  BY <1>22, SMTT(90) DEF BeginUpload, Call, Raise
<1>23. ASSUME NEW w \in Workers, StoreUrl(w) PROVE JobInv'
  BY <1>23, SMTT(90) DEF StoreUrl
<1>24. ASSUME NEW w \in Workers, Upload(w) PROVE JobInv'
  BY <1>24, SMTT(90) DEF Upload, Call
<1>25. ASSUME NEW w \in Workers, ForgetUrl(w) PROVE JobInv'
  BY <1>25, SMTT(90) DEF ForgetUrl, Statement, Raise
<1>26. ASSUME NEW w \in Workers, Verify(w) PROVE JobInv'
  BY <1>26, SMTT(90) DEF Verify, Call, Raise
<1>27. ASSUME NEW w \in Workers, MarkComplete(w) PROVE JobInv'
  BY <1>27, SMTT(90) DEF MarkComplete, Statement, Unlock
<1>28. ASSUME NEW w \in Workers, RecordFailure(w) PROVE JobInv'
  BY <1>28, SMTT(90) DEF RecordFailure, Statement, Unlock, Attention
<1>29. ASSUME NEW w \in Workers, MarkAttention(w) PROVE JobInv'
  BY <1>29, SMTT(90) DEF MarkAttention, Unlock
<1>30. ASSUME NEW w \in Workers, Denied(w) PROVE JobInv'
  BY <1>30, SMTT(90) DEF Denied, Raise, Calls
<1>31. ASSUME NEW w \in Workers, Disconnected(w) PROVE JobInv'
  BY <1>31, SMTT(90) DEF Disconnected, Statements, Recording
<1>32. ASSUME NEW w \in Workers, ReportSuccess(w) PROVE JobInv'
  BY <1>32, SMTT(90) DEF ReportSuccess, Leave, Job, NoJob, NoRecord
<1>33. ASSUME NEW w \in Workers, ReportFailure(w) PROVE JobInv'
  BY <1>33, SMTT(90) DEF ReportFailure, Leave, Job, NoJob, NoRecord
<1>34. ASSUME NEW w \in Workers, Fails(w) PROVE JobInv'
  BY <1>34, SMTT(90) DEF Fails, Raise, Calls, Statements
<1>35. ASSUME NEW w \in Workers, LoseLock(w) PROVE JobInv'
  BY <1>35, SMTT(90) DEF LoseLock, Unlock, InTransfer, Statements, Calls, Recording
<1>36. ASSUME NEW w \in Workers, Crash(w) PROVE JobInv'
  BY <1>36, SMTT(90) DEF Crash, Leave, Unlock, NoRecord
<1>37. CASE UNCHANGED vars
  BY <1>37
<1> QED
  BY <1>1, <1>2, <1>3, <1>4, <1>5, <1>6, <1>7, <1>8, <1>9, <1>10, <1>11, <1>12, <1>13, <1>14,
     <1>15, <1>16, <1>17, <1>18, <1>19, <1>20, <1>21, <1>22, <1>23, <1>24, <1>25, <1>26, <1>27,
     <1>28, <1>29, <1>30, <1>31, <1>32, <1>33, <1>34, <1>35, <1>36, <1>37 DEF Next, Transfer,
     LiveJobs

\* Who is about to ask for attention has a cause.
LEMMA AttentionStep == Typed /\ AttentionInv /\ Typed' /\ [Next]_vars => AttentionInv'
<1> SUFFICES ASSUME Typed, AttentionInv, Typed', [Next]_vars PROVE AttentionInv'
  OBVIOUS
<1> USE ArchiveAssumption DEF Typed, columns, queueVars, workVars, readVars, driveVars,
        googleVars, historyVars, vars, At, Goto
<1> USE DEF AttentionInv, Marks, WorkersTyped, ReadTyped, DriveTyped, GoogleTyped, Connected,
   Labels, Attention
<1>1. CASE BeginComplete
  BY <1>1, SMTT(90) DEF BeginComplete
<1>2. CASE WriteToken
  BY <1>2, SMTT(90) DEF WriteToken
<1>3. CASE MarkPending
  BY <1>3, SMTT(90) DEF MarkPending
<1>4. CASE RootFolders
  BY <1>4, SMTT(90) DEF RootFolders
<1>5. CASE MarkReady
  BY <1>5, SMTT(90) DEF MarkReady
<1>6. CASE AbandonComplete
  BY <1>6, SMTT(90) DEF AbandonComplete
<1>7. CASE Disconnect
  BY <1>7, SMTT(90) DEF Disconnect
<1>8. CASE Revoke
  BY <1>8, SMTT(90) DEF Revoke
<1>9. CASE Enroll
  BY <1>9, SMTT(90) DEF Enroll
<1>10. ASSUME NEW f \in {"root", "chat"}, Spoil(f) PROVE AttentionInv'
  BY <1>10, SMTT(90) DEF Spoil
<1>11. ASSUME NEW f \in {"root", "chat"}, Repair(f) PROVE AttentionInv'
  BY <1>11, SMTT(90) DEF Repair
<1>12. ASSUME NEW a \in Attachments, Import(a) PROVE AttentionInv'
  BY <1>12, SMTT(90) DEF Import, FreshRow, Job, NoJob
<1>13. ASSUME NEW a \in Attachments, Replay(a) PROVE AttentionInv'
  BY <1>13, SMTT(90) DEF Replay, FreshRow, LiveJobs, Job, NoJob
<1>14. ASSUME NEW a \in Attachments, Bin(a) PROVE AttentionInv'
  BY <1>14, SMTT(90) DEF Bin
<1>15. ASSUME NEW a \in Attachments, Expire(a) PROVE AttentionInv'
  BY <1>15, SMTT(90) DEF Expire
<1>16. ASSUME NEW r \in Rows, Requeue(r) PROVE AttentionInv'
  BY <1>16, SMTT(90) DEF Requeue, Job, NoJob
<1>17. ASSUME NEW w \in Workers, NEW r \in Rows, Claim(w, r) PROVE AttentionInv'
  BY <1>17, SMTT(90) DEF Claim, Start, Job, NoJob
<1>18. ASSUME NEW w \in Workers, NEW r \in Rows, Recover(w, r) PROVE AttentionInv'
  BY <1>18, SMTT(90) DEF Recover, Start, Executing, Job, NoJob
<1>19. ASSUME NEW w \in Workers, Begin(w) PROVE AttentionInv'
  BY <1>19, SMTT(90) DEF Begin
<1>20. ASSUME NEW w \in Workers, CheckDrive(w) PROVE AttentionInv'
  BY <1>20, SMTT(90) DEF CheckDrive, Statement, Raise
<1>21. ASSUME NEW w \in Workers, Open(w) PROVE AttentionInv'
  BY <1>21, SMTT(90) DEF Open, Raise
<1>22. ASSUME NEW w \in Workers, MarkTransferring(w) PROVE AttentionInv'
  BY <1>22, SMTT(90) DEF MarkTransferring, Statement
<1>23. ASSUME NEW w \in Workers, ReadChat(w) PROVE AttentionInv'
  BY <1>23, SMTT(90) DEF ReadChat, Statement
<1>24. ASSUME NEW w \in Workers, FindFolder(w) PROVE AttentionInv'
  BY <1>24, SMTT(90) DEF FindFolder, Call, Raise
<1>25. ASSUME NEW w \in Workers, MakeFolder(w) PROVE AttentionInv'
  BY <1>25, SMTT(90) DEF MakeFolder, Call, Raise
<1>26. ASSUME NEW w \in Workers, MarkFolders(w) PROVE AttentionInv'
  BY <1>26, SMTT(90) DEF MarkFolders, Statement
<1>27. ASSUME NEW w \in Workers, NameFile(w) PROVE AttentionInv'
  BY <1>27, SMTT(90) DEF NameFile, Statement
<1>28. ASSUME NEW w \in Workers, Inspect(w) PROVE AttentionInv'
  BY <1>28, SMTT(90) DEF Inspect, Call, Raise
<1>29. ASSUME NEW w \in Workers, Download(w) PROVE AttentionInv'
  BY <1>29, SMTT(90) DEF Download
<1>30. ASSUME NEW w \in Workers, StoreChecksum(w) PROVE AttentionInv'
  BY <1>30, SMTT(90) DEF StoreChecksum, Statement
<1>31. ASSUME NEW w \in Workers, RecheckDrive(w) PROVE AttentionInv'
  BY <1>31, SMTT(90) DEF RecheckDrive, Statement, Raise
<1>32. ASSUME NEW w \in Workers, BeginUpload(w) PROVE AttentionInv'
  BY <1>32, SMTT(90) DEF BeginUpload, Call, Raise
<1>33. ASSUME NEW w \in Workers, StoreUrl(w) PROVE AttentionInv'
  BY <1>33, SMTT(90) DEF StoreUrl
<1>34. ASSUME NEW w \in Workers, Upload(w) PROVE AttentionInv'
  BY <1>34, SMTT(90) DEF Upload, Call
<1>35. ASSUME NEW w \in Workers, ForgetUrl(w) PROVE AttentionInv'
  BY <1>35, SMTT(90) DEF ForgetUrl, Statement, Raise
<1>36. ASSUME NEW w \in Workers, Verify(w) PROVE AttentionInv'
  BY <1>36, SMTT(90) DEF Verify, Call, Raise
<1>37. ASSUME NEW w \in Workers, MarkComplete(w) PROVE AttentionInv'
  BY <1>37, SMTT(90) DEF MarkComplete, Statement, Unlock
<1>38. ASSUME NEW w \in Workers, RecordFailure(w) PROVE AttentionInv'
  BY <1>38, SMTT(90) DEF RecordFailure, Statement, Unlock
<1>39. ASSUME NEW w \in Workers, MarkAttention(w) PROVE AttentionInv'
  BY <1>39, SMTT(90) DEF MarkAttention, Unlock
<1>40. ASSUME NEW w \in Workers, Denied(w) PROVE AttentionInv'
  BY <1>40, SMTT(90) DEF Denied, Raise, Calls
<1>41. ASSUME NEW w \in Workers, Disconnected(w) PROVE AttentionInv'
  BY <1>41, SMTT(90) DEF Disconnected, Statements, Recording
<1>42. ASSUME NEW w \in Workers, ReportSuccess(w) PROVE AttentionInv'
  BY <1>42, SMTT(90) DEF ReportSuccess, Leave, Job, NoJob, NoRecord
<1>43. ASSUME NEW w \in Workers, ReportFailure(w) PROVE AttentionInv'
  BY <1>43, SMTT(90) DEF ReportFailure, Leave, Job, NoJob, NoRecord
<1>44. ASSUME NEW w \in Workers, Fails(w) PROVE AttentionInv'
  BY <1>44, SMTT(90) DEF Fails, Raise, Calls, Statements
<1>45. ASSUME NEW w \in Workers, LoseLock(w) PROVE AttentionInv'
  BY <1>45, SMTT(90) DEF LoseLock, Unlock, InTransfer, Statements, Calls, Recording
<1>46. ASSUME NEW w \in Workers, Crash(w) PROVE AttentionInv'
  BY <1>46, SMTT(90) DEF Crash, Leave, Unlock, NoRecord
<1>47. CASE UNCHANGED vars
  BY <1>47
<1> QED
  BY <1>1, <1>2, <1>3, <1>4, <1>5, <1>6, <1>7, <1>8, <1>9, <1>10, <1>11, <1>12, <1>13, <1>14,
     <1>15, <1>16, <1>17, <1>18, <1>19, <1>20, <1>21, <1>22, <1>23, <1>24, <1>25, <1>26, <1>27,
     <1>28, <1>29, <1>30, <1>31, <1>32, <1>33, <1>34, <1>35, <1>36, <1>37, <1>38, <1>39, <1>40,
     <1>41, <1>42, <1>43, <1>44, <1>45, <1>46, <1>47, SMTT(60)
        DEF Next, Drive, Transfer, LiveJobs

-----------------------------------------------------------------------------
(* Theorems *)

ArchiveInv == Typed /\ IdInv /\ UrlInv /\ IntactInv /\ JobInv /\ AttentionInv

LEMMA ArchiveInit == Init => ArchiveInv
<1> SUFFICES ASSUME Init PROVE ArchiveInv
  OBVIOUS
<1> USE ArchiveAssumption DEF Init
<1>1. ColumnsTyped /\ DriveTyped
  BY DEF ColumnsTyped, DriveTyped
<1>2. QueueTyped /\ JobInv
  BY DEF QueueTyped, JobRows, JobInv, NoJob, Job
<1>3. WorkersTyped /\ GoogleTyped
  BY DEF WorkersTyped, GoogleTyped, Labels, InTransfer
<1>4. ReadTyped
  BY DEF ReadTyped, Records, NoRecord
<1>5. IdInv /\ UrlInv /\ IntactInv
  BY DEF IdInv, UrlInv, SessionInv, IntactInv, Reading, Sending
<1>6. AttentionInv
  BY DEF AttentionInv, Marks
<1> QED
  BY <1>1, <1>2, <1>3, <1>4, <1>5, <1>6 DEF ArchiveInv, Typed

\* The invariant that carries the others: what executions know of the columns, of Google
\* and of the queue, whichever of them lost its lock or crashed.
THEOREM ArchiveInductive == Spec => []ArchiveInv
<1>1. ArchiveInv /\ [Next]_vars => ArchiveInv'
  BY TypedStep, IdStep, UrlStep, IntactStep, JobStep, AttentionStep DEF ArchiveInv
<1> QED
  BY ArchiveInit, <1>1, PTL DEF Spec

\* Type correctness of the archive.
THEOREM ArchiveTypeCorrect == Spec => []ArchiveTypeOK
<1>1. ArchiveInv => ArchiveTypeOK
  <2> SUFFICES ASSUME ArchiveInv PROVE ArchiveTypeOK
    OBVIOUS
  <2> USE DEF ArchiveInv, Typed
  <2>1. fileId \in [Attachments -> Nat] /\ files \in [Attachments -> SUBSET Nat]
    BY DEF ColumnsTyped, GoogleTyped
  <2>2. row \in [Workers -> [fileId : Nat, checksum : BOOLEAN, url : {"none", "current", "old"}]]
    BY DEF ReadTyped, Records
  <2>3. {rootMade, chatMade, enrolled, trouble} \subseteq BOOLEAN
    BY DEF DriveTyped
  <2> QED
    BY <2>1, <2>2, <2>3 DEF ArchiveTypeOK, ColumnsTyped, QueueTyped, WorkersTyped, ReadTyped,
       DriveTyped, GoogleTyped
<1> QED
  BY ArchiveInductive, <1>1, PTL

\* However often a transfer is retried, taken over or run twice at once, Google has at most
\* one file of an attachment: its id is stored before the first upload.
THEOREM OneFileEver == Spec => []OneFilePerAttachment
<1>1. ArchiveInv => OneFilePerAttachment
  <2> SUFFICES ASSUME ArchiveInv, NEW a \in Attachments PROVE Cardinality(files[a]) <= 1
    BY DEF OneFilePerAttachment
  <2>1. files[a] = {} \/ files[a] = {1}
    BY DEF ArchiveInv, Typed, GoogleTyped
  <2>2. Cardinality({}) = 0 /\ Cardinality({1}) = 1
    BY FS_EmptySet, FS_Singleton
  <2> QED
    BY <2>1, <2>2
<1> QED
  BY ArchiveInductive, <1>1, PTL

\* A complete attachment arrived as it was sent, also if an execution that lost its lock
\* goes on uploading.
THEOREM CompleteMeansIntact == Spec => []CompleteIsIntact
<1>1. ArchiveInv => CompleteIsIntact
  BY DEF ArchiveInv, IntactInv, CompleteIsIntact
<1> QED
  BY ArchiveInductive, <1>1, PTL

\* An attachment whose transfer is not settled has exactly the job that its row names.
THEOREM UnsettledKeepsJob == Spec => []UnsettledHasJob
<1>1. ArchiveInv => UnsettledHasJob
  <2> SUFFICES ASSUME ArchiveInv, NEW a \in Attachments
               PROVE  /\ Cardinality(LiveJobs(a)) <= 1
                      /\ status[a] \in {"pending", "transferring"} /\ a \notin overlapped
                         => queueId[a] \in LiveJobs(a)
    BY DEF UnsettledHasJob
  <2>1. \A r \in Rows : jobs[r].attachment = a => queueId[a] = r
    BY ArchiveAssumption DEF ArchiveInv, JobInv, NoJob, Job
  <2>2. LiveJobs(a) = {} \/ LiveJobs(a) = {queueId[a]}
    BY <2>1 DEF LiveJobs
  <2>3. Cardinality(LiveJobs(a)) <= 1
    <3>1. Cardinality({}) = 0 /\ Cardinality({queueId[a]}) = 1
      BY FS_EmptySet, FS_Singleton
    <3> QED
      BY <2>2, <3>1
  <2>4. status[a] \in {"pending", "transferring"} /\ a \notin overlapped
            => queueId[a] \in LiveJobs(a)
    BY DEF ArchiveInv, JobInv, LiveJobs
  <2> QED
    BY <2>3, <2>4
<1> QED
  BY ArchiveInductive, <1>1, PTL

\* No other step changes a drive that is ready to one that needs attention.
LEMMA OnlyMarkAttention ==
    [Next]_vars /\ drive = "ready" /\ drive' = "attention" => \E w \in Workers : MarkAttention(w)
<1> SUFFICES ASSUME [Next]_vars, drive = "ready", drive' = "attention",
                    \A w \in Workers : ~MarkAttention(w)
             PROVE  FALSE
  OBVIOUS
<1> USE DEF driveVars
<1>1. ~Drive
  BY SMTT(90) DEF Drive, BeginComplete, WriteToken, MarkPending, RootFolders, MarkReady,
     AbandonComplete, Disconnect, Revoke, Enroll, Spoil, Repair
<1>2. \A a \in Attachments : ~(Import(a) \/ Replay(a) \/ Bin(a) \/ Expire(a))
  BY SMTT(90) DEF Import, Replay, Bin, Expire
<1>3. \A r \in Rows : ~Requeue(r) /\ \A w \in Workers : ~(Claim(w, r) \/ Recover(w, r))
  BY SMTT(90) DEF Requeue, Claim, Recover
<1>4. \A w \in Workers : ~(Begin(w) \/ Fails(w) \/ LoseLock(w) \/ Crash(w) \/ Open(w)
                           \/ Download(w) \/ StoreUrl(w) \/ Denied(w) \/ Disconnected(w)
                           \/ ReportSuccess(w) \/ ReportFailure(w))
  BY SMTT(90) DEF Begin, Fails, LoseLock, Crash, Open, Download, StoreUrl, Denied, Disconnected,
     ReportSuccess, ReportFailure
<1>5. \A w \in Workers : ~(FindFolder(w) \/ MakeFolder(w) \/ Inspect(w) \/ BeginUpload(w)
                           \/ Upload(w) \/ Verify(w))
  BY SMTT(90) DEF Call, FindFolder, MakeFolder, Inspect, BeginUpload, Upload, Verify
<1>6. \A w \in Workers : ~(CheckDrive(w) \/ MarkTransferring(w) \/ ReadChat(w)
                           \/ MarkFolders(w) \/ NameFile(w) \/ StoreChecksum(w)
                           \/ RecheckDrive(w) \/ ForgetUrl(w) \/ MarkComplete(w)
                           \/ RecordFailure(w))
  BY SMTT(90) DEF Statement, CheckDrive, MarkTransferring, ReadChat, MarkFolders, NameFile,
     StoreChecksum, RecheckDrive, ForgetUrl, MarkComplete, RecordFailure
<1>7. \A w \in Workers : ~Transfer(w)
  BY <1>4, <1>5, <1>6, Zenon DEF Transfer
<1>8. Next
  BY DEF vars
<1> QED
  BY <1>1, <1>2, <1>3, <1>4, <1>7, <1>8, Zenon DEF Next

\* A drive that is ready is marked for its owner's attention only with one of the causes
\* of AttentionHasCause.
THEOREM AttentionNeedsCause == Spec => AttentionHasCause
<1> DEFINE Cause == drive = "ready" /\ drive' = "attention"
                      => \/ trouble
                         \/ \E w \in Workers : /\ pc[w] = "attention" /\ pc'[w] # "attention"
                                               /\ w \in late \/ doing[w] \in binned
<1>1. ArchiveInv /\ [Next]_vars => [Cause]_vars
  <2> SUFFICES ASSUME ArchiveInv, [Next]_vars, drive = "ready", drive' = "attention"
               PROVE  Cause
    OBVIOUS
  <2>1. PICK w \in Workers : MarkAttention(w)
    BY OnlyMarkAttention
  <2>2. /\ pc[w] = "attention" /\ pc'[w] = "returned"
        /\ trouble \/ w \in late \/ doing[w] \in binned
    BY <2>1 DEF MarkAttention, At, Goto, ArchiveInv, Typed, WorkersTyped, AttentionInv, Marks
  <2> QED
    BY <2>2
<1> QED
  BY ArchiveInductive, <1>1, PTL DEF AttentionHasCause, Spec

-----------------------------------------------------------------------------
(* The promise to the business *)

\* Labels of a transfer once the attachment is marked as transferring.
Marked == Sending \union {"chat", "folder", "folderMissing", "folderMade", "naming"}

\* Who has the lock is in the middle of a transfer of what is neither unknown nor complete,
\* and nobody else has changed its status since it was marked.
HolderInv ==
    \A a \in Attachments, w \in Workers : lock[a] = w =>
        /\ pc[w] \in InTransfer /\ doing[w] = a
        /\ status[a] \notin {"none", "complete"}
        /\ pc[w] \in Marked => status[a] = "transferring"

\* Nobody has a job or works for media that is not offered or was not imported.
MissingInv ==
    /\ \A w \in Workers : pc[w] # "idle" => status[doing[w]] # "none" /\ doing[w] \notin missing
    /\ \A a \in missing : status[a] = "failed"
    /\ \A r \in Rows : jobs[r].attachment \notin missing

KeepInv == HolderInv /\ MissingInv

\* The steps in which an execution only goes on, gives up or notices that it lost its lock.
GoesOn(w) ==
    \/ CheckDrive(w) \/ Open(w) \/ ReadChat(w) \/ FindFolder(w) \/ MakeFolder(w)
    \/ MarkFolders(w) \/ NameFile(w) \/ Inspect(w) \/ Download(w) \/ StoreChecksum(w)
    \/ RecheckDrive(w) \/ BeginUpload(w) \/ StoreUrl(w) \/ Upload(w) \/ ForgetUrl(w)
    \/ Verify(w) \/ Denied(w) \/ Fails(w)

\* They leave the status, the job and the lock of the attachment alone.
LEMMA GoesOnKeeps ==
    ASSUME Typed, NEW w \in Workers, GoesOn(w)
    PROVE  /\ pc' = [pc EXCEPT ![w] = pc'[w]]
           /\ pc[w] \in InTransfer /\ pc'[w] \in InTransfer
           /\ pc'[w] \in Marked => pc[w] \in Marked
           /\ UNCHANGED <<status, missing, jobs, lock, doing>>
<1> USE DEF columns, queueVars, workVars, readVars, driveVars, googleVars, historyVars,
        At, Goto, Raise, Typed, WorkersTyped, InTransfer, Statements, Calls, Recording, Marked,
        Sending
<1> DEFINE Keeps == /\ pc' = [pc EXCEPT ![w] = pc'[w]]
                    /\ pc[w] \in InTransfer /\ pc'[w] \in InTransfer
                    /\ pc'[w] \in Marked => pc[w] \in Marked
                    /\ UNCHANGED <<status, missing, jobs, lock, doing>>
<1>1. CASE CheckDrive(w) \/ ReadChat(w) \/ MarkFolders(w) \/ NameFile(w)
  BY <1>1 DEF CheckDrive, ReadChat, MarkFolders, NameFile, Statement
<1>2. CASE StoreChecksum(w) \/ RecheckDrive(w) \/ ForgetUrl(w)
  BY <1>2 DEF StoreChecksum, RecheckDrive, ForgetUrl, Statement
<1>3. CASE FindFolder(w) \/ MakeFolder(w) \/ Inspect(w)
  BY <1>3 DEF FindFolder, MakeFolder, Inspect, Call
<1>4. CASE BeginUpload(w) \/ Upload(w) \/ Verify(w)
  BY <1>4 DEF BeginUpload, Upload, Verify, Call
<1>5. CASE Open(w) \/ Download(w) \/ Denied(w)
  BY <1>5 DEF Open, Download, Denied
<1>6. CASE StoreUrl(w)
  BY <1>6 DEF StoreUrl
<1>7. CASE Fails(w)
  BY <1>7 DEF Fails
<1> QED
  BY <1>1, <1>2, <1>3, <1>4, <1>5, <1>6, <1>7 DEF GoesOn

\* Nobody else writes what the holder of a lock has marked.
LEMMA HolderStep == Typed /\ JobInv /\ KeepInv /\ Typed' /\ [Next]_vars => HolderInv'
<1> SUFFICES ASSUME Typed, JobInv, KeepInv, Typed', [Next]_vars PROVE HolderInv'
  OBVIOUS
<1> USE ArchiveAssumption DEF Typed, columns, queueVars, workVars, At, Goto, vars
<1> USE DEF ColumnsTyped, WorkersTyped, KeepInv, HolderInv
<1>1. CASE Drive
  BY <1>1, DriveKeeps
<1>2. ASSUME NEW a \in Attachments, Import(a) \/ Replay(a)
      PROVE  HolderInv'
  <2>1. /\ UNCHANGED <<pc, doing, lock>>
        /\ status[a] \in {"none", "failed"}
        /\ status' \in {[status EXCEPT ![a] = s] : s \in {"pending", "failed"}}
    BY <1>2 DEF Import, Replay
  <2>2. \A b \in Attachments : b # a => status'[b] = status[b]
    BY <2>1
  <2>3. status'[a] \in {"pending", "failed"}
    BY <2>1
  <2>4. \A w \in Workers : lock[a] = w => pc[w] \notin Marked
    BY <2>1
  <2> QED
    BY <2>1, <2>2, <2>3, <2>4
<1>3. ASSUME NEW a \in Attachments, Bin(a) \/ Expire(a) PROVE HolderInv'
  BY <1>3 DEF Bin, Expire
<1>4. ASSUME NEW r \in Rows, Requeue(r) PROVE HolderInv'
  BY <1>4 DEF Requeue
<1>5. ASSUME NEW w \in Workers, NEW r \in Rows, Claim(w, r) \/ Recover(w, r) PROVE HolderInv'
  <2>1. /\ pc[w] = "idle" /\ UNCHANGED <<status, lock>>
        /\ \A v \in Workers : v # w => pc'[v] = pc[v] /\ doing'[v] = doing[v]
    BY <1>5 DEF Claim, Recover, Start
  <2>2. \A a \in Attachments : lock[a] # w
    BY <2>1 DEF InTransfer, Statements, Calls, Recording
  <2> QED
    BY <2>1, <2>2
<1>6. ASSUME NEW w \in Workers, Begin(w) PROVE HolderInv'
  <2> DEFINE a == doing[w]
  <2>1. a \in Attachments /\ status[a] # "none" /\ UNCHANGED <<status, doing>>
    BY <1>6 DEF Begin, MissingInv
  <2>2. \A b \in Attachments : lock[b] # w
    BY <1>6 DEF Begin, InTransfer, Statements, Calls, Recording
  <2>3. CASE status[a] = "complete"
    BY <1>6, <2>1, <2>2, <2>3 DEF Begin
  <2>4. CASE status[a] # "complete"
    <3>1. lock' = [lock EXCEPT ![a] = w] /\ pc' = [pc EXCEPT ![w] = "checking"]
      BY <1>6, <2>4 DEF Begin
    <3> QED
      BY <2>1, <2>2, <2>4, <3>1
         DEF InTransfer, Statements, Calls, Recording, Marked, Sending
  <2> QED
    BY <2>3, <2>4
<1>7. ASSUME NEW w \in Workers, GoesOn(w) PROVE HolderInv'
  BY <1>7, GoesOnKeeps
<1>8. ASSUME NEW w \in Workers, MarkTransferring(w) PROVE HolderInv'
  <2>1. /\ doing[w] \in Attachments /\ lock[doing[w]] = w /\ UNCHANGED <<lock, doing>>
        /\ status' = [status EXCEPT ![doing[w]] = "transferring"]
        /\ pc' = [pc EXCEPT ![w] = "chat"]
    BY <1>8 DEF MarkTransferring, Statement, Connected
  <2> QED
    BY <2>1 DEF InTransfer, Statements, Calls, Recording
<1>9. ASSUME NEW w \in Workers, MarkComplete(w) \/ RecordFailure(w) \/ MarkAttention(w)
      PROVE  HolderInv'
  <2> DEFINE a == doing[w]
  <2>1. a \in Attachments /\ lock[a] = w /\ doing' = doing
    BY <1>9 DEF MarkComplete, RecordFailure, MarkAttention, Statement, Connected
  <2>2. \A b \in Attachments : b # a => lock[b] # w
    BY <2>1
  <2>3. /\ \A v \in Workers : v # w => pc'[v] = pc[v]
        /\ \A b \in Attachments : b # a => lock'[b] = lock[b] /\ status'[b] = status[b]
    BY <1>9, <2>1 DEF MarkComplete, RecordFailure, MarkAttention, Statement, Unlock
  <2>4. lock'[a] = Nobody
          \/ (lock'[a] = w /\ pc'[w] = "attention" /\ status'[a] = "failed")
    BY <1>9, <2>1 DEF MarkComplete, RecordFailure, MarkAttention, Statement, Unlock
  <2> QED
    BY <2>1, <2>2, <2>3, <2>4
       DEF InTransfer, Statements, Calls, Recording, Marked, Sending
<1>10. ASSUME NEW w \in Workers, Disconnected(w) PROVE HolderInv'
  <2>1. \A a \in Attachments : lock[a] # w
    BY <1>10 DEF Disconnected, Connected, Statements, Recording
  <2> QED
    BY <1>10, <2>1 DEF Disconnected
<1>11. ASSUME NEW w \in Workers, LoseLock(w) PROVE HolderInv'
  BY <1>11 DEF LoseLock, Unlock
<1>12. ASSUME NEW w \in Workers, ReportSuccess(w) \/ ReportFailure(w) \/ Crash(w)
       PROVE  HolderInv'
  <2>1. /\ status' = status
        /\ \A v \in Workers : v # w => pc'[v] = pc[v] /\ doing'[v] = doing[v]
    BY <1>12 DEF ReportSuccess, ReportFailure, Crash, Leave
  <2>2. /\ \A a \in Attachments : lock'[a] = lock[a] \/ lock'[a] = Nobody
        /\ \A a \in Attachments : lock'[a] # w
    <3>1. CASE ReportSuccess(w) \/ ReportFailure(w)
      BY <3>1 DEF ReportSuccess, ReportFailure, InTransfer, Statements, Calls, Recording
    <3>2. CASE Crash(w)
      BY <3>2 DEF Crash, Connected, Unlock
    <3> QED
      BY <1>12, <3>1, <3>2
  <2> QED
    BY <2>1, <2>2
<1>13. CASE UNCHANGED vars
  BY <1>13
<1> QED
  BY <1>1, <1>2, <1>3, <1>4, <1>5, <1>6, <1>7, <1>8, <1>9, <1>10, <1>11, <1>12, <1>13, ZenonT(60)
     DEF Next, Transfer, GoesOn

\* No execution and no job exists for media that was not offered or not imported.
LEMMA MissingStep == Typed /\ JobInv /\ KeepInv /\ Typed' /\ [Next]_vars => MissingInv'
<1> SUFFICES ASSUME Typed, JobInv, KeepInv, Typed', [Next]_vars PROVE MissingInv'
  OBVIOUS
<1> USE ArchiveAssumption DEF Typed, columns, queueVars, workVars, At, Goto, vars
<1> USE DEF ColumnsTyped, QueueTyped, WorkersTyped, KeepInv, MissingInv
<1>1. CASE Drive
  BY <1>1, DriveKeeps
<1>2. NoJob.attachment = NoAttachment /\ NoJob.status = "none"
  BY DEF NoJob, Job
<1>3. \A r \in Rows : jobs[r].attachment \in Attachments
          => jobs[r].status # "none" /\ status[jobs[r].attachment] # "none"
  BY <1>2 DEF JobInv
<1>4. ASSUME NEW a \in Attachments, a \notin missing, status[a] # "none",
             \E s \in {"pending", "transferring", "complete", "failed"} :
                 status' = [status EXCEPT ![a] = s],
             UNCHANGED <<missing, pc, doing>>,
             \A r \in Rows : jobs'[r].attachment \in {jobs[r].attachment, a}
      PROVE  MissingInv'
  <2>1. /\ status'[a] # "none"
        /\ \A b \in Attachments : b # a => status'[b] = status[b]
    BY <1>4
  <2> QED
    BY <1>4, <2>1
<1>5. ASSUME NEW a \in Attachments, Import(a) PROVE MissingInv'
  <2>1. /\ status[a] = "none" /\ a \notin missing /\ UNCHANGED <<pc, doing>>
        /\ \A r \in Rows : jobs[r].attachment # a
        /\ \A w \in Workers : pc[w] # "idle" => doing[w] # a
    BY <1>3, <1>5 DEF Import
  <2>2. CASE /\ status' = [status EXCEPT ![a] = "failed"] /\ missing' = missing \union {a}
             /\ UNCHANGED jobs
    BY <2>1, <2>2
  <2>3. ASSUME NEW r \in Rows, jobs' = [jobs EXCEPT ![r] = Job(a, "queued", 0)],
               status' = [status EXCEPT ![a] = "pending"], UNCHANGED missing
        PROVE  MissingInv'
    <3>1. Job(a, "queued", 0).attachment = a
      BY DEF Job
    <3>2. jobs'[r] = Job(a, "queued", 0) /\ \A s \in Rows : s # r => jobs'[s] = jobs[s]
      BY <2>3
    <3>3. \A s \in Rows : jobs'[s].attachment \in {jobs[s].attachment, a}
      BY <3>1, <3>2
    <3>4. status'[a] # "none" /\ \A b \in Attachments : b # a => status'[b] = status[b]
      BY <2>3
    <3> QED
      BY <2>1, <2>3, <3>3, <3>4
  <2> QED
    BY <1>5, <2>2, <2>3 DEF Import
<1>6. ASSUME NEW a \in Attachments, Replay(a) PROVE MissingInv'
  <2>1. /\ a \notin missing /\ status[a] # "none" /\ UNCHANGED <<missing, pc, doing>>
        /\ status' = [status EXCEPT ![a] = "pending"]
    BY <1>6 DEF Replay
  <2>2. Job(a, "queued", 0).attachment = a
    BY DEF Job
  <2>3. jobs' = jobs \/ \E r \in Rows : jobs' = [jobs EXCEPT ![r] = Job(a, "queued", 0)]
    BY <1>6 DEF Replay, LiveJobs
  <2>4. \A r \in Rows : jobs'[r].attachment \in {jobs[r].attachment, a}
    BY <2>2, <2>3
  <2> QED
    BY <1>4, <2>1, <2>4
<1>7. ASSUME NEW a \in Attachments, Bin(a) \/ Expire(a) PROVE MissingInv'
  BY <1>7 DEF Bin, Expire
<1>8. ASSUME NEW r \in Rows, Requeue(r) PROVE MissingInv'
  <2>1. /\ UNCHANGED <<status, missing, pc, doing>>
        /\ \A s \in Rows : jobs'[s].attachment = jobs[s].attachment
    BY <1>8 DEF Requeue, Job
  <2> QED
    BY <2>1
<1>9. ASSUME NEW w \in Workers, NEW r \in Rows, Claim(w, r) \/ Recover(w, r)
      PROVE  MissingInv'
  <2>1. /\ jobs[r].status # "none" /\ UNCHANGED <<status, missing>>
        /\ doing' = [doing EXCEPT ![w] = jobs[r].attachment]
        /\ \A v \in Workers : v # w => pc'[v] = pc[v]
    BY <1>9 DEF Claim, Recover, Start
  <2>2. \A s \in Rows : jobs'[s].attachment = jobs[s].attachment
    <3> DEFINE picked == [jobs[r] EXCEPT !.status = "picked"]
    <3>1. jobs' = [jobs EXCEPT ![r] = picked]
      BY <1>9 DEF Claim, Recover, Start
    <3>2. picked.attachment = jobs[r].attachment
      BY DEF JobRows
    <3> HIDE DEF picked
    <3> QED
      BY <3>1, <3>2
  <2>3. status[jobs[r].attachment] # "none" /\ jobs[r].attachment \notin missing
    BY <2>1 DEF JobInv
  <2>4. jobs[r].attachment \in Attachments
    BY <2>1
  <2> QED
    BY <2>1, <2>2, <2>3, <2>4
<1>10. ASSUME NEW w \in Workers, GoesOn(w) PROVE MissingInv'
  <2>1. /\ UNCHANGED <<status, missing, jobs, doing>> /\ pc[w] # "idle"
        /\ \A v \in Workers : v # w => pc'[v] = pc[v]
    BY <1>10, GoesOnKeeps DEF InTransfer, Statements, Calls, Recording
  <2> QED
    BY <2>1
<1>11. ASSUME NEW w \in Workers, Begin(w) \/ MarkAttention(w) \/ Disconnected(w) \/ LoseLock(w)
       PROVE  MissingInv'
  <2>1. /\ UNCHANGED <<status, missing, jobs, doing>> /\ pc[w] # "idle"
        /\ \A v \in Workers : v # w => pc'[v] = pc[v]
    BY <1>11 DEF Begin, MarkAttention, Disconnected, LoseLock, Connected, Statements, Recording
  <2> QED
    BY <2>1
<1>12. ASSUME NEW w \in Workers, MarkTransferring(w) \/ MarkComplete(w) \/ RecordFailure(w)
       PROVE  MissingInv'
  <2> DEFINE a == doing[w]
  <2>1. pc[w] # "idle" /\ a \in Attachments /\ a \notin missing /\ status[a] # "none"
    BY <1>12 DEF MarkTransferring, MarkComplete, RecordFailure, Statement
  <2>2. /\ UNCHANGED <<missing, doing, jobs>> /\ \A v \in Workers : v # w => pc'[v] = pc[v]
        /\ \E s \in {"transferring", "complete", "failed"} :
               status' = [status EXCEPT ![a] = s]
    BY <1>12 DEF MarkTransferring, MarkComplete, RecordFailure, Statement
  <2>3. status'[a] # "none" /\ \A b \in Attachments : b # a => status'[b] = status[b]
    BY <2>1, <2>2
  <2> QED
    BY <2>1, <2>2, <2>3
<1>13. ASSUME NEW w \in Workers, ReportSuccess(w) \/ ReportFailure(w) \/ Crash(w)
       PROVE  MissingInv'
  <2>1. /\ UNCHANGED <<status, missing>> /\ pc' = [pc EXCEPT ![w] = "idle"]
        /\ \A v \in Workers : v # w => doing'[v] = doing[v]
    BY <1>13 DEF ReportSuccess, ReportFailure, Crash, Leave
  <2>2. \A s \in Rows : jobs'[s].attachment \in {jobs[s].attachment, NoAttachment}
    <3>1. CASE ReportSuccess(w)
      <4>1. jobs' = [jobs EXCEPT ![jobOf[w]] = NoJob]
        BY <3>1 DEF ReportSuccess
      <4> QED
        BY <1>2, <4>1
    <3>2. CASE ReportFailure(w)
      <4> DEFINE r == jobOf[w]
                 j == jobs[r]
                 again == Job(j.attachment, "queued", j.attempts + 1)
                 held == [j EXCEPT !.status = "failed"]
      <4>1. again.attachment = j.attachment
        BY DEF Job
      <4>2. r \in Rows
        BY <3>2 DEF ReportFailure
      <4>3. held.attachment = j.attachment
        BY <4>2 DEF JobRows
      <4>4. jobs' = jobs \/ jobs' = [jobs EXCEPT ![r] = held] \/ jobs' = [jobs EXCEPT ![r] = again]
        BY <3>2 DEF ReportFailure
      <4> HIDE DEF again, held
      <4> QED
        BY <4>1, <4>2, <4>3, <4>4
    <3>3. CASE Crash(w)
      BY <3>3 DEF Crash
    <3> QED
      BY <1>13, <3>1, <3>2, <3>3
  <2> QED
    BY <2>1, <2>2
<1>14. CASE UNCHANGED vars
  BY <1>14
<1> QED
  BY <1>1, <1>5, <1>6, <1>7, <1>8, <1>9, <1>10, <1>11, <1>12, <1>13, <1>14, ZenonT(60)
     DEF Next, Transfer, GoesOn

LEMMA KeepInit == Init => KeepInv
BY ArchiveAssumption DEF Init, KeepInv, HolderInv, MissingInv, NoJob, Job

-----------------------------------------------------------------------------
(* The refinement *)

\* What the business sees after one attachment was written.
LEMMA ShownOfOne ==
    ASSUME Typed, NEW a \in Attachments, NEW s,
           \A b \in Attachments : b # a => status'[b] = status[b] /\ (b \in missing' <=> b \in missing),
           s = IF a \in missing' THEN "unavailable"
               ELSE IF status'[a] \in {"pending", "transferring"} THEN "owed" ELSE status'[a]
    PROVE  Shown' = [Shown EXCEPT ![a] = s]
BY DEF Shown

\* The steps that write neither the status nor the file of an attachment.
LEMMA MediaStutters ==
    UNCHANGED <<status, missing, content>> => UNCHANGED Media!vars
BY DEF Media!vars, Shown

\* The import, a retry and what an execution records.
LEMMA StatusSteps ==
    ASSUME ArchiveInv, KeepInv, Typed', NEW a \in Attachments,
           \/ Import(a) \/ Replay(a)
           \/ \E w \in Workers :
                  /\ doing[w] = a
                  /\ MarkTransferring(w) \/ MarkComplete(w) \/ RecordFailure(w)
    PROVE  [Media!Next]_Media!vars
<1> USE ArchiveAssumption DEF ArchiveInv, Typed, ColumnsTyped, WorkersTyped, KeepInv
<1>1. a \notin missing /\ Shown[a] \in {"none", "owed", "failed", "complete"}
  <2>1. a \notin missing
    BY DEF MissingInv, Import, Replay, MarkTransferring, MarkComplete, RecordFailure, Statement,
       At
  <2> QED
    BY <2>1 DEF Shown
<1>2. content' = content
  BY DEF Import, Replay, MarkTransferring, MarkComplete, RecordFailure, Statement, googleVars
<1>3. \A from, to : Shown[a] = from /\ Shown' = [Shown EXCEPT ![a] = to] => Media!Move(a, from, to)
  BY <1>2 DEF Media!Move
<1> DEFINE Becomes(s) == status' = [status EXCEPT ![a] = s] /\ missing' = missing
<1>4. ASSUME NEW s \in {"pending", "transferring"}, Becomes(s)
      PROVE  Shown' = [Shown EXCEPT ![a] = "owed"]
  BY <1>1, <1>4, ShownOfOne
<1>5. ASSUME NEW s \in {"failed", "complete"}, Becomes(s)
      PROVE  Shown' = [Shown EXCEPT ![a] = s]
  BY <1>1, <1>5, ShownOfOne
<1>6. CASE Import(a)
  <2>1. Shown[a] = "none"
    BY <1>1, <1>6 DEF Import, Shown
  <2>2. CASE Becomes("pending")
    BY <1>3, <1>4, <2>1, <2>2 DEF Media!Next, Media!Offer
  <2>3. CASE status' = [status EXCEPT ![a] = "failed"] /\ missing' = missing \union {a}
    <3>1. Shown' = [Shown EXCEPT ![a] = "unavailable"]
      BY <2>3, ShownOfOne
    <3> QED
      BY <1>3, <2>1, <3>1 DEF Media!Next, Media!Offer
  <2> QED
    BY <1>6, <2>2, <2>3 DEF Import
<1>7. CASE Replay(a)
  <2>1. Shown[a] = "failed" /\ Becomes("pending")
    BY <1>1, <1>7 DEF Replay, Shown
  <2> QED
    BY <1>3, <1>4, <2>1 DEF Media!Next, Media!Retry
<1>8. ASSUME NEW w \in Workers, doing[w] = a, MarkTransferring(w)
      PROVE  [Media!Next]_Media!vars
  <2>1. Becomes("transferring") /\ status[a] \notin {"none", "complete"}
    BY <1>8 DEF MarkTransferring, Statement, Connected, HolderInv
  <2>2. Shown[a] \in {"owed", "failed"}
    BY <1>1, <2>1 DEF Shown
  <2>3. Shown' = [Shown EXCEPT ![a] = "owed"]
    BY <1>4, <2>1
  <2>4. CASE Shown[a] = "failed"
    BY <1>3, <2>3, <2>4 DEF Media!Next, Media!Retry
  <2>5. CASE Shown[a] = "owed"
    <3>1. Shown' = Shown
      BY <2>3, <2>5 DEF Shown
    <3> QED
      BY <1>2, <3>1 DEF Media!vars
  <2> QED
    BY <2>2, <2>4, <2>5
<1>9. ASSUME NEW w \in Workers, doing[w] = a, MarkComplete(w)
      PROVE  [Media!Next]_Media!vars
  <2>1. Becomes("complete") /\ status[a] = "transferring" /\ content[a] = "good"
    BY <1>9 DEF MarkComplete, Statement, At, Connected, HolderInv, Marked, Sending, IntactInv
  <2>2. Shown[a] = "owed" /\ Shown' = [Shown EXCEPT ![a] = "complete"]
    BY <1>1, <1>5, <2>1 DEF Shown
  <2> QED
    BY <1>3, <2>1, <2>2 DEF Media!Next, Media!Complete
<1>10. ASSUME NEW w \in Workers, doing[w] = a, RecordFailure(w)
       PROVE  [Media!Next]_Media!vars
  <2>1. Becomes("failed") /\ status[a] \notin {"none", "complete"}
    BY <1>10 DEF RecordFailure, Statement, Connected, HolderInv
  <2>2. Shown[a] \in {"owed", "failed"}
    BY <1>1, <2>1 DEF Shown
  <2>3. Shown' = [Shown EXCEPT ![a] = "failed"]
    BY <1>5, <2>1
  <2>4. CASE Shown[a] = "owed"
    BY <1>3, <2>3, <2>4 DEF Media!Next, Media!Fail
  <2>5. CASE Shown[a] = "failed"
    <3>1. Shown' = Shown
      BY <2>3, <2>5 DEF Shown
    <3> QED
      BY <1>2, <3>1 DEF Media!vars
  <2> QED
    BY <2>2, <2>4, <2>5
<1> QED
  BY <1>6, <1>7, <1>8, <1>9, <1>10

\* An upload writes a file that has nothing yet, of an attachment that is not complete.
LEMMA UploadStep ==
    ASSUME ArchiveInv, KeepInv, Typed', NEW w \in Workers, Upload(w)
    PROVE  [Media!Next]_Media!vars
<1> USE DEF ArchiveInv, Typed, ColumnsTyped, WorkersTyped, GoogleTyped, KeepInv
<1> DEFINE a == doing[w]
<1>1. /\ a \in Attachments /\ a \notin missing /\ status[a] # "none"
      /\ UNCHANGED <<status, missing>>
  BY DEF Upload, Call, At, MissingInv, columns
<1>2. Shown' = Shown /\ (Shown[a] \in {"owed", "failed"} \/ status[a] = "complete")
  BY <1>1 DEF Shown
<1>3. CASE content' = content
  BY <1>2, <1>3 DEF Media!vars
<1>4. CASE session[a] = "open" /\ \E bytes \in {"good", "bad"} : content' = [content EXCEPT ![a] = bytes]
  <2>1. content[a] = "none" /\ status[a] # "complete"
    BY <1>1, <1>4 DEF UrlInv, SessionInv, IntactInv
  <2> QED
    BY <1>1, <1>2, <1>4, <2>1 DEF Media!Next, Media!Copy
<1> QED
  BY <1>3, <1>4 DEF Upload

\* Every step of the archive keeps the promise or is one of its steps.
LEMMA MediaStep == ArchiveInv /\ KeepInv /\ Typed' /\ [Next]_vars => [Media!Next]_Media!vars
<1> SUFFICES ASSUME ArchiveInv, KeepInv, Typed', [Next]_vars PROVE [Media!Next]_Media!vars
  OBVIOUS
<1> USE DEF columns, queueVars, workVars, readVars, driveVars, googleVars, historyVars
<1> DEFINE Same == UNCHANGED <<status, missing, content>>
<1>1. Drive => Same
  BY DriveKeeps
<1>2. ASSUME NEW a \in Attachments, Import(a) \/ Replay(a) PROVE [Media!Next]_Media!vars
  BY <1>2, StatusSteps
<1>3. \A a \in Attachments : Bin(a) \/ Expire(a) => Same
  BY DEF Bin, Expire
<1>4. \A r \in Rows : Requeue(r) => Same
  BY DEF Requeue
<1>5. \A r \in Rows, w \in Workers : Claim(w, r) \/ Recover(w, r) => Same
  BY DEF Claim, Recover
<1>6. ASSUME NEW w \in Workers, Upload(w) PROVE [Media!Next]_Media!vars
  BY <1>6, UploadStep
<1>7. ASSUME NEW w \in Workers, MarkTransferring(w) \/ MarkComplete(w) \/ RecordFailure(w)
      PROVE  [Media!Next]_Media!vars
  <2>1. doing[w] \in Attachments
    BY <1>7 DEF ArchiveInv, Typed, WorkersTyped, MarkTransferring, MarkComplete, RecordFailure,
       Statement, At
  <2> QED
    BY <1>7, <2>1, StatusSteps
<1>8. \A w \in Workers : GoesOn(w) => Upload(w) \/ Same
  <2> SUFFICES ASSUME NEW w \in Workers, GoesOn(w), ~Upload(w) PROVE Same
    OBVIOUS
  <2>1. UNCHANGED <<status, missing>>
    BY GoesOnKeeps DEF ArchiveInv
  <2>2. CASE CheckDrive(w) \/ ReadChat(w) \/ MarkFolders(w) \/ NameFile(w) \/ StoreChecksum(w)
             \/ RecheckDrive(w) \/ ForgetUrl(w)
    BY <2>1, <2>2 DEF CheckDrive, ReadChat, MarkFolders, NameFile, StoreChecksum, RecheckDrive,
       ForgetUrl, Statement
  <2>3. CASE Open(w) \/ FindFolder(w) \/ MakeFolder(w) \/ Inspect(w) \/ Download(w)
             \/ BeginUpload(w) \/ StoreUrl(w) \/ Verify(w) \/ Denied(w) \/ Fails(w)
    BY <2>1, <2>3 DEF Open, FindFolder, MakeFolder, Inspect, Download, BeginUpload, StoreUrl,
       Verify, Denied, Fails
  <2> QED
    BY <2>2, <2>3 DEF GoesOn
<1>9. \A w \in Workers : Begin(w) \/ MarkAttention(w) \/ Disconnected(w) \/ LoseLock(w) => Same
  BY DEF Begin, MarkAttention, Disconnected, LoseLock
<1>10. \A w \in Workers : ReportSuccess(w) \/ ReportFailure(w) \/ Crash(w) => Same
  BY DEF ReportSuccess, ReportFailure, Crash
<1>11. UNCHANGED vars => Same
  BY DEF vars
<1>12. Same => [Media!Next]_Media!vars
  BY MediaStutters
<1> HIDE DEF Same
<1> QED
  BY <1>1, <1>2, <1>3, <1>4, <1>5, <1>6, <1>7, <1>8, <1>9, <1>10, <1>11, <1>12, ZenonT(60)
     DEF Next, Transfer, GoesOn

\* The archive keeps its promise to the business whatever its executions go through: each
\* attachment is copied at most once, complete is intact and final, media that is not
\* offered is never tried.
THEOREM RefinesArchivedMedia == Spec => ImplementsArchivedMedia
<1>1. Init => KeepInv /\ Media!Init
  <2>1. Init => Media!Init
    BY DEF Init, Media!Init, Shown
  <2> QED
    BY <2>1, KeepInit
<1>2. ArchiveInv /\ ArchiveInv' /\ KeepInv /\ [Next]_vars => KeepInv'
  BY HolderStep, MissingStep DEF ArchiveInv, KeepInv
<1>3. ArchiveInv /\ ArchiveInv' /\ KeepInv /\ [Next]_vars => [Media!Next]_Media!vars
  BY MediaStep DEF ArchiveInv
<1> QED
  BY ArchiveInductive, <1>1, <1>2, <1>3, PTL DEF ImplementsArchivedMedia, Spec, Media!Spec
=============================================================================
