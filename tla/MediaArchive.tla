---------------------------- MODULE MediaArchive ----------------------------
(***************************************************************************)
(* Media of WhatsApp chats copied to a business's Google Drive.            *)
(*                                                                         *)
(* app/media_archive.py stores an attachment with a queue job in the       *)
(* transaction that imports its message; workers on all replicas transfer  *)
(* it in steps that are committed one by one, so that a retry resumes      *)
(* where the last attempt stopped: the folder, the file's id, its checksum *)
(* and the upload session are stored before or after the call to Google    *)
(* that uses them.  The module models one session with its drive, one      *)
(* connection and one chat.                                                *)
(*                                                                         *)
(* Statements of a transfer run on the connection that holds its advisory  *)
(* lock: an execution that lost the lock can call Google but not write.    *)
(***************************************************************************)
EXTENDS Naturals, FiniteSets

CONSTANTS
    Attachments,  \* attachments of the chat
    Workers,      \* executions that the replicas can run at once
    Rows,         \* pgqueuer rows; a free one stands for the next id
    Nobody,       \* the advisory lock of an attachment is free
    NoAttachment, \* an idle worker's attachment
    NoRow,        \* queue_id of an attachment without a job
    MaxRetries,   \* DatabaseRetryEntrypointExecutor(max_attempts=...)
    MaxFaults     \* bound on failures, crashes and what a user does to the drive

ASSUME ArchiveAssumption ==
    /\ Nobody \notin Workers
    /\ NoAttachment \notin Attachments
    /\ NoRow \notin Rows
    /\ MaxRetries \in Nat
    /\ MaxFaults \in Nat

VARIABLES
    status,       \* message_attachments.status, "none" before the import
    missing,      \* attachments whose media_id is 'unavailable'
    fileId,       \* drive_file_id, 0 for NULL
    checksum,     \* attachments whose checksum is stored
    url,          \* attachments whose upload_url is set
    queueId,      \* queue_id
    jobs,         \* jobs[r]: the pgqueuer row r
    lock,         \* lock[a]: the execution that holds the lock of a
    pc,           \* pc[w]: the next step of execution w
    doing,        \* doing[w]: its attachment
    jobOf,        \* jobOf[w]: its queue row
    row,          \* row[w]: what it read of its attachment, and its upload session
    token,        \* token[w]: its access token
    created,      \* created[w]: folders_created as it read it
    error,        \* error[w]: the ArchiveError on its way out
    drive,        \* drive_connections.status, "none" for no row
    rootMade,     \* drive_connections.folders_created
    chatMade,     \* whatsapp_archive_chats.folders_created
    vault,        \* the stored refresh token
    consent,      \* the next step of MediaArchive.complete
    enrolled,     \* the connection archives its media to this drive
    folder,       \* Google: the folders of the drive and of the chat
    files,        \* Google: files[a], the ids under which the media was created
    content,      \* Google: what the file holds
    binned,       \* Google: attachments whose file the user has moved to the bin
    session,      \* Google: the upload session of the stored upload_url
    faults,       \* faults so far, at most MaxFaults
    overlapped,   \* history: attachments with two executions of one job at once
    trouble,      \* history: the access was impaired since the drive became ready
    late          \* history: executions that the drive's becoming ready overtook

columns == <<status, missing, fileId, checksum, url>>
queueVars == <<queueId, jobs>>
workVars == <<doing, jobOf>>
readVars == <<row, token, created>>
driveVars == <<drive, rootMade, vault, consent, enrolled>>
googleVars == <<folder, files, content, binned, session>>
historyVars == <<overlapped, trouble, late>>
vars == <<columns, queueVars, lock, pc, workVars, readVars, error, driveVars, chatMade,
          googleVars, faults, historyVars>>

-----------------------------------------------------------------------------
(* Helpers *)

Job(a, s, n) == [attachment |-> a, status |-> s, attempts |-> n]

NoJob == Job(NoAttachment, "none", 0)

NoRecord == [fileId |-> 0, checksum |-> FALSE, url |-> "none"]

Fault == faults < MaxFaults /\ faults' = faults + 1

\* The rows of the queue that stand for a.
LiveJobs(a) == {r \in Rows : jobs[r].attachment = a}

\* Ids are never used again: no execution may still refer to the row.
FreshRow(r) == jobs[r] = NoJob /\ \A w \in Workers : jobOf[w] # r

\* The next statement of w runs on the connection that holds its lock.
Connected(w) == pc[w] # "idle" /\ lock[doing[w]] = w

At(w, label) == pc[w] = label

Goto(w, label) == pc' = [pc EXCEPT ![w] = label]

\* The call of w fails with an ArchiveError of this class.
Raise(w, class) ==
    /\ error' = [error EXCEPT ![w] = class]
    /\ Goto(w, "failing")

-----------------------------------------------------------------------------
(* The drive: consent, disconnection and what its owner does to it. *)

\* complete, under the session's lock: the one open attempt of authorize is consumed and
\* the code exchanged; a used or superseded attempt is refused and changes nothing.
\* Consenting again to a drive that is ready is allowed and counts as a disturbance.
BeginComplete ==
    /\ consent = "idle"
    /\ IF drive = "ready" THEN Fault ELSE UNCHANGED faults
    /\ consent' = "exchanged"
    /\ UNCHANGED <<columns, queueVars, lock, pc, workVars, readVars, error, drive,
                   rootMade, vault, enrolled, chatMade, googleVars, historyVars>>

WriteToken ==
    /\ consent = "exchanged"
    /\ vault' = "good"
    /\ consent' = "tokenStored"
    /\ UNCHANGED <<columns, queueVars, lock, pc, workVars, readVars, error, drive,
                   rootMade, enrolled, chatMade, googleVars, faults,
                   historyVars>>

\* INSERT ... ON CONFLICT DO UPDATE SET status='pending'.
MarkPending ==
    /\ consent = "tokenStored"
    /\ drive' = "pending"
    /\ consent' = "foldersMissing"
    /\ trouble' = TRUE
    /\ UNCHANGED <<columns, queueVars, lock, pc, workVars, readVars, error, rootMade,
                   vault, enrolled, chatMade, googleVars, faults, overlapped,
                   late>>

\* The seven folders: their ids are stored first, and folders that were once made are
\* only looked at.
RootFolders ==
    /\ consent = "foldersMissing"
    /\ vault = "good"
    /\ \/ /\ folder["root"] = "absent" /\ ~rootMade
          /\ folder' = [folder EXCEPT !["root"] = "private"]
       \/ folder["root"] = "private" /\ UNCHANGED folder
    /\ consent' = "foldersThere"
    /\ UNCHANGED <<columns, queueVars, lock, pc, workVars, readVars, error, drive,
                   rootMade, vault, enrolled, chatMade, files, content, binned,
                   session, faults, historyVars>>

MarkReady ==
    /\ consent = "foldersThere"
    /\ drive' = "ready"
    /\ rootMade' = TRUE
    /\ consent' = "idle"
    /\ trouble' = (vault # "good" \/ \E f \in DOMAIN folder : folder[f] = "unfit")
    /\ late' = {w \in Workers : pc[w] \notin {"idle", "waiting", "checking"}}
    /\ UNCHANGED <<columns, queueVars, lock, pc, workVars, readVars, error, vault,
                    enrolled, chatMade, googleVars, faults, overlapped>>

\* An ArchiveError or the end of the process; the row stays as it is.
AbandonComplete ==
    /\ consent # "idle"
    /\ IF consent = "foldersMissing" /\ (vault # "good" \/ folder["root"] = "unfit")
       THEN UNCHANGED faults ELSE Fault
    /\ consent' = "idle"
    /\ UNCHANGED <<columns, queueVars, lock, pc, workVars, readVars, error, drive,
                   rootMade, vault, enrolled, chatMade, googleVars,
                   historyVars>>

\* disconnect takes no lock and looks at nothing.
Disconnect ==
    /\ drive # "none"
    /\ Fault
    /\ drive' = "disconnected"
    /\ trouble' = TRUE
    /\ UNCHANGED <<columns, queueVars, lock, pc, workVars, readVars, error, rootMade,
                   vault, consent, enrolled, chatMade, googleVars, overlapped,
                   late>>

\* The owner withdraws the consent at Google.
Revoke ==
    /\ vault = "good"
    /\ Fault
    /\ vault' = "revoked"
    /\ token' = [w \in Workers |-> IF token[w] = "none" THEN "none" ELSE "revoked"]
    /\ trouble' = TRUE
    /\ UNCHANGED <<columns, queueVars, lock, pc, workVars, row, created, error, drive,
                   rootMade, consent, enrolled, chatMade, googleVars,
                   overlapped, late>>

\* The owner shares a folder or moves it to the bin, and takes that back.
Spoil(f) ==
    /\ folder[f] = "private"
    /\ Fault
    /\ folder' = [folder EXCEPT ![f] = "unfit"]
    /\ trouble' = TRUE
    /\ UNCHANGED <<columns, queueVars, lock, pc, workVars, readVars, error, driveVars,
                   chatMade, files, content, binned, session, overlapped, late>>

Repair(f) ==
    /\ folder[f] = "unfit"
    /\ folder' = [folder EXCEPT ![f] = "private"]
    /\ UNCHANGED <<columns, queueVars, lock, pc, workVars, readVars, error, driveVars,
                   chatMade, files, content, binned, session, faults, historyVars>>

\* A file in the bin is not looked for again once its transfer is complete.
Bin(a) ==
    /\ content[a] # "none" /\ a \notin binned
    /\ Fault
    /\ binned' = binned \union {a}
    /\ UNCHANGED <<columns, queueVars, lock, pc, workVars, readVars, error, driveVars,
                   chatMade, folder, files, content, session, historyVars>>

\* WhatsApp signup copies the ready drive to the connection.
Enroll ==
    /\ ~enrolled /\ drive = "ready"
    /\ enrolled' = TRUE
    /\ UNCHANGED <<columns, queueVars, lock, pc, workVars, readVars, error, drive,
                   rootMade, vault, consent, chatMade, googleVars, faults,
                   historyVars>>

-----------------------------------------------------------------------------
(* The import of a message and PgQueuer. *)

\* enqueue_attachments, in the transaction of the import; media that Meta does not
\* offer is kept as a failure without a job.
Import(a) ==
    /\ enrolled
    /\ status[a] = "none"
    /\ \/ \E r \in Rows :
              /\ FreshRow(r)
              /\ jobs' = [jobs EXCEPT ![r] = Job(a, "queued", 0)]
              /\ queueId' = [queueId EXCEPT ![a] = r]
              /\ status' = [status EXCEPT ![a] = "pending"]
              /\ UNCHANGED missing
       \/ /\ status' = [status EXCEPT ![a] = "failed"]
          /\ missing' = missing \union {a}
          /\ UNCHANGED <<queueVars>>
    /\ UNCHANGED <<fileId, checksum, url, lock, pc, workVars, readVars, error,
                   driveVars, chatMade, googleVars, faults, historyVars>>

Start(w, r) ==
    /\ pc[w] = "idle"
    /\ jobs' = [jobs EXCEPT ![r].status = "picked"]
    /\ jobOf' = [jobOf EXCEPT ![w] = r]
    /\ doing' = [doing EXCEPT ![w] = jobs[r].attachment]
    /\ Goto(w, "waiting")

Claim(w, r) ==
    /\ jobs[r].status = "queued"
    /\ Start(w, r)
    /\ UNCHANGED <<columns, queueId, lock, readVars, error, driveVars, chatMade,
                   googleVars, faults, historyVars>>

Executing(r) == \E w \in Workers : jobOf[w] = r

\* The heartbeat of a picked job lapsed: its execution crashed or is only slow (a
\* fault), in which case two executions of the job go on.
Recover(w, r) ==
    /\ jobs[r].status = "picked"
    /\ IF Executing(r) THEN Fault ELSE UNCHANGED faults
    /\ Start(w, r)
    /\ overlapped' = IF Executing(r) THEN overlapped \union {jobs[r].attachment}
                     ELSE overlapped
    /\ UNCHANGED <<columns, queueId, lock, readVars, error, driveVars, chatMade,
                   googleVars, trouble, late>>

\* Execution w is over; nothing of it is left.
Leave(w) ==
    /\ pc' = [pc EXCEPT ![w] = "idle"]
    /\ doing' = [doing EXCEPT ![w] = NoAttachment]
    /\ jobOf' = [jobOf EXCEPT ![w] = NoRow]
    /\ row' = [row EXCEPT ![w] = NoRecord]
    /\ token' = [token EXCEPT ![w] = "none"]
    /\ created' = [created EXCEPT ![w] = FALSE]
    /\ error' = [error EXCEPT ![w] = "none"]
    /\ late' = late \ {w}

\* process returned, also after an error that no retry can help: the row is deleted.
ReportSuccess(w) ==
    /\ At(w, "returned")
    /\ jobs' = [jobs EXCEPT ![jobOf[w]] = NoJob]
    /\ Leave(w)
    /\ UNCHANGED <<columns, queueId, lock, driveVars, chatMade, googleVars, faults,
                   overlapped, trouble>>

\* process raised: the job is retried, and held after the last attempt.
ReportFailure(w) ==
    LET r == jobOf[w]
        j == jobs[r]
    IN  /\ At(w, "raised")
        /\ jobs' = IF j = NoJob THEN jobs
                   ELSE IF j.attempts >= MaxRetries
                   THEN [jobs EXCEPT ![r].status = "failed"]
                   ELSE [jobs EXCEPT ![r] = Job(j.attachment, "queued", j.attempts + 1)]
        /\ Leave(w)
        /\ UNCHANGED <<columns, queueId, lock, driveVars, chatMade, googleVars, faults,
                       overlapped, trouble>>

\* Variant: every failed attachment gets a new job, whatever became of its old one.
ReplayBlind(a) ==
    /\ drive = "ready" /\ enrolled
    /\ status[a] = "failed" /\ a \notin missing
    /\ \E n \in Rows :
           /\ FreshRow(n)
           /\ jobs' = [jobs EXCEPT ![n] = Job(a, "queued", 0)]
           /\ queueId' = [queueId EXCEPT ![a] = n]
    /\ status' = [status EXCEPT ![a] = "pending"]
    /\ UNCHANGED <<missing, fileId, checksum, url, lock, pc, workVars, readVars,
                   error, driveVars, chatMade, googleVars, faults, historyVars>>

\* replay_failed, one attachment of its transaction: a job that is still in the queue
\* is left alone, a held one is queued again, a deleted one is replaced.
Replay(a) ==
    LET r == queueId[a]
    IN  /\ drive = "ready" /\ enrolled
        /\ status[a] = "failed" /\ a \notin missing
        /\ \/ /\ r \in LiveJobs(a) /\ jobs[r].status = "failed"
              /\ jobs' = [jobs EXCEPT ![r] = Job(a, "queued", 0)]
              /\ UNCHANGED queueId
           \/ /\ r \notin LiveJobs(a)
              /\ \E n \in Rows :
                     /\ FreshRow(n)
                     /\ jobs' = [jobs EXCEPT ![n] = Job(a, "queued", 0)]
                     /\ queueId' = [queueId EXCEPT ![a] = n]
        /\ status' = [status EXCEPT ![a] = "pending"]
        /\ UNCHANGED <<missing, fileId, checksum, url, lock, pc, workVars, readVars,
                       error, driveVars, chatMade, googleVars, faults, historyVars>>

\* The operator's requeue_jobs, the only way on when an execution could not record its
\* failure: replay_failed passes over an attachment that is not failed.
Requeue(r) ==
    /\ jobs[r].status = "failed"
    /\ jobs' = [jobs EXCEPT ![r] = Job(jobs[r].attachment, "queued", 0)]
    /\ UNCHANGED <<columns, queueId, lock, pc, workVars, readVars, error, driveVars,
                   chatMade, googleVars, faults, historyVars>>

-----------------------------------------------------------------------------
(* MediaArchive._process and transfer.  A statement needs the connection that holds *)
(* the lock; a call to Google needs an access token that is still valid.            *)

Statement(w, label) ==
    /\ At(w, label) /\ Connected(w)
    /\ UNCHANGED <<queueVars, workVars, driveVars, googleVars, faults, historyVars>>

Call(w, label) ==
    /\ At(w, label) /\ token[w] = "good"
    /\ UNCHANGED <<columns, queueVars, lock, workVars, token, created, driveVars, chatMade>>

\* The lock is taken and the row read; a complete attachment is left alone.
Begin(w) ==
    LET a == doing[w]
    IN  /\ At(w, "waiting")
        /\ lock[a] = Nobody
        /\ IF status[a] = "complete"
           THEN Goto(w, "returned") /\ UNCHANGED <<lock, row>>
           ELSE /\ lock' = [lock EXCEPT ![a] = w]
                /\ row' = [row EXCEPT ![w] =
                       [fileId |-> fileId[a], checksum |-> a \in checksum,
                        url |-> IF a \in url THEN "current" ELSE "none"]]
                /\ Goto(w, "checking")
        /\ UNCHANGED <<columns, queueVars, workVars, token, created, error, driveVars,
                       chatMade, googleVars, faults, historyVars>>

CheckDrive(w) ==
    /\ Statement(w, "checking")
    /\ IF drive = "ready" THEN Goto(w, "opening") /\ UNCHANGED error
       ELSE Raise(w, "reconnect")
    /\ UNCHANGED <<columns, lock, readVars, chatMade>>

\* An access token for the stored refresh token, and a look at the drive's folder.
Open(w) ==
    /\ At(w, "opening")
    /\ \/ /\ vault = "good" /\ folder["root"] = "private"
          /\ token' = [token EXCEPT ![w] = "good"]
          /\ Goto(w, "marking")
          /\ UNCHANGED error
       \/ /\ vault = "revoked"
          /\ Raise(w, "reconnect")
          /\ UNCHANGED token
       \/ /\ vault = "good" /\ folder["root"] = "unfit"
          /\ Raise(w, "refused")
          /\ UNCHANGED token
    /\ UNCHANGED <<columns, queueVars, lock, workVars, row, created, driveVars, chatMade,
                   googleVars, faults, historyVars>>

MarkTransferring(w) ==
    /\ Statement(w, "marking")
    /\ status' = [status EXCEPT ![doing[w]] = "transferring"]
    /\ Goto(w, "chat")
    /\ UNCHANGED <<missing, fileId, checksum, url, lock, readVars, error, chatMade>>

\* The chat's row, with the ids of its folders, in one transaction.
ReadChat(w) ==
    /\ Statement(w, "chat")
    /\ created' = [created EXCEPT ![w] = chatMade]
    /\ Goto(w, "folder")
    /\ UNCHANGED <<columns, lock, row, token, error, chatMade>>

\* private, or the look with which folder begins.
FindFolder(w) ==
    /\ Call(w, "folder")
    /\ \/ /\ folder["chat"] = "private"
          /\ Goto(w, IF created[w] THEN "naming" ELSE "folderMade")
          /\ UNCHANGED error
       \/ /\ folder["chat"] = "absent" /\ ~created[w]
          /\ Goto(w, "folderMissing")
          /\ UNCHANGED error
       \/ /\ folder["chat"] = "unfit"
          /\ Raise(w, "refused")
    /\ UNCHANGED <<row, googleVars, faults, historyVars>>

\* The id is used up (409, worth a retry) when another execution was faster.
MakeFolder(w) ==
    /\ Call(w, "folderMissing")
    /\ IF folder["chat"] = "absent"
       THEN /\ folder' = [folder EXCEPT !["chat"] = "private"]
            /\ Goto(w, "folderMade")
            /\ UNCHANGED error
       ELSE Raise(w, "transient") /\ UNCHANGED folder
    /\ UNCHANGED <<row, files, content, binned, session, faults, historyVars>>

MarkFolders(w) ==
    /\ Statement(w, "folderMade")
    /\ chatMade' = TRUE
    /\ Goto(w, "naming")
    /\ UNCHANGED <<columns, lock, readVars, error>>

FreshId(a) == Cardinality(files[a]) + 1

\* Variant: the id is kept in memory until the upload succeeds.
NameFileInMemory(w) ==
    LET a == doing[w]
    IN  /\ Statement(w, "naming")
        /\ IF row[w].fileId = 0
           THEN row' = [row EXCEPT ![w].fileId = FreshId(a)] /\ Goto(w, "downloading")
           ELSE Goto(w, "inspecting") /\ UNCHANGED row
        /\ UNCHANGED <<columns, lock, token, created, error, chatMade>>

\* The file's id is stored before anything is uploaded under it.
NameFile(w) ==
    LET a == doing[w]
    IN  /\ Statement(w, "naming")
        /\ IF row[w].fileId = 0
           THEN /\ fileId' = [fileId EXCEPT ![a] = FreshId(a)]
                /\ row' = [row EXCEPT ![w].fileId = FreshId(a)]
                /\ Goto(w, "downloading")
           ELSE /\ Goto(w, "inspecting")
                /\ UNCHANGED <<fileId, row>>
        /\ UNCHANGED <<status, missing, checksum, url, lock, token, created, error,
                       chatMade>>

\* Variant: a file that exists is taken for a finished upload.
InspectExists(w) ==
    LET a == doing[w]
    IN  /\ Call(w, "inspecting")
        /\ Goto(w, IF row[w].fileId \in files[a] THEN "finishing" ELSE "downloading")
        /\ UNCHANGED <<row, error, googleVars, faults, historyVars>>

\* What an earlier attempt uploaded: finished, in the bin, or to be uploaded (again).
Inspect(w) ==
    LET a == doing[w]
    IN  /\ Call(w, "inspecting")
        /\ IF row[w].fileId \in files[a] /\ a \in binned
           THEN Raise(w, "permanent")
           ELSE /\ Goto(w, IF /\ row[w].fileId \in files[a]
                              /\ row[w].checksum /\ content[a] = "good"
                           THEN "finishing" ELSE "downloading")
                /\ UNCHANGED error
        /\ UNCHANGED <<row, googleVars, faults, historyVars>>

\* The media is read from Meta, with the connection's own credentials.
Download(w) ==
    /\ At(w, "downloading")
    /\ Goto(w, "storing")
    /\ UNCHANGED <<columns, queueVars, lock, workVars, readVars, error, driveVars, chatMade,
                   googleVars, faults, historyVars>>

StoreChecksum(w) ==
    /\ Statement(w, "storing")
    /\ checksum' = checksum \union {doing[w]}
    /\ Goto(w, "rechecking")
    /\ UNCHANGED <<status, missing, fileId, url, lock, readVars, error, chatMade>>

RecheckDrive(w) ==
    /\ Statement(w, "rechecking")
    /\ IF drive = "ready"
       THEN /\ Goto(w, IF row[w].url = "none" THEN "beginning" ELSE "uploading")
            /\ UNCHANGED error
       ELSE Raise(w, "reconnect")
    /\ UNCHANGED <<columns, lock, readVars, chatMade>>

\* A resumable session; Google refuses the id of a file that exists (409).
BeginUpload(w) ==
    /\ Call(w, "beginning")
    /\ IF row[w].fileId \in files[doing[w]] THEN Raise(w, "transient")
       ELSE Goto(w, "storingUrl") /\ UNCHANGED error
    /\ UNCHANGED <<row, googleVars, faults, historyVars>>

\* What other executions read as the session is now an old one.
StoreUrl(w) ==
    LET a == doing[w]
    IN  /\ At(w, "storingUrl") /\ Connected(w)
        /\ url' = url \union {a}
        /\ session' = [session EXCEPT ![a] = "open"]
        /\ row' = [v \in Workers |->
                     IF v = w THEN [row[v] EXCEPT !.url = "current"]
                     ELSE IF doing[v] = a /\ row[v].url = "current"
                     THEN [row[v] EXCEPT !.url = "old"] ELSE row[v]]
        /\ Goto(w, "uploading")
        /\ UNCHANGED <<status, missing, fileId, checksum, queueVars, lock, workVars, token,
                       created, error, driveVars, chatMade, folder, files, content, binned,
                       faults, historyVars>>

\* The rest of the bytes, from the offset that Google reports; a session that has
\* received all of them answers at once, an old one is not found.
Upload(w) ==
    LET a == doing[w]
    IN  /\ Call(w, "uploading")
        /\ \/ /\ row[w].url = "current" /\ session[a] = "open"
              /\ files' = [files EXCEPT ![a] = @ \union {row[w].fileId}]
              /\ session' = [session EXCEPT ![a] = "received"]
              /\ \/ content' = [content EXCEPT ![a] = "good"] /\ UNCHANGED faults
                 \/ content' = [content EXCEPT ![a] = "bad"] /\ Fault
              /\ Goto(w, "verifying")
           \/ /\ row[w].url = "current" /\ session[a] = "received"
              /\ Goto(w, "verifying")
              /\ UNCHANGED <<files, content, session, faults>>
           \/ /\ row[w].url = "old" \/ session[a] = "expired"
              /\ Goto(w, "forgetting")
              /\ UNCHANGED <<files, content, session, faults>>
        /\ UNCHANGED <<row, error, folder, binned, historyVars>>

\* Variant: the next attempt finds the URL of the expired session again.
ForgetUrlNever(w) ==
    /\ Statement(w, "forgetting")
    /\ Raise(w, "transient")
    /\ UNCHANGED <<columns, lock, readVars, chatMade>>

ForgetUrl(w) ==
    /\ Statement(w, "forgetting")
    /\ url' = url \ {doing[w]}
    /\ Raise(w, "transient")
    /\ UNCHANGED <<status, missing, fileId, checksum, lock, readVars, chatMade>>

\* Variant: the checksum that Google reports is not compared.
VerifyPrivateOnly(w) ==
    /\ Call(w, "verifying")
    /\ Goto(w, "finishing")
    /\ UNCHANGED <<row, error, googleVars, faults, historyVars>>

\* A file in the bin is not private; one with another checksum is given up.
Verify(w) ==
    LET a == doing[w]
    IN  /\ Call(w, "verifying")
        /\ IF a \in binned THEN Raise(w, "refused")
           ELSE IF content[a] = "good" THEN Goto(w, "finishing") /\ UNCHANGED error
           ELSE Raise(w, "permanent")
        /\ UNCHANGED <<row, googleVars, faults, historyVars>>

Unlock(w) == lock' = [lock EXCEPT ![doing[w]] = Nobody]

MarkComplete(w) ==
    /\ Statement(w, "finishing")
    /\ status' = [status EXCEPT ![doing[w]] = "complete"]
    /\ url' = url \ {doing[w]}
    /\ Unlock(w)
    /\ Goto(w, "returned")
    /\ UNCHANGED <<missing, fileId, checksum, readVars, error, chatMade>>

Attention == {"reconnect", "refused"}

\* Variant: every failure asks the owner for a new consent.
RecordFailureAlarmed(w) ==
    /\ Statement(w, "failing")
    /\ status' = [status EXCEPT ![doing[w]] = "failed"]
    /\ Goto(w, "attention")
    /\ UNCHANGED <<missing, fileId, checksum, url, lock, readVars, error, chatMade>>

\* The failure is recorded; only a transient one is raised again.
RecordFailure(w) ==
    /\ Statement(w, "failing")
    /\ status' = [status EXCEPT ![doing[w]] = "failed"]
    /\ IF error[w] \in Attention
       THEN Goto(w, "attention") /\ UNCHANGED lock
       ELSE /\ Goto(w, IF error[w] = "transient" THEN "raised" ELSE "returned")
            /\ Unlock(w)
    /\ UNCHANGED <<missing, fileId, checksum, url, readVars, error, chatMade>>

\* It does not look at what the drive's status has become.
MarkAttention(w) ==
    /\ At(w, "attention") /\ Connected(w)
    /\ drive' = "attention"
    /\ Unlock(w)
    /\ Goto(w, "returned")
    /\ UNCHANGED <<columns, queueVars, workVars, readVars, error, rootMade, vault, 
                   consent, enrolled, chatMade, googleVars, faults, historyVars>>

-----------------------------------------------------------------------------
(* Faults. *)

Statements == {"checking", "marking", "chat", "folderMade", "naming", "storing",
               "rechecking", "storingUrl", "forgetting", "finishing"}
Calls == {"folder", "folderMissing", "inspecting", "beginning", "uploading", "verifying"}
Recording == {"failing", "attention"}
InTransfer == Statements \union Calls \union Recording \union {"opening", "downloading"}

\* A 401 that the code maps to drive_reconnect_required.
Denied(w) ==
    /\ pc[w] \in Calls /\ token[w] = "revoked"
    /\ Raise(w, "reconnect")
    /\ UNCHANGED <<columns, queueVars, lock, workVars, readVars, driveVars, chatMade,
                   googleVars, faults, historyVars>>

\* Anything else that a call or a statement can end with; quota is "refused".
Fails(w) ==
    /\ \/ pc[w] \in Calls \union {"opening"}
          /\ \E class \in {"transient", "permanent", "refused"} :
                 Raise(w, class) /\ trouble' = (trouble \/ class = "refused")
       \/ pc[w] = "downloading"
          /\ \E class \in {"transient", "permanent"} : Raise(w, class) /\ UNCHANGED trouble
       \/ pc[w] \in Statements /\ Raise(w, "transient") /\ UNCHANGED trouble
    /\ Fault
    /\ UNCHANGED <<columns, queueVars, lock, workVars, readVars, driveVars, chatMade,
                   googleVars, overlapped, late>>

\* The connection with the lock is closed; the execution notices at its next statement,
\* and then cannot record anything either.
LoseLock(w) ==
    /\ pc[w] \in InTransfer /\ Connected(w)
    /\ Fault
    /\ Unlock(w)
    /\ UNCHANGED <<columns, queueVars, pc, workVars, readVars, error, driveVars, chatMade,
                   googleVars, historyVars>>

Disconnected(w) ==
    /\ pc[w] \in Statements \union Recording /\ ~Connected(w)
    /\ Goto(w, "raised")
    /\ UNCHANGED <<columns, queueVars, lock, workVars, readVars, error, driveVars, chatMade,
                   googleVars, faults, historyVars>>

Crash(w) ==
    /\ pc[w] # "idle"
    /\ Fault
    /\ IF Connected(w) THEN Unlock(w) ELSE UNCHANGED lock
    /\ Leave(w)
    /\ UNCHANGED <<columns, queueVars, driveVars, chatMade, googleVars, overlapped, trouble>>

\* A session ends at Google after a week, or when Google gives it up.
Expire(a) ==
    /\ session[a] \in {"open", "received"}
    /\ Fault
    /\ session' = [session EXCEPT ![a] = "expired"]
    /\ UNCHANGED <<columns, queueVars, lock, pc, workVars, readVars, error, driveVars,
                   chatMade, folder, files, content, binned, historyVars>>

-----------------------------------------------------------------------------
(* Specification *)

Init ==
    /\ status = [a \in Attachments |-> "none"]
    /\ missing = {}
    /\ fileId = [a \in Attachments |-> 0]
    /\ checksum = {}
    /\ url = {}
    /\ queueId = [a \in Attachments |-> NoRow]
    /\ jobs = [r \in Rows |-> NoJob]
    /\ lock = [a \in Attachments |-> Nobody]
    /\ pc = [w \in Workers |-> "idle"]
    /\ doing = [w \in Workers |-> NoAttachment]
    /\ jobOf = [w \in Workers |-> NoRow]
    /\ row = [w \in Workers |-> NoRecord]
    /\ token = [w \in Workers |-> "none"]
    /\ created = [w \in Workers |-> FALSE]
    /\ error = [w \in Workers |-> "none"]
    /\ drive = "none"
    /\ rootMade = FALSE
    /\ chatMade = FALSE
    /\ vault = "none"
    /\ consent = "idle"
    /\ enrolled = FALSE
    /\ folder = [f \in {"root", "chat"} |-> "absent"]
    /\ files = [a \in Attachments |-> {}]
    /\ content = [a \in Attachments |-> "none"]
    /\ binned = {}
    /\ session = [a \in Attachments |-> "none"]
    /\ faults = 0
    /\ overlapped = {}
    /\ trouble = FALSE
    /\ late = {}

Drive ==
    \/ BeginComplete \/ WriteToken \/ MarkPending \/ RootFolders \/ MarkReady
    \/ AbandonComplete \/ Disconnect \/ Revoke \/ Enroll
    \/ \E f \in {"root", "chat"} : Spoil(f) \/ Repair(f)

Transfer(w) ==
    \/ CheckDrive(w) \/ Open(w) \/ MarkTransferring(w) \/ ReadChat(w) \/ FindFolder(w)
    \/ MakeFolder(w) \/ MarkFolders(w) \/ NameFile(w) \/ Inspect(w) \/ Download(w)
    \/ StoreChecksum(w) \/ RecheckDrive(w) \/ BeginUpload(w) \/ StoreUrl(w) \/ Upload(w)
    \/ ForgetUrl(w) \/ Verify(w) \/ MarkComplete(w) \/ RecordFailure(w)
    \/ MarkAttention(w) \/ Denied(w) \/ Disconnected(w)
    \/ ReportSuccess(w) \/ ReportFailure(w)

Next ==
    \/ Drive
    \/ \E a \in Attachments : Import(a) \/ Replay(a) \/ Bin(a) \/ Expire(a)
    \/ \E r \in Rows : Requeue(r) \/ \E w \in Workers : Claim(w, r) \/ Recover(w, r)
    \/ \E w \in Workers : Begin(w) \/ Transfer(w) \/ Fails(w) \/ LoseLock(w) \/ Crash(w)

\* A user who wants the archive consents whenever the drive is not ready, repairs what
\* Google shows as shared or binned, and asks for failed transfers again; workers poll
\* for ever and the locks serve whoever waits.
Fairness ==
    /\ SF_vars(drive # "ready" /\ BeginComplete)
    /\ WF_vars(WriteToken \/ MarkPending \/ RootFolders \/ MarkReady \/ AbandonComplete)
    /\ WF_vars(\E f \in {"root", "chat"} : Repair(f))
    /\ \A a \in Attachments : SF_vars(Replay(a))
    /\ \A a \in Attachments : SF_vars(\E r \in LiveJobs(a) : Requeue(r)
                                        \/ \E w \in Workers : Claim(w, r) \/ Recover(w, r))
    /\ \A w \in Workers : SF_vars(Begin(w)) /\ WF_vars(Transfer(w))

Spec == Init /\ [][Next]_vars /\ Fairness

-----------------------------------------------------------------------------
(* Properties *)

Labels == InTransfer \union {"idle", "waiting", "returned", "raised"}

JobRows ==
    [attachment : Attachments \union {NoAttachment}, attempts : 0 .. MaxRetries,
     status : {"none", "queued", "picked", "failed"}]

ArchiveTypeOK ==
    /\ status \in [Attachments -> {"none", "pending", "transferring", "complete", "failed"}]
    /\ missing \subseteq Attachments
    /\ fileId \in [Attachments -> Nat]
    /\ checksum \subseteq Attachments /\ url \subseteq Attachments
    /\ queueId \in [Attachments -> Rows \union {NoRow}]
    /\ jobs \in [Rows -> JobRows]
    /\ lock \in [Attachments -> Workers \union {Nobody}]
    /\ pc \in [Workers -> Labels]
    /\ doing \in [Workers -> Attachments \union {NoAttachment}]
    /\ jobOf \in [Workers -> Rows \union {NoRow}]
    /\ row \in [Workers -> [fileId : Nat, checksum : BOOLEAN,
                            url : {"none", "current", "old"}]]
    /\ token \in [Workers -> {"none", "good", "revoked"}]
    /\ created \in [Workers -> BOOLEAN]
    /\ error \in [Workers -> Attention \union {"none", "transient", "permanent"}]
    /\ drive \in {"none", "pending", "ready", "attention", "disconnected"}
    /\ {rootMade, chatMade, enrolled, trouble} \subseteq BOOLEAN
    /\ vault \in {"none", "good", "revoked"}
    /\ consent \in {"idle", "exchanged", "tokenStored", "foldersMissing", "foldersThere"}
    /\ folder \in [{"root", "chat"} -> {"absent", "private", "unfit"}]
    /\ files \in [Attachments -> SUBSET Nat]
    /\ content \in [Attachments -> {"none", "good", "bad"}]
    /\ session \in [Attachments -> {"none", "open", "received", "expired"}]
    /\ binned \subseteq Attachments /\ overlapped \subseteq Attachments
    /\ faults \in 0 .. MaxFaults
    /\ late \subseteq Workers

\* Whatever fails in between, the media is created on the drive under one id: "retries
\* recover without duplicate files".
OneFilePerAttachment == \A a \in Attachments : Cardinality(files[a]) <= 1

\* A transfer is reported as complete only if all of its bytes arrived as they were sent.
CompleteIsIntact == \A a \in Attachments : status[a] = "complete" => content[a] = "good"

\* What the business sees of its attachments (module ArchivedMedia).
Shown == [a \in Attachments |->
            IF a \in missing THEN "unavailable"
            ELSE IF status[a] \in {"pending", "transferring"} THEN "owed" ELSE status[a]]

Media == INSTANCE ArchivedMedia WITH state <- Shown, copy <- content

\* The executions, however often they are repeated, overlap, lose their locks or crash, keep
\* that promise: a file is written once, complete means intact and is final, and media that
\* Meta does not offer is never tried.
ImplementsArchivedMedia == Media!Spec

\* Work that is not settled has its one job in the queue, unless an execution that was
\* given up deleted the job of the one that replaced it.
UnsettledHasJob ==
    \A a \in Attachments :
        /\ Cardinality(LiveJobs(a)) <= 1
        /\ status[a] \in {"pending", "transferring"} /\ a \notin overlapped
           => queueId[a] \in LiveJobs(a)

\* The owner is asked for a new consent only if something impaired the access since the
\* drive became ready, a file was moved to the bin under the transfer's hands, or the
\* transfer had judged the drive before it became ready.
AttentionHasCause ==
    [][drive = "ready" /\ drive' = "attention"
         => \/ trouble
            \/ \E w \in Workers : /\ pc[w] = "attention" /\ pc'[w] # "attention"
                                  /\ w \in late \/ doing[w] \in binned]_vars

\* What a consent, a repair or a retry can recover is recovered: all but media that Meta
\* does not offer, files that the owner binned or that arrived damaged, and attachments
\* whose job two executions had.
RecoverableCompletes ==
    \A a \in Attachments :
        status[a] # "none" ~> \/ status[a] = "complete"
                              \/ a \in missing \union binned \union overlapped
                              \/ content[a] = "bad"
=============================================================================
