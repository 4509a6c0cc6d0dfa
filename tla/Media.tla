--------------------------------- MODULE Media ---------------------------------
(***************************************************************************)
(* One upload: UploadCommandService (create, cancel), AttachmentCommand-   *)
(* Service (complete), UploadQueryService.get, and MediaProcessor with its *)
(* two jobs, which process the attachment and clean up after the upload.   *)
(*                                                                         *)
(* complete locks the upload session; the others read it without a lock    *)
(* and write later. save() writes a status that differs from the row it    *)
(* finds, whatever the row says by then. The object store, and BullMQ with *)
(* its retries and stalled jobs, are modelled from how they are used.      *)
(***************************************************************************)
EXTENDS Integers, Sequences

CONSTANTS
  Calls, Workers,  \* API requests and jobs that can run at once
  JobAttempts,     \* attempts of defaultJobOptions
  MaxStalls        \* jobs that BullMQ gives to a second worker (maxStalledCount)

ASSUME MediaAssumption == {JobAttempts, MaxStalls} \subseteq Nat /\ Calls \cap Workers = {}

VARIABLES
  attachment, \* attachments.status
  upload,     \* upload_sessions.status
  late,       \* expires_at has passed
  object,     \* the object is in the store
  at,         \* where each request and each worker is
  job,        \* the "process" job: its state, failed attempts and stalls
  cleanup,    \* the "expire" job
  outcomes,   \* the outcome events, in order
  lost,       \* history: what kept the job from settling the attachment
  overtaken   \* history: complete committed after others had read the session

mediaVars == <<attachment, upload, late, object, at, job, cleanup, outcomes, lost, overtaken>>

Outcomes == {"READY", "FAILED", "QUARANTINED"}

Losses == {"enqueue", "stall", "read", "mark"}

CallSteps == {"idle", "completing", "enqueue", "cancel", "cancelled", "delete", "get", "got"}
WorkerSteps == {"idle", "scan", "fail", "mark", "expire", "expired", "clean"}

MediaTypeOK ==
  /\ attachment \in Outcomes \cup {"NONE", "UPLOADING", "PROCESSING", "DELETED"}
  /\ upload \in {"NONE", "OPEN", "COMPLETED", "EXPIRED", "CANCELLED"}
  /\ late \in BOOLEAN /\ object \in BOOLEAN /\ overtaken \in BOOLEAN
  /\ at \in [Calls \cup Workers -> CallSteps \cup WorkerSteps]
  /\ \A c \in Calls : at[c] \in CallSteps
  /\ \A w \in Workers : at[w] \in WorkerSteps
  /\ job \in [state : {"none", "waiting", "active", "done", "failed"}, failed : Nat, stalls : Nat]
  /\ cleanup \in {"none", "waiting", "active", "done"}
  /\ outcomes \in Seq(Outcomes) /\ lost \subseteq Losses

MediaInit ==
  /\ attachment = "NONE" /\ upload = "NONE" /\ late = FALSE /\ object = FALSE
  /\ at = [a \in Calls \cup Workers |-> "idle"]
  /\ job = [state |-> "none", failed |-> 0, stalls |-> 0] /\ cleanup = "none"
  /\ outcomes = <<>> /\ lost = {} /\ overtaken = FALSE

mediaRows == <<attachment, upload>>
jobs == <<job, cleanup>>
history == <<outcomes, lost, overtaken>>

Goes(a, from, to) == at[a] = from /\ at' = [at EXCEPT ![a] = to]

\* The row lock that complete holds.
SessionFree == \A c \in Calls : at[c] # "completing"

-----------------------------------------------------------------------------
(* The upload *)

\* create saves two rows; a process that stops in between leaves the first.
CreateAttachment ==
  /\ attachment = "NONE" /\ attachment' = "UPLOADING"
  /\ UNCHANGED <<upload, late, object, at, jobs, history>>

\* The cleanup job is a best effort.
CreateSession ==
  /\ attachment = "UPLOADING" /\ upload = "NONE" /\ upload' = "OPEN"
  /\ cleanup' \in {"waiting", "none"}
  /\ UNCHANGED <<attachment, late, object, at, job, history>>

\* The client uploads with the URL it was given.
Put ==
  /\ upload # "NONE" /\ ~late /\ object' = TRUE
  /\ UNCHANGED <<mediaRows, late, at, jobs, history>>

UploadTimesOut ==
  /\ upload # "NONE" /\ ~late /\ late' = TRUE
  /\ UNCHANGED <<mediaRows, object, at, jobs, history>>

CancelRead(c) ==
  /\ upload \notin {"NONE", "COMPLETED"} /\ Goes(c, "idle", "cancel")
  /\ UNCHANGED <<mediaRows, late, object, jobs, history>>

CancelSession(c) ==
  /\ SessionFree /\ Goes(c, "cancel", "cancelled")
  /\ upload' = "CANCELLED"
  /\ UNCHANGED <<attachment, late, object, jobs, history>>

CancelAttachment(c) ==
  /\ Goes(c, "cancelled", "delete")
  /\ attachment' = "DELETED"
  /\ UNCHANGED <<upload, late, object, jobs, history>>

CancelObject(c) ==
  /\ Goes(c, "delete", "idle")
  /\ object' \in {object, FALSE}
  /\ UNCHANGED <<mediaRows, late, jobs, history>>

\* get of an upload that is OPEN and expired.
GetRead(c) ==
  /\ upload = "OPEN" /\ late /\ Goes(c, "idle", "get")
  /\ UNCHANGED <<mediaRows, late, object, jobs, history>>

GetSession(c) ==
  /\ SessionFree /\ Goes(c, "get", "got")
  /\ upload' = "EXPIRED"
  /\ UNCHANGED <<attachment, late, object, jobs, history>>

GetAttachment(c) ==
  /\ Goes(c, "got", "idle")
  /\ attachment' = "DELETED"
  /\ UNCHANGED <<upload, late, object, jobs, history>>

-----------------------------------------------------------------------------
(* complete *)

\* The session is locked; status, expiry and object are looked at. Of a completed
\* upload, a late one or a wrong object only an answer is made.
CompleteLock(c) ==
  /\ SessionFree /\ Goes(c, "idle", "completing")
  /\ attachment = "UPLOADING" /\ upload = "OPEN" /\ ~late /\ object
  /\ UNCHANGED <<mediaRows, late, object, jobs, history>>

Unlocked == {"cancel", "cancelled", "get", "got", "expire", "expired", "clean"}

CompleteCommit(c) ==
  /\ Goes(c, "completing", "enqueue")
  /\ upload' = "COMPLETED" /\ attachment' = "PROCESSING"
  /\ overtaken' = (overtaken \/ \E a \in Calls \cup Workers : at[a] \in Unlocked)
  /\ UNCHANGED <<late, object, jobs, outcomes, lost>>

\* The job id is stable: a second add changes nothing.
Enqueue(c) ==
  /\ Goes(c, "enqueue", "idle")
  /\ job' = IF job.state = "none" THEN [job EXCEPT !.state = "waiting"] ELSE job
  /\ UNCHANGED <<mediaRows, late, object, cleanup, history>>

\* A request stops; after the commit, or if Redis refuses, the job is lost.
CallFails(c) ==
  /\ at[c] # "idle" /\ at' = [at EXCEPT ![c] = "idle"]
  /\ lost' = IF at[c] = "enqueue" THEN lost \cup {"enqueue"} ELSE lost
  /\ UNCHANGED <<mediaRows, late, object, jobs, outcomes, overtaken>>

-----------------------------------------------------------------------------
(* The job that processes the attachment *)

\* An attachment that is not PROCESSING ends the job.
TakeJob(w) ==
  /\ job.state = "waiting"
  /\ IF attachment = "PROCESSING"
       THEN Goes(w, "idle", "scan") /\ job' = [job EXCEPT !.state = "active"]
       ELSE Goes(w, "idle", "idle") /\ job' = [job EXCEPT !.state = "done"]
  /\ UNCHANGED <<mediaRows, late, object, cleanup, history>>

LastAttempt == job.failed + 1 >= JobAttempts

\* The read of the row, outside the try, fails: the attempt is used up, and after the
\* last one the job has failed without markFailed.
ReadFails(w) ==
  /\ job.state = "waiting" /\ Goes(w, "idle", "idle")
  /\ IF LastAttempt
       THEN job' = [job EXCEPT !.state = "failed"] /\ lost' = lost \cup {"read"}
       ELSE job' = [job EXCEPT !.failed = @ + 1] /\ UNCHANGED lost
  /\ UNCHANGED <<mediaRows, late, object, cleanup, outcomes, overtaken>>

TellOutcome(outcome) == outcomes' = Append(outcomes, outcome)

Done == job' = [job EXCEPT !.state = "done"]

\* Mutant: the outcome is written whatever the row says.
SettleBlindly(outcome) == attachment' = outcome /\ TellOutcome(outcome)

\* The row is written, and its event appended, only while it is PROCESSING.
Settle(outcome) ==
  IF attachment = "PROCESSING" THEN attachment' = outcome /\ TellOutcome(outcome)
                               ELSE UNCHANGED <<attachment, outcomes>>

\* INFECTED or UNKNOWN.
Reject(w) ==
  /\ Goes(w, "scan", "idle") /\ Done
  /\ Settle("QUARANTINED") \/ Settle("FAILED")
  /\ UNCHANGED <<upload, late, object, cleanup, lost, overtaken>>

\* The object was there when it was read.
Accept(w) ==
  /\ Goes(w, "scan", "idle") /\ Done
  /\ Settle("READY")
  /\ UNCHANGED <<upload, late, object, cleanup, lost, overtaken>>

\* Mutant: the last attempt is not told from the others.
ProcessFailsUnmarked(w) ==
  /\ Goes(w, "scan", "idle")
  /\ job' = [job EXCEPT !.state = IF LastAttempt THEN "failed" ELSE "waiting", !.failed = @ + 1]
  /\ UNCHANGED <<mediaRows, late, object, cleanup, history>>

\* No object, a scanner that fails, a statement that fails: the last attempt goes
\* on to markFailed, the others are retried.
ProcessFails(w) ==
  /\ Goes(w, "scan", IF LastAttempt THEN "fail" ELSE "idle")
  /\ job' = IF LastAttempt THEN job ELSE [job EXCEPT !.state = "waiting", !.failed = @ + 1]
  /\ UNCHANGED <<mediaRows, late, object, cleanup, history>>

MarkRead(w) ==
  /\ Goes(w, "fail", IF attachment = "PROCESSING" THEN "mark" ELSE "idle")
  /\ job' = IF attachment = "PROCESSING" THEN job ELSE [job EXCEPT !.state = "failed"]
  /\ UNCHANGED <<mediaRows, late, object, cleanup, history>>

\* The row was read without a lock.
MarkFailed(w) ==
  /\ Goes(w, "mark", "idle") /\ job' = [job EXCEPT !.state = "failed"]
  /\ attachment' = "FAILED" /\ TellOutcome("FAILED")
  /\ UNCHANGED <<upload, late, object, cleanup, lost, overtaken>>

\* markFailed fails at its read, its writes or its commit: there is no attempt after it.
MarkingFails(w) ==
  /\ \/ Goes(w, "fail", "idle")
     \/ Goes(w, "mark", "idle")
  /\ job' = [job EXCEPT !.state = "failed"] /\ lost' = lost \cup {"mark"}
  /\ UNCHANGED <<mediaRows, late, object, cleanup, outcomes, overtaken>>

Busy == {w \in Workers : at[w] \in {"scan", "fail", "mark"}}

\* The lock of an active job runs out: BullMQ gives it to another worker, while
\* this one may still be at work; more often than allowed, and the job fails.
Stall ==
  /\ job.state = "active"
  /\ \/ UNCHANGED at
     \/ \E w \in Busy : at' = [at EXCEPT ![w] = "idle"]
  /\ job' = [job EXCEPT !.stalls = @ + 1,
                        !.state = IF job.stalls < MaxStalls THEN "waiting" ELSE "failed"]
  /\ lost' = IF job.stalls < MaxStalls THEN lost ELSE lost \cup {"stall"}
  /\ UNCHANGED <<mediaRows, late, object, cleanup, outcomes, overtaken>>

-----------------------------------------------------------------------------
(* The job that cleans up *)

CleansUp == upload \in {"OPEN", "EXPIRED"}

TakeCleanup(w) ==
  /\ cleanup = "waiting" /\ late
  /\ IF CleansUp
       THEN Goes(w, "idle", IF upload = "OPEN" THEN "expire" ELSE "clean") /\ cleanup' = "active"
       ELSE Goes(w, "idle", "idle") /\ cleanup' = "done"
  /\ UNCHANGED <<mediaRows, late, object, job, history>>

ExpireSession(w) ==
  /\ SessionFree /\ Goes(w, "expire", "expired")
  /\ upload' = IF upload = "OPEN" THEN "EXPIRED" ELSE upload
  /\ UNCHANGED <<attachment, late, object, jobs, history>>

ExpireAttachment(w) ==
  /\ Goes(w, "expired", "clean")
  /\ attachment' = IF attachment = "UPLOADING" THEN "DELETED" ELSE attachment
  /\ UNCHANGED <<upload, late, object, jobs, history>>

DeleteObject(w) ==
  /\ Goes(w, "clean", "idle") /\ cleanup' = "done"
  /\ object' = FALSE
  /\ UNCHANGED <<mediaRows, late, job, history>>

\* A failed or stalled cleanup is tried again.
CleanupFails(w) ==
  /\ at[w] \in {"expire", "expired", "clean"} /\ at' = [at EXCEPT ![w] = "idle"]
  /\ cleanup' = "waiting"
  /\ UNCHANGED <<mediaRows, late, object, job, history>>

MediaNext ==
  \/ CreateAttachment \/ CreateSession \/ Put \/ UploadTimesOut \/ Stall
  \/ \E c \in Calls :
       \/ CancelRead(c) \/ CancelSession(c) \/ CancelAttachment(c) \/ CancelObject(c)
       \/ GetRead(c) \/ GetSession(c) \/ GetAttachment(c)
       \/ CompleteLock(c) \/ CompleteCommit(c) \/ Enqueue(c) \/ CallFails(c)
  \/ \E w \in Workers :
       \/ TakeJob(w) \/ ReadFails(w) \/ Reject(w) \/ Accept(w) \/ ProcessFails(w)
       \/ MarkRead(w) \/ MarkFailed(w) \/ MarkingFails(w)
       \/ TakeCleanup(w) \/ ExpireSession(w) \/ ExpireAttachment(w) \/ DeleteObject(w)
       \/ CleanupFails(w)

MediaSpec == MediaInit /\ [][MediaNext]_mediaVars

-----------------------------------------------------------------------------
(* Properties *)

\* An attachment that is PROCESSING has a job that will settle it, or a request
\* about to add one, but for four failures the code has no answer to: the request
\* stopped before the add, BullMQ gave the job up after too many stalls, or in the last
\* attempt the read before the try or markFailed itself failed.
ProcessingHasJob ==
  attachment = "PROCESSING" =>
    \/ job.state \in {"waiting", "active"}
    \/ \E c \in Calls : at[c] = "enqueue"
    \/ \E w \in Workers : at[w] \in {"scan", "fail", "mark"}
    \/ lost # {}

\* What a user can download is there, unless the cleanup job had read the session
\* before complete committed.
ReadyHasObject == attachment = "READY" => object \/ overtaken

\* An upload ends whole: processed by a job that exists, and with its object.
UploadsAreWhole == ProcessingHasJob /\ ReadyHasObject

\* A status that was reached is the one told last; it is told once, and again only as
\* FAILED, at most once for each time that a stalled job was given to another worker.
OutcomesAreTold ==
  /\ attachment \in Outcomes => outcomes # <<>> /\ outcomes[Len(outcomes)] = attachment
  /\ \A i \in 2..Len(outcomes) : outcomes[i] = "FAILED"
  /\ Len(outcomes) <= 1 + job.stalls /\ Len(outcomes) <= 1 + MaxStalls
=============================================================================
