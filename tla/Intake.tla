------------------------------- MODULE Intake -------------------------------
(***************************************************************************)
(* How a video comes in: the cloud's resumable upload with the completion  *)
(* that turns its object into an ingest job (services/uploads.py), uploads *)
(* through the API (IngestService.accept), and the ingest jobs of both,    *)
(* which must not store one content twice (services/ingest.py).            *)
(*                                                                         *)
(* The job queue is taken by its contract, JobLifecycle; a job is given up *)
(* here when no worker runs it.  Module VideoFlow has the life of a video  *)
(* from its ingest job on, including workers that outlive their lease.     *)
(***************************************************************************)
EXTENDS ResumableUpload

CONSTANTS
    Direct,     \* the video of the resumable upload
    Others,     \* videos uploaded through the API
    Contents,   \* what a file holds: equal contents have equal checksums
    Uploaded,   \* the content of Direct, given: contents differ in nothing else
    Callers     \* requests to complete the upload

Videos == {Direct} \cup Others
NoSha  == "NULL"

ASSUME IntakeAssumption ==
    /\ Direct \notin Others
    /\ Uploaded \in Contents
    /\ NoSha \notin Contents

VARIABLES
    content,   \* the content of each file
    status,    \* VideoAsset.status, "absent" before there is a row
    sha,       \* VideoAsset.original_sha256, unique
    temporary, \* the temporary uploads still in the storage
    job,       \* status of the ingest job
    stage,     \* stage[v]: where the accepting request, then the handler stand
    original,  \* the originals published
    caller,    \* caller[c]: where a completion stands, and its answer
    whole      \* whole[c], history: the object was whole when c began

rowVars == <<status, sha>>
intakeVars == <<content, rowVars, temporary, job, stage, original, caller, whole>>
vars == <<uploadVars, intakeVars>>

Queue == INSTANCE JobLifecycle WITH
    Jobs   <- Videos,
    state  <- job,
    starts <- [v \in Videos |-> IF job[v] \in {"absent", "queued"} THEN 0 ELSE 1]

Handlers == {"begun", "checked", "hashed", "published", "ready"}
Answers  == {"accepted", "incomplete", "refused"}

TypeOK ==
    /\ UploadTypeOK
    /\ content \in [Videos -> Contents]
    /\ status \in [Videos -> {"absent", "UPLOADING", "VALIDATING", "PROXYING",
                              "READY_FOR_REVIEW", "FAILED"}]
    /\ sha \in [Videos -> Contents \cup {NoSha}]
    /\ temporary \in SUBSET Videos
    /\ job \in [Videos -> Queue!States]
    /\ stage \in [Videos -> Handlers \cup {"none", "received", "looked", "duplicate", "escaped",
                                           "returned", "raising", "raised", "dead"}]
    /\ original \in SUBSET Videos
    /\ caller \in [Callers -> {"idle", "loaded", "verified", "missing"} \cup Answers]
    /\ whole \in [Callers -> BOOLEAN]

Init ==
    /\ UploadInit
    /\ content \in [Videos -> Contents] /\ content[Direct] = Uploaded
    /\ status = [v \in Videos |-> "absent"]
    /\ sha = [v \in Videos |-> NoSha]
    /\ temporary = {}
    /\ job = [v \in Videos |-> "absent"]
    /\ stage = [v \in Videos |-> "none"]
    /\ original = {}
    /\ caller = [c \in Callers |-> "idle"]
    /\ whole = [c \in Callers |-> FALSE]

Move(v, from, to) == stage[v] = from /\ stage' = [stage EXCEPT ![v] = to]
SetStatus(v, s)   == status' = [status EXCEPT ![v] = s]

Goto(v, from, to) ==
    /\ Move(v, from, to)
    /\ UNCHANGED <<uploadVars, content, rowVars, temporary, job, original, caller, whole>>

-----------------------------------------------------------------------------
(* The resumable upload.                                                   *)

\* UploadService.initiate
Initiate ==
    /\ Open
    /\ SetStatus(Direct, "UPLOADING")
    /\ UNCHANGED <<content, sha, temporary, job, stage, original, caller, whole>>

\* The object appears when its last byte is committed.
StoreCommits ==
    /\ Commit
    /\ temporary' = IF Whole' THEN temporary \cup {Direct} ELSE temporary
    /\ UNCHANGED <<content, rowVars, job, stage, original, caller, whole>>

BrowserSteps == (Step \/ Close) /\ UNCHANGED intakeVars

Reply(c, from, to) == caller[c] = from /\ caller' = [caller EXCEPT ![c] = to]
AlreadyAccepted    == job[Direct] # "absent"

\* UploadService.complete: the first load.
BeginComplete(c) ==
    /\ status[Direct] # "absent"
    /\ Reply(c, "idle", IF AlreadyAccepted THEN "accepted" ELSE "loaded")
    /\ whole' = [whole EXCEPT ![c] = Whole]
    /\ UNCHANGED <<uploadVars, content, rowVars, temporary, job, stage, original>>

\* Faulty variant: the object is taken to be there once the browser says so.
VerifyNothing(c) ==
    /\ phase = "sent" /\ Reply(c, "loaded", "verified")
    /\ UNCHANGED <<uploadVars, content, rowVars, temporary, job, stage, original, whole>>

\* storage.verify_object_metadata: the object exists once it is whole.
Verify(c) ==
    /\ Reply(c, "loaded", IF Direct \in temporary THEN "verified" ELSE "missing")
    /\ UNCHANGED <<uploadVars, content, rowVars, temporary, job, stage, original, whole>>

\* Faulty variant: the second load is dropped.
AnswerMissing(c) ==
    /\ Reply(c, "missing", "incomplete")
    /\ UNCHANGED <<uploadVars, content, rowVars, temporary, job, stage, original, whole>>

LoadAgain(c) ==
    /\ Reply(c, "missing", IF AlreadyAccepted THEN "accepted" ELSE "incomplete")
    /\ UNCHANGED <<uploadVars, content, rowVars, temporary, job, stage, original, whole>>

\* IngestService.enqueue_direct_upload, under the lock of the video's row.
EnqueueDirect(c) ==
    /\ \/ /\ AlreadyAccepted
          /\ Reply(c, "verified", "accepted")
          /\ UNCHANGED <<status, job>>
       \/ /\ ~AlreadyAccepted /\ status[Direct] # "UPLOADING"
          /\ Reply(c, "verified", "refused")
          /\ UNCHANGED <<status, job>>
       \/ /\ ~AlreadyAccepted /\ status[Direct] = "UPLOADING"
          /\ Reply(c, "verified", "accepted")
          /\ SetStatus(Direct, "VALIDATING")
          /\ Queue!Request(Direct)
    /\ UNCHANGED <<uploadVars, content, sha, temporary, stage, original, whole>>

-----------------------------------------------------------------------------
(* IngestService.accept: the upload is stored, then looked for, then       *)
(* committed with its checksum, which the database keeps unique.           *)

Duplicate(v) == \E w \in Videos \ {v} : sha[w] = content[v]

Receive(v) ==
    /\ v \in Others
    /\ Move(v, "none", "received")
    /\ job[v] = "absent"
    /\ temporary' = temporary \cup {v}
    /\ UNCHANGED <<uploadVars, content, rowVars, job, original, caller, whole>>

LookBeforeAccepting(v) ==
    \/ /\ Duplicate(v) /\ Move(v, "received", "duplicate")
       /\ temporary' = temporary \ {v}
       /\ UNCHANGED <<uploadVars, content, rowVars, job, original, caller, whole>>
    \/ ~Duplicate(v) /\ Goto(v, "received", "looked")

InsertRow(v) ==
    /\ Move(v, "looked", "none")
    /\ SetStatus(v, "VALIDATING")
    /\ sha' = [sha EXCEPT ![v] = content[v]]
    /\ Queue!Request(v)
    /\ UNCHANGED <<uploadVars, content, temporary, original, caller, whole>>

\* The row goes to the database with the flush, before the clause that removes
\* the upload of a loser begins: the error escapes, and the upload stays.
Accept(v) ==
    \/ Duplicate(v) /\ Goto(v, "looked", "escaped")
    \/ ~Duplicate(v) /\ InsertRow(v)

-----------------------------------------------------------------------------
(* IngestService.execute.  A direct upload is hashed here, the checksum of *)
(* the others is known.                                                    *)

Start(v) ==
    /\ Queue!Start(v)
    /\ stage' = [stage EXCEPT ![v] = IF v = Direct THEN "begun" ELSE "hashed"]
    /\ UNCHANGED <<uploadVars, content, rowVars, temporary, original, caller, whole>>

\* _prepare_direct_upload: the query for a duplicate, then the commit.
LookBeforeHashing(v) == Goto(v, "begun", IF Duplicate(v) THEN "raising" ELSE "checked")

\* Faulty variant: the checksum is not unique in the database.
RecordAnyChecksum(v) ==
    /\ Move(v, "checked", "hashed")
    /\ SetStatus(v, "VALIDATING")
    /\ sha' = [sha EXCEPT ![v] = content[v]]
    /\ UNCHANGED <<uploadVars, content, temporary, job, original, caller, whole>>

RecordChecksum(v) ==
    \/ Duplicate(v) /\ Goto(v, "checked", "raising")
    \/ /\ ~Duplicate(v) /\ Move(v, "checked", "hashed")
       /\ SetStatus(v, "VALIDATING")
       /\ sha' = [sha EXCEPT ![v] = content[v]]
       /\ UNCHANGED <<uploadVars, content, temporary, job, original, caller, whole>>

\* _finalize: the original is published; its proxy follows.
PublishOriginal(v) ==
    /\ Move(v, "hashed", "published")
    /\ original' = original \cup {v}
    /\ SetStatus(v, "PROXYING")
    /\ UNCHANGED <<uploadVars, content, sha, temporary, job, caller, whole>>

CommitReady(v) ==
    /\ Move(v, "published", "ready")
    /\ SetStatus(v, "READY_FOR_REVIEW")
    /\ UNCHANGED <<uploadVars, content, sha, temporary, job, original, caller, whole>>

\* The media is refused, a tool or the storage fails, or the row of the job is
\* no longer running when progress is reported.
Break(v) == stage[v] \in Handlers /\ Goto(v, stage[v], "raising")

\* Faulty variant: the clean-up is left out when the handler raises.
LeaveOnSuccess(v) ==
    /\ \/ Move(v, "ready", "returned") /\ temporary' = temporary \ {v}
       \/ Move(v, "raising", "raised") /\ UNCHANGED temporary
    /\ UNCHANGED <<uploadVars, content, rowVars, job, original, caller, whole>>

\* _finalize_with_cleanup: the temporary upload goes on either way out.
Leave(v) ==
    /\ \/ Move(v, "ready", "returned")
       \/ Move(v, "raising", "raised")
    /\ temporary' = temporary \ {v}
    /\ UNCHANGED <<uploadVars, content, rowVars, job, original, caller, whole>>

Complete(v) ==
    /\ stage[v] = "returned"
    /\ Queue!Complete(v)
    /\ UNCHANGED <<uploadVars, content, rowVars, temporary, stage, original, caller, whole>>

\* JobExecutor._fail_job; without a worker it is done by the reconciler, or at
\* the next start, which fails queued jobs as well.
Fail(v) ==
    /\ stage[v] \in {"raised", "dead"} \/ job[v] = "queued"
    /\ job[v] \in Queue!Unfinished
    /\ job' = [job EXCEPT ![v] = "failed"]
    /\ SetStatus(v, "FAILED")
    /\ UNCHANGED <<uploadVars, content, sha, temporary, stage, original, caller, whole>>

Die(v) == stage[v] \in Handlers \cup {"raising"} /\ Goto(v, stage[v], "dead")

Next ==
    \/ Initiate \/ StoreCommits \/ BrowserSteps
    \/ \E c \in Callers : BeginComplete(c) \/ Verify(c) \/ LoadAgain(c) \/ EnqueueDirect(c)
    \/ \E v \in Videos :
        \/ Receive(v) \/ LookBeforeAccepting(v) \/ Accept(v)
        \/ Start(v) \/ LookBeforeHashing(v) \/ RecordChecksum(v) \/ PublishOriginal(v)
        \/ CommitReady(v) \/ Break(v) \/ Leave(v) \/ Complete(v) \/ Fail(v) \/ Die(v)

\* The browser's loop goes on by itself: a fetch ends with an answer or an error.
Spec == Init /\ [][Next]_vars /\ WF_vars(Step /\ UNCHANGED intakeVars)

-----------------------------------------------------------------------------
(***************************************************************************)
(* A video is ingested only when every byte of it has reached the store,   *)
(* whatever the browser believes, and however often and by whomever the    *)
(* completion is asked for (uploads.py:144-186).                           *)
(***************************************************************************)
AcceptedIsWhole == job[Direct] # "absent" => Whole

(***************************************************************************)
(* A completion asked for once the object is whole is accepted, also when  *)
(* another one was first and the ingest job has already taken the object   *)
(* away: it is safe to ask again after an answer was lost.                 *)
(***************************************************************************)
CompletionIsIdempotent ==
    \A c \in Callers : caller[c] \in {"incomplete", "refused"} => ~whole[c]

(***************************************************************************)
(* No content is stored as the original of two videos, though every path   *)
(* looks for duplicates before it commits (ingest.py:132-182 and 481-510). *)
(***************************************************************************)
ContentStoredOnce ==
    \A v, w \in original : v # w => content[v] # content[w]

TemporaryHasAUser ==
    \A v \in Videos :
        /\ job[v] = "queued" \/ stage[v] \in Handlers => v \in temporary
        /\ stage[v] \in {"duplicate", "returned", "raised"} => v \notin temporary
        /\ stage[v] = "escaped" => v \in temporary

(***************************************************************************)
(* The temporary upload is there for as long as a job may have to read it, *)
(* and is gone when a request that found a duplicate, or the handler, is   *)
(* done with it.  A process that died and a job that was never started     *)
(* leave theirs behind, and so does a request that loses the race for the  *)
(* checksum: the clause that would remove its upload (ingest.py:172-180)   *)
(* begins after the flush that raises (168).  With the types of the        *)
(* variables (ingest.py:101-183, 331-366).                                 *)
(***************************************************************************)
IntakeIsConsistent == TypeOK /\ TemporaryHasAUser

(***************************************************************************)
(* Every resumable upload ends: retries without progress are counted, and  *)
(* a file has only so many bytes of progress to make.                      *)
(***************************************************************************)
UploadEnds == phase # "none" ~> phase \in Ended

=============================================================================
