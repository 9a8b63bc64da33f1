------------------------------ MODULE VideoFlow ------------------------------
(***************************************************************************)
(* One video between upload and export: its status, what ingest, detection *)
(* and export jobs do to it, and the requests of reviewers that race with  *)
(* them (services/ingest.py, processing.py, export.py, review.py and the   *)
(* failure paths of jobs.py).  The job queue is taken by its contract,     *)
(* module JobLifecycle, which module Jobs implements.                      *)
(*                                                                         *)
(* A handler is a sequence of transactions; between any two of them other  *)
(* requests and jobs run.  Reading a row and writing it back is one step   *)
(* where the code does so at once, and two where it works in between       *)
(* (requesting an export, the last transactions of detection and export).  *)
(* An ORM session writes only the columns it changed: where the new status *)
(* equals the status it read, the status of the row stays what it is.      *)
(***************************************************************************)
EXTENDS Integers, FiniteSets

CONSTANTS
    Ingest,        \* the ingest job
    Detects,       \* detection jobs, each with its model run
    Exports,       \* export jobs, each with its artifact
    NoRun,         \* active_model_run_id is NULL
    Deployments,   \* the deployments considered
    MaxRevision    \* bound: in each deployment, reviewers stop editing at a revision

Jobs == {Ingest} \cup Detects \cup Exports

\* "timely" is the cloud deployment while heartbeats keep time: a lease
\* expires only after its worker died (NoZombie of module Jobs).
ASSUME FlowAssumption ==
    /\ Ingest \notin Detects \cup Exports
    /\ Detects \cap Exports = {}
    /\ NoRun \notin Detects
    /\ Deployments \subseteq {"local", "timely", "cloud"}
    /\ MaxRevision \in [Deployments -> Nat]

VARIABLES
    deployment,  \* fixed
    job,         \* ProcessingJob.status
    starts,      \* ProcessingJob.attempts
    stage,       \* stage[j]: how far the execution of job j has come
    status,      \* VideoAsset.status
    revision,    \* VideoAsset.review_revision
    activeRun,   \* VideoAsset.active_model_run_id
    original,    \* original_uri is set
    proxy,       \* proxy_uri is set
    proxyFile,   \* the proxy is in the storage
    runs,        \* ModelRun.status
    artifact,    \* ExportArtifact.status
    frozen,      \* ExportArtifact.source_model_run_id
    rendered,    \* the model run whose tracks the renderer read
    files,       \* the exported video and its manifest are in the storage
    seen,        \* seen[e]: what the open session of e has read of the video
    editing      \* revision the reviewer's open session has read, or NoEdit

videoVars  == <<status, revision, activeRun, original, proxy, proxyFile>>
exportVars == <<artifact, frozen, rendered, files>>
vars == <<deployment, job, starts, stage, videoVars, runs, exportVars, seen, editing>>

NoEdit   == -1
Local    == deployment = "local"
Statuses == {"VALIDATING", "PROXYING", "READY_FOR_REVIEW", "PROCESSING",
             "EXPORTING", "EXPORTED", "FAILED"}
Stages   == {"none", "requesting", "begun", "working", "read", "rendered", "verified", "published",
             "closing", "committed", "returned", "raising", "raised"}
Views    == [status : Statuses, revision : Nat, run : Detects \cup {NoRun}]
View     == [status |-> status, revision |-> revision, run |-> activeRun]
NoView   == [status |-> "VALIDATING", revision |-> 0, run |-> NoRun]

Queue == INSTANCE JobLifecycle WITH state <- job

Finished(j)   == job[j] \in Queue!Outcomes
Unfinished(j) == job[j] \in Queue!Unfinished
Handlers      == Stages \ {"none", "requesting", "returned", "raising", "raised"}

TypeOK ==
    /\ deployment \in Deployments
    /\ job \in [Jobs -> Queue!States]
    /\ starts \in [Jobs -> Nat]
    /\ stage \in [Jobs -> Stages]
    /\ status \in Statuses
    /\ revision \in Nat
    /\ activeRun \in Detects \cup {NoRun}
    /\ original \in BOOLEAN /\ proxy \in BOOLEAN /\ proxyFile \in BOOLEAN
    /\ runs \in [Detects -> {"absent", "queued", "running", "completed", "failed"}]
    /\ artifact \in [Exports -> {"absent", "queued", "rendering", "verifying",
                                 "completed", "failed"}]
    /\ frozen \in [Exports -> Detects \cup {NoRun}]
    /\ rendered \in [Exports -> Detects \cup {NoRun}]
    /\ files \in [Exports -> BOOLEAN]
    /\ seen \in [Exports -> Views]
    /\ editing \in {NoEdit} \cup Nat

\* IngestService.accept has created the video with its ingest job.
Init ==
    /\ deployment \in Deployments
    /\ job = [j \in Jobs |-> IF j = Ingest THEN "queued" ELSE "absent"]
    /\ starts = [j \in Jobs |-> 0]
    /\ stage = [j \in Jobs |-> "none"]
    /\ status = "VALIDATING"
    /\ revision = 0
    /\ activeRun = NoRun
    /\ original = FALSE /\ proxy = FALSE /\ proxyFile = FALSE
    /\ runs = [d \in Detects |-> "absent"]
    /\ artifact = [e \in Exports |-> "absent"]
    /\ frozen = [e \in Exports |-> NoRun]
    /\ rendered = [e \in Exports |-> NoRun]
    /\ files = [e \in Exports |-> FALSE]
    /\ seen = [e \in Exports |-> NoView]
    /\ editing = NoEdit

-----------------------------------------------------------------------------
(* Requests.                                                               *)

MayDetect == proxy /\ proxyFile /\ status = "READY_FOR_REVIEW" /\ revision = 0

RequestDetect(d) ==
    /\ MayDetect
    /\ \A other \in Detects : ~Unfinished(other)
    /\ Queue!Request(d)
    /\ status' = "PROCESSING"
    /\ runs' = [runs EXCEPT ![d] = "queued"]
    /\ UNCHANGED <<deployment, stage, revision, activeRun, original, proxy, proxyFile,
                   exportVars, seen, editing>>

Read(e, from, to) ==
    /\ stage[e] = from
    /\ stage' = [stage EXCEPT ![e] = to]
    /\ seen' = [seen EXCEPT ![e] = View]
    /\ UNCHANGED <<deployment, job, starts, videoVars, runs, exportVars, editing>>

\* The request reads the video and builds the snapshot for its warnings.
\* Only the original is required; the status is not looked at.
RequestExport(e) == job[e] = "absent" /\ original /\ Read(e, "none", "requesting")

\* The session ends, and what it has read with it.
CloseSession(S) == seen' = [e \in Exports |-> IF e \in S THEN NoView ELSE seen[e]]

\* Writing the status s by a session that has read the status old.
SetStatus(old, s) == status' = IF old = s THEN status ELSE s

CommitExport(e) ==
    /\ stage[e] = "requesting"
    /\ revision = seen[e].revision
    /\ Queue!Request(e)
    /\ stage' = [stage EXCEPT ![e] = "none"]
    /\ artifact' = [artifact EXCEPT ![e] = "queued"]
    /\ frozen' = [frozen EXCEPT ![e] = seen[e].run]
    /\ CloseSession({e})
    /\ revision' = revision + 1
    /\ SetStatus(seen[e].status, "EXPORTING")
    /\ UNCHANGED <<deployment, activeRun, original, proxy, proxyFile, runs,
                   rendered, files, editing>>

\* The revision has moved on, or the request dies.
ExportRefused(e) ==
    /\ stage[e] = "requesting"
    /\ stage' = [stage EXCEPT ![e] = "none"]
    /\ CloseSession({e})
    /\ UNCHANGED <<deployment, job, starts, videoVars, runs, exportVars, editing>>

\* append_review_action; what it appends is the matter of ReviewLog.
BeginEdit ==
    /\ editing = NoEdit
    /\ revision < MaxRevision[deployment]
    /\ status \in {"READY_FOR_REVIEW", "EXPORTING", "EXPORTED"}
    /\ editing' = revision
    /\ UNCHANGED <<deployment, job, starts, stage, videoVars, runs, exportVars, seen>>

EndEdit ==
    /\ editing # NoEdit
    /\ editing' = NoEdit
    /\ revision' \in {revision} \cup (IF revision = editing THEN {revision + 1} ELSE {})
    /\ UNCHANGED <<deployment, job, starts, stage, status, activeRun, original, proxy,
                   proxyFile, runs, exportVars, seen>>

-----------------------------------------------------------------------------
(* Executions: what all handlers have in common.                           *)

Start(j) ==
    /\ Queue!Start(j)
    /\ stage' = [stage EXCEPT ![j] = "begun"]
    /\ UNCHANGED <<deployment, videoVars, runs, exportVars, seen, editing>>

Advance(j, from, to) ==
    /\ stage[j] = from
    /\ stage' = [stage EXCEPT ![j] = to]
    /\ CloseSession({j})
    /\ UNCHANGED <<deployment, job, starts, editing>>

\* context.update raises unless the job is still running.
Alive(j) == job[j] = "running"

Return(j) ==
    /\ Alive(j)
    /\ Advance(j, "committed", "returned")
    /\ UNCHANGED <<videoVars, runs, exportVars>>

\* Media, storage and the database may fail anywhere, and context.update
\* raises once the job is no longer running.
Raise(j) ==
    /\ stage[j] \in Handlers
    /\ stage' = [stage EXCEPT ![j] = "raising"]
    /\ CloseSession({j})
    /\ UNCHANGED <<deployment, job, starts, videoVars, runs, exportVars, editing>>

Complete(j) ==
    /\ stage[j] = "returned"
    /\ \/ Queue!Complete(j)
       \/ ~Alive(j) /\ UNCHANGED <<job, starts>>
    /\ stage' = [stage EXCEPT ![j] = "none"]
    /\ UNCHANGED <<deployment, videoVars, runs, exportVars, seen, editing>>

\* Faulty variant: after a failure the video is open for anything again.
AlwaysReady(j) == "READY_FOR_REVIEW"

FailedStatus(j) == IF j \in Exports THEN "READY_FOR_REVIEW" ELSE "FAILED"

\* Faulty variant: the row of the job is all that a failure changes.
FailRows(S) == UNCHANGED <<status, artifact>>

\* What _fail_job does to the video and the artifacts of the jobs in S; the
\* job that comes last decides on the status of the video.
FailVideo(S) ==
    /\ \E last \in S : status' = FailedStatus(last)
    /\ artifact' = [e \in Exports |-> IF e \in S THEN "failed" ELSE artifact[e]]

OthersOfFailure ==
    UNCHANGED <<deployment, revision, activeRun, original, proxy, proxyFile, runs,
                frozen, rendered, files>>

\* The write is not conditional on the status of the job.
MarkFailed(j) ==
    /\ stage[j] = "raised"
    /\ stage' = [stage EXCEPT ![j] = "none"]
    /\ job' = [job EXCEPT ![j] = "failed"]
    /\ FailVideo({j})
    /\ OthersOfFailure
    /\ UNCHANGED <<starts, seen, editing>>

\* A container may be killed anywhere; in the API process it is the write
\* of an outcome that may raise, with the thread going on to the next job.
WorkerDies(j) ==
    /\ stage[j] \notin {"none", "requesting"}
    /\ Local => stage[j] \in {"raised", "returned"}
    /\ stage' = [stage EXCEPT ![j] = "none"]
    /\ CloseSession({j})
    /\ UNCHANGED <<deployment, job, starts, videoVars, runs, exportVars, editing>>

\* The reconciler gives up the jobs whose lease has expired.
Expire(S) ==
    /\ ~Local
    /\ S # {}
    /\ \A j \in S : Alive(j) /\ (deployment = "timely" => stage[j] = "none")
    /\ Queue!GiveUp(S)
    /\ FailVideo(S)
    /\ OthersOfFailure
    /\ UNCHANGED <<stage, seen, editing>>

\* The API process is restarted: its threads and requests are gone, and
\* recover_interrupted_jobs gives up what they left behind.
Restart ==
    /\ Local
    /\ LET interrupted == {j \in Jobs : Unfinished(j)}
       IN  /\ Queue!GiveUp(interrupted)
           /\ IF interrupted = {} THEN UNCHANGED <<status, artifact>>
                                  ELSE FailVideo(interrupted)
    /\ stage' = [j \in Jobs |-> "none"]
    /\ editing' = NoEdit
    /\ CloseSession(Exports)
    /\ OthersOfFailure

-----------------------------------------------------------------------------
(* The ingest handler.                                                     *)

SetOriginal ==
    /\ Advance(Ingest, "begun", "working")
    /\ original' = TRUE
    /\ status' = "PROXYING"
    /\ UNCHANGED <<revision, activeRun, proxy, proxyFile, runs, exportVars>>

PublishProxy ==
    /\ Alive(Ingest)
    /\ Advance(Ingest, "working", "published")
    /\ proxyFile' = TRUE
    /\ UNCHANGED <<status, revision, activeRun, original, proxy, runs, exportVars>>

FinishIngest ==
    /\ Advance(Ingest, "published", "committed")
    /\ proxy' = TRUE
    /\ status' = "READY_FOR_REVIEW"
    /\ UNCHANGED <<revision, activeRun, original, proxyFile, runs, exportVars>>

CleanUpIngest ==
    /\ Advance(Ingest, "raising", "raised")
    /\ proxyFile' \in {FALSE, proxyFile}
    /\ UNCHANGED <<status, revision, activeRun, original, proxy, runs, exportVars>>

-----------------------------------------------------------------------------
(* The detection handler.                                                  *)

StartRun(d) ==
    /\ Advance(d, "begun", "working")
    /\ runs' = [runs EXCEPT ![d] = "running"]
    /\ UNCHANGED <<videoVars, exportVars>>

\* The last session finds the video as the request left it, else it raises.
ReadForProposals(d) ==
    /\ Alive(d)
    /\ status = "PROCESSING" /\ revision = 0
    /\ Advance(d, "working", "closing")
    /\ UNCHANGED <<videoVars, runs, exportVars>>

CommitProposals(d) ==
    /\ Advance(d, "closing", "committed")
    /\ runs' = [runs EXCEPT ![d] = "completed"]
    /\ activeRun' = d
    /\ status' = "READY_FOR_REVIEW"
    /\ UNCHANGED <<revision, original, proxy, proxyFile, exportVars>>

CleanUpRun(d) ==
    /\ Advance(d, "raising", "raised")
    /\ runs' \in {[runs EXCEPT ![d] = "failed"], runs}
    /\ UNCHANGED <<videoVars, exportVars>>

-----------------------------------------------------------------------------
(* The export handler.                                                     *)

SetArtifact(e, s) == artifact' = [artifact EXCEPT ![e] = s]

OpenArtifact(e) ==
    /\ Advance(e, "begun", "working")
    /\ SetArtifact(e, "rendering")
    /\ UNCHANGED <<videoVars, runs, frozen, rendered, files>>

\* build_review_snapshot takes the tracks of the run that is active now.
ReadTracks(e) ==
    /\ Advance(e, "working", "read")
    /\ rendered' = [rendered EXCEPT ![e] = activeRun]
    /\ UNCHANGED <<videoVars, runs, artifact, frozen, files>>

Render(e) ==
    /\ Alive(e)
    /\ Advance(e, "read", "rendered")
    /\ UNCHANGED <<videoVars, runs, exportVars>>

Verify(e) ==
    /\ Advance(e, "rendered", "verified")
    /\ SetArtifact(e, "verifying")
    /\ UNCHANGED <<videoVars, runs, frozen, rendered, files>>

Publish(e) ==
    /\ Advance(e, "verified", "published")
    /\ files' = [files EXCEPT ![e] = TRUE]
    /\ UNCHANGED <<videoVars, runs, artifact, frozen, rendered>>

ReadForCompletion(e) == Read(e, "published", "closing")

\* Faulty variant: the artifact is completed before its files are there.
CommitEarly(e) ==
    /\ stage[e] \in {"verified", "closing"}
    /\ Advance(e, stage[e], "committed")
    /\ SetArtifact(e, "completed")
    /\ status' = "EXPORTED"
    /\ revision' = revision + 1
    /\ UNCHANGED <<activeRun, original, proxy, proxyFile, runs, frozen, rendered, files>>

\* The compare-and-set of the audit event covers the whole transaction.
CommitCompletion(e) ==
    /\ Advance(e, "closing", "committed")
    /\ revision = seen[e].revision
    /\ SetArtifact(e, "completed")
    /\ SetStatus(seen[e].status, "EXPORTED")
    /\ revision' = revision + 1
    /\ UNCHANGED <<activeRun, original, proxy, proxyFile, runs, frozen, rendered, files>>

CleanUpExport(e) ==
    /\ Advance(e, "raising", "raised")
    /\ files' \in {[files EXCEPT ![e] = FALSE], files}
    /\ UNCHANGED <<videoVars, runs, artifact, frozen, rendered>>

-----------------------------------------------------------------------------
HandlerStep(j) ==
    \/ Return(j)
    \/ Raise(j)
    \/ Complete(j)
    \/ MarkFailed(j)
    \/ j = Ingest /\ (SetOriginal \/ PublishProxy \/ FinishIngest \/ CleanUpIngest)
    \/ j \in Detects /\ (StartRun(j) \/ ReadForProposals(j) \/ CommitProposals(j) \/ CleanUpRun(j))
    \/ j \in Exports /\ (OpenArtifact(j) \/ ReadTracks(j) \/ Render(j) \/ Verify(j) \/ Publish(j)
                         \/ ReadForCompletion(j) \/ CommitCompletion(j) \/ CleanUpExport(j))

Requests ==
    \/ \E d \in Detects : RequestDetect(d)
    \/ \E e \in Exports : RequestExport(e) \/ CommitExport(e) \/ ExportRefused(e)
    \/ BeginEdit
    \/ EndEdit

Next ==
    \/ Requests
    \/ \E j \in Jobs : Start(j) \/ HandlerStep(j) \/ WorkerDies(j)
    \/ \E S \in SUBSET Jobs : Expire(S)
    \/ Restart

Spec == Init /\ [][Next]_vars

\* What module Jobs guarantees of the cloud deployment (EveryJobEnds): a
\* queued job is started, a handler ends or its lease expires.
CloudSpec ==
    Spec /\ \A j \in Jobs : WF_vars(Start(j)) /\ WF_vars(HandlerStep(j)) /\ WF_vars(Expire({j}))

-----------------------------------------------------------------------------
(* Properties                                                              *)

(***************************************************************************)
(* A video never waits for work nobody is going to do: while its status    *)
(* names an activity, a job of that kind is queued or running, whatever    *)
(* was restarted, expired or failed in between (jobs.py:96-121, 304-320,   *)
(* 393-417; the requests set the status and create the job in one          *)
(* transaction).  A paused ingest container that writes its status after   *)
(* its job was given up breaks it, so the cloud deployment promises it of  *)
(* detection and export only (ingest.py:381-397).                          *)
(***************************************************************************)
StatusHasWork ==
    /\ status = "PROCESSING" => \E d \in Detects : Unfinished(d)
    /\ status = "EXPORTING" => \E e \in Exports : Unfinished(e)
    /\ status \in {"VALIDATING", "PROXYING"} /\ deployment # "cloud" => Unfinished(Ingest)

(***************************************************************************)
(* The outcome of an export job and its artifact agree: a completed job    *)
(* means an artifact that can be downloaded, and, unless a paused worker   *)
(* writes after it was given up, a failed job means a failed artifact,     *)
(* even where the handler raised after its last commit (export.py:245-259, *)
(* 412-436; jobs.py:258-269).                                              *)
(***************************************************************************)
OutcomesAgree ==
    \A e \in Exports :
        /\ job[e] = "completed" => artifact[e] = "completed" /\ files[e]
        /\ job[e] = "failed" /\ deployment # "cloud" => artifact[e] = "failed"

UnderWay(d) == stage[d] \in {"begun", "working", "closing"}

(***************************************************************************)
(* No two detections of the video are ever under way at once, not even     *)
(* when the lease of the first ran out while its container was paused: it  *)
(* can still commit, but only the status it then writes lets a second      *)
(* request in (processing.py:223-261, 783-882).                            *)
(***************************************************************************)
OneDetector ==
    \A c, d \in Detects : UnderWay(c) /\ UnderWay(d) => c = d

(***************************************************************************)
(* Detection and export come to an end in the cloud deployment, and the    *)
(* video leaves their status (jobs.py:346-417).                            *)
(***************************************************************************)
ActivityEnds ==
    /\ status = "PROCESSING" ~> status # "PROCESSING"
    /\ status = "EXPORTING" ~> status # "EXPORTING"

(***************************************************************************)
(* "Exports rendered from a frozen review revision" (README.md:14): a      *)
(* completed artifact shows the tracks of the run it was requested for,    *)
(* the run its manifest names (export.py:201-209, 262-272, 389).  It does  *)
(* not hold: the request is accepted while detection is in its last        *)
(* transaction, which then replaces the active run before the renderer     *)
(* reads the tracks (processing.py:783-882).                               *)
(***************************************************************************)
FrozenTracksAreRendered ==
    \A e \in Exports : artifact[e] = "completed" => rendered[e] = frozen[e]

=============================================================================
