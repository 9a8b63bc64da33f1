# ClearFrame in TLA+

ClearFrame is a video redaction service. Reviewers upload a video, detectors
propose regions, reviewers correct them, and an export renders a redacted copy.
This directory models the parts of it that carry control: the job queue, the
review history, the life of a video between them, how a video comes in, what is
suggested around a correction, the repair of proxies, and the path of a frame
from the detectors to the export. TLC checks the models on small instances;
TLAPS proves the most important results for every instance.

Paths below are relative to `src/apps/api/src/clearframe/` unless they start
with `src/` or `apps/`.

## The system

| component | state | operations | talks to |
|---|---|---|---|
| job queue (`jobs.py`, `cloud_jobs.py`, `worker.py`, `reconcile.py`, `main.py`) | `processing_jobs`: status, attempts, lease, created_at; threads or containers; dispatches in flight | submit, enqueue, claim, heartbeat, update, complete, fail, reconcile, recover after restart | every service submits jobs; handlers run under it; `_fail_job` also writes videos and artifacts |
| review log (`services/review.py`) | `review_actions` (append only), `review_revision` of the video | edit, undo, redo, audit event; replay at a revision | workspace, export, suggestions |
| workspace (`apps/web/.../ReviewWorkspace.tsx`) | undo and redo stacks, snapshot, audit log | load snapshot or log, edit, undo, redo, push and pop | review log |
| ingest (`services/ingest.py`) | original, proxy, status of the video | accept, validate, publish original and proxy, clean up | queue, storage |
| detection (`services/processing.py`) | model runs, tracks, active run, status; frames in flight, a thread pool per detector | request, sample, detect, track, commit proposals, clean up | queue, review log (revision 0 only), tracker |
| export (`services/export.py`) | artifact, exported files, status, audit events | request, render, verify, publish, complete, clean up | queue, review log, storage |
| suggestions (`services/reprocessing.py`) | suggestions, their resolution | request, propagate, accept, dismiss | queue, review log |
| uploads (`services/uploads.py`, `apps/web/src/lib/resumableUpload.ts`) | upload session, committed offset, row in UPLOADING | initiate, send, recover offset, complete | storage, ingest |
| proxy repair (`services/proxy.py`) | proxy file, `metadata_json` | reconcile at startup, repair | queue, storage |
| rendering, tracker (`rendering.py`, `pipeline/tracking.py`) | cursors into the keyframes; tracks that may still grow | look up the redactions of a frame; associate, predict, smooth | export, detection |
| storage (`storage.py`, `gcs_storage.py`) | objects; originals are write once | publish, materialize, remove | all services |
| detectors, media, model registry, HTTP layer, user interface | none that outlives a call | | |

Components interact through the database and the storage only. A service
commits rows, then calls the dispatcher; a worker, possibly in another
container, claims the row and runs a handler made of several transactions. There
are two deployments: `local` (SQLite, threads of the API process) and `cloud`
(PostgreSQL, one Cloud Run execution per dispatch, a reconciler every five
minutes).

### What is hard

* *Concurrency.* Requests, workers and the reconciler meet in the rows. Some
  writes are compare-and-set (`_claim`, `append_review_action`,
  `processing.request`), some are not (`_mark_failed`, the last transactions of
  the handlers).
* *Failure.* A dispatch is lost or repeated, a container dies or is paused past
  its lease, the API restarts, a handler raises after its last commit.
* *Ordering.* Sessions read before they write; the ORM writes only what changed
  relative to what it read.
* *Timeouts.* Leases, heartbeats, the age of queued rows.

### What makes each component correct

* Queue: one execution per job, final outcomes, no revived lease, every job ends.
* Review log: one action per revision, true before-states, exact undo and redo,
  no edit lost, a revision names one document for ever.
* Video: a status that names an activity has a job behind it; an artifact agrees
  with its job; one detection at a time; activities end; the export shows what
  was frozen.
* Suggestions: resolved once and for good, never over a reviewer's keyframe, in
  the window and the span of the corrected track.
* Workspace: the stacks are what the log says, and what a button offers is
  accepted.
* Uploads: no byte skipped, retries end, only whole files are ingested, asking
  again is safe, one content is stored once, a temporary file is there as long
  as it is needed and removed afterwards.
* Proxy repair: never invalidates the timeline of existing tracks, its notes are
  true after any crash, a proxy is replaced only by a validated one.
* Sampling: no stretch of frames is passed over, no thread outlives the loop.
* Tracking, rendering: what was detected and not rejected is redacted in every
  frame; what is rendered is what was reviewed.

`PROJECT.json` lists the hazards line by line and the properties that cover
them.

## Modules

    JobLifecycle  <--refines--  Jobs                         MCJobs
         ^                                                   JobsProofs
         |  used as the queue by
         |
         +-- VideoFlow                                       MCVideoFlow
         |                                                   VideoFlowProofs
         +-- Propagation <- Reprocessing                     MCReprocessing
         |                                                   ReprocessingProofs
         +-- ResumableUpload <- Intake                       MCIntake
         |                                                   IntakeProofs
         +-- ProxyRepair                                     MCProxyRepair
                                                             ProxyRepairProofs

    VersionedDocument <--refines-- ReviewLog                 MCReviewLog
                                       ^
                                       +- ReviewHistory      MCReviewHistory
                                                             ReviewLogProofs

    FramePipeline ---------------------------------+
    TrackGeometry <- Tracker ----------------------+- RedactionFlow <- MCFrames
    TrackGeometry <- RedactionLookup <- Rendering -+                   FrameProofs
                                        ^                                 |
                                        +--- RenderingProofs <------------+

(`A <- B`: B extends A.) The queue and the review log are modelled once in
detail and stand elsewhere as what they promise: a job is started once and
ends finally, a revision is made from the one before it.

### JobLifecycle and Jobs

`JobLifecycle` is the contract: a job is requested, started once, and completed
or given up, finally. `Jobs` is the implementation. Its variables `status`,
`attempts`, `lease`, `age` are columns of `processing_jobs`; `submitting`,
`deliveries`, `pc`, `holds`, `due`, `todo` and `up` stand for requests,
dispatches, workers, heartbeat threads, the reconciler's work list and the API
process, all of which can be lost. Each transaction is one action:

| action | code |
|---|---|
| Submit, Enqueue, EnqueueFails | the row is committed, then `enqueue` (`cloud_jobs.py:111-161`) |
| Claim, NotClaimed | `jobs.py:202-233` |
| Update, UpdateRejected | `JobContext.update`, `jobs.py:36-59` |
| Heartbeat | `jobs.py:271-302` |
| HandlerEnds, MarkCompleted, CompletionRejected, MarkFailed | `jobs.py:164-200`, `235-269` |
| Reconcile, Redispatch, RedispatchFails, ReconcilerDies | `jobs.py:346-417` |
| ApiDies, ApiStarts | `main.py:31-45`, `jobs.py:304-320` |
| WorkerDies, LoseExecution | a container or the write of an outcome fails |

Time is relative (ticks left on a lease, ticks since creation, ticks until a
heartbeat), so the state space is finite without a bound on time. `Spec` lets
time pass at will, also while a worker is paused; `TimelySpec` lets every due
heartbeat happen before the next tick. The local API process is assumed to be
gone, threads included, before the next one starts.

Left out: progress and stage texts, and the job types, which matter to the queue
only in that a type may have no handler (`Registered`).

### VersionedDocument, ReviewLog and ReviewHistory

`ReviewLog` has the counter `revision`, the set `log` of action rows, and for
each session how far it has come (`stage`), the revision it found (`expected`)
and the action it is about to write (`draft`). `Begin` is the check of the
expected revision, `PrepareEdit`, `PrepareInverse` and `PrepareEvent` compute
the action from a snapshot read while others commit, `Reserve` is the
conditional update with the insert. The state of a track is one value; which
tracks a command touches, and whether they may be absent, is kept, the
arithmetic of boxes is not. The unique constraint on (video, revision) is left
out on purpose: `LogIsGapFree` shows that it never fires.

`VersionedDocument` is what readers are promised: a sequence of versions that
only grows, each new one an edit of the last or a return of some tracks to what
they were. The refinement maps version n to the replay of the actions up to n.

`ReviewHistory` puts workspaces on top of that log. A workspace has the revision
of its snapshot, the revision its audit log has come to and the two stacks
(`desk`), and the change under way (`asks`); the sessions that are no workspaces
are scripts and the export service.

| action | code (`ReviewWorkspace.tsx`) |
|---|---|
| LoadAudit | the stacks are rebuilt by `historyStacks` (90-111): opening the page (371-406), the audit drawer (1198, 1882), after a detection (855), after a finished export (1048) |
| ReloadSnapshot | the snapshot alone: after a 409 (463-468), an accepted export (1017), a detection (848) |
| Click, Resolve, Commit | one change at a time (`mutationBusy`), sent with the snapshot's revision; the service's check, preparation and compare-and-set |
| Answer | the new snapshot, and the stacks pushed and popped on the spot (504-515, 574-575, 625-632, 659-666, 711-718, 775-789) |
| Refuse, LoseAnswer | the change is refused or never arrives; it was made and the answer is lost |

GETs are not held back by `mutationBusy` and overtake one another, so LoadAudit
and ReloadSnapshot may show the log as it was at any revision. The reload after a
409 may fail, and is therefore ReloadSnapshot and not a part of Refuse. Accepting
several classes or suggestions in one click sends several requests; that is one
Click after the other, and LoseAnswer when a later one fails (691-726). A request
that was given up by the browser and still arrives is one of another session.

A workspace is in step (`InStep`) when it shows the current revision, every
change up to it has reached its stacks, and none of its own was put on stacks
that lacked one (`torn`, a history variable). In step, the stacks are what would
be rebuilt, the redo is accepted, and so is the undo while nothing is left to
redo. Out of step none of it holds: a 409 refreshes the snapshot and not the
stacks, which is the run `stale_redo`.

### VideoFlow

One video from the row `accept` creates. Jobs follow the contract
`JobLifecycle`; the rest is the status, revision, active run and files of the
video, the model runs and artifacts, and `stage[j]`, the place of the handler of
job j among its transactions. `Raise` may happen at any place of a handler, also
after its last commit; clean-up may itself fail. `seen` and `editing` hold what
an open session has read and will compare or write against, which is how lost
compare-and-sets and the ORM's skipped writes appear.

The variable `deployment` never changes. In `local`, workers die only at the
write of their outcome, or all together at a restart. In `cloud`, a lease may
expire under a living worker. `timely` is the cloud deployment in which that
does not happen, which theorem `TimelyHasNoZombies` gives when heartbeats keep
time.

Suggestions and proxy repair have jobs of their own, in their own modules.
Their failure path (`READY_FOR_REVIEW` for a failed REPROCESS job) is therefore
not among the steps of this module.

### Propagation and Reprocessing

`Propagation` is the arithmetic of `services/reprocessing.py`: the window around
a corrected frame, the stride that keeps the number of frames within a limit,
the samples before and after, and for which of them there can be a candidate
when decoding stops somewhere and the image tracker fails somewhere.
`Reprocessing` has one track with its action log, the jobs and the rows of
`reprocessing_suggestions`. A keyframe is known by what made it (nothing, a
detection, a box of a reviewer, an accepted suggestion, a trim), which is all
the rules look at.

| action | code |
|---|---|
| Request, CommitRequest | `request` (149-191): the check and, later, the insert |
| Start, Propagate, Store, Complete, Fail, Expire | `_run` (555-701) under the queue |
| BeginAccept, CommitAccept | `accept` (249-376): the checks, then the append to the log and the conditional update of the row |
| BeginDismiss, CommitDismiss | `dismiss` and the conditional update (378-470) |
| MoveRegion, TrimTrack, ChangeClass, DeleteTrack, UndoOrRedo | edits that race with all of it |

Store does not look at the job's status: a worker whose lease expired stores its
suggestions like any other, and the properties hold all the same, because each
row is resolved conditionally and the unique constraint refuses a second row.

### ResumableUpload and Intake

`ResumableUpload` is the loop of the browser (`resumableUpload.ts`) over an
external store that commits a prefix of what it received, answers or not, and
leaves the Range header out when it holds nothing. `Intake` adds the service's
completion (`services/uploads.py:152-186`, with its second look after a missing
object), the upload through the API (`ingest.py:101-183`) and the ingest job of
both. The row of an upload through the API goes to the database with the flush
(168), before the `try` that handles a checksum that is taken (170-180): the
loser of a race ends as `escaped`, with its temporary upload left behind. Checksums are contents:
equal contents have equal checksums, and the
database keeps them unique. A job is given up here only when no worker runs it;
`VideoFlow` has the workers that outlive their lease. A resumable session makes
one object, so the generation that the code compares never changes and is left
out.

The code reads an answer without a Range header in two ways: as the whole chunk
after a chunk (`resumableUpload.ts:210`), as nothing after a query (84). The
history variable `misread` marks the executions in which the first reading was
wrong. There the offset runs ahead of the store; `NoByteIsSkipped` says that it
does so in no others, and only while the store has received the first chunk at
most. `AcceptedIsWhole` excepts nothing: the service verifies the size and refuses
an object that is not whole.

### ProxyRepair

One video, the startup of the local API (assess, decide, serve), repair jobs, and
detection jobs as far as they read the proxy. A proxy is what the assessment says
of it: current, stale, or on another timeline. `Crash` may happen anywhere;
`Recover` fails every unfinished job. The local pool has two workers, so a
repair and a detection can run side by side, and nothing keeps them apart: the
tracks are counted before the new proxy is made (`proxy.py:339-349`).
`TracksKeepTheirTimeline` excepts executions with such an overlap by the history
variable `overlapped`.

### FramePipeline, Tracker, TrackGeometry, RedactionLookup, Rendering, RedactionFlow

The path of a frame. `FramePipeline` is the sampling loop: every k-th frame and
the last k of the estimate, a thread pool per detector with its own width, a
bound on frames in flight, results consumed oldest first, and the teardown on
every way out. `Tracker` has the suppression of duplicates, the prediction of a
position, the association in two tiers (confident detections first) and the
smoothing. `TrackGeometry` is where a track is at a frame, and what each command
of a reviewer does to that. `RedactionLookup` is the renderer's lookup, with two
pointers into sorted tracks and a cursor per track; `Rendering` is the loop over
frames, encoders and attempts. `RedactionFlow` composes them: detect, link,
store, review, export.

A box is its centre on one axis and all boxes have one size, so that overlap is a
distance. The order of costs within a tier is left open: every greedy choice is
explored. Positions are multiples of 720 units per pixel, so that every division
the instance makes, by interpolation and by averaging, is exact. The theorems do
not need that: they are about the quotients rounded down.

Time is counted in frames; milliseconds are not modelled. A trim has a span of
both, each defaulting to the track's own and neither checked against the other
(`services/review.py:359-394`), and keeps the keyframes inside both (411-418). So
`Trimmed` takes the set of the keyframes that are inside the milliseconds, and
`Trim` lets it be any: times need not follow frames, as a region may be moved with
any timestamp in the span of its track. A trim or an extension of the milliseconds
alone leaves the frames as they are.

## Runs

| run | instance | shows |
|---|---|---|
| `jobs_cloud` | 2 jobs, one of a type without a handler, 2 workers, leases of 2 ticks, 2 dispatches of a job in flight | TypeOK, SingleExecutor, LeaseOnlyWhileRunning, the refinement, OnlyOverdueWorkersExpire, EveryJobEnds |
| `jobs_local` | the same, local | NoZombie |
| `review_log` | 2 tracks, one detected and one manual, 2 values, 2 sessions, 3 revisions | history, undo and redo, the refinement |
| `workspace` | 2 tracks drawn by reviewers, 1 value, a workspace and another session, 4 revisions | DeskTypeOK, StacksAreRebuilt, OfferedRedoIsAccepted, OfferedUndoIsAccepted |
| `stale_redo` | the same, 3 revisions | violated, see below |
| `video` | 2 detections, 1 export; local, timely and cloud; one edit of a reviewer except in the cloud, where one worker at a time works on a job that was given up | StatusHasWork, OutcomesAgree, OneDetector |
| `video_ends` | 1 detection, 1 export, cloud, with fairness | ActivityEnds |
| `frozen_export` | 1 detection, 1 export | violated, see below |
| `suggestions` | 2 jobs, 2 sessions, 3 frames, a window of a second at 2 frames per second, at most one frame beside the corrected one | AcceptedNeverOverwrites, AcceptedOnce, SuggestionsFitSeed, ResolutionIsFinal |
| `intake` | 3 bytes in chunks of 2, 2 retries, 2 completions, one upload of the same content through the API | IntakeIsConsistent, NoByteIsSkipped, AcceptedIsWhole, CompletionIsIdempotent, ContentStoredOnce, UploadEnds |
| `proxy_repair` | 3 repair jobs | RepairIsConsistent, TracksKeepTheirTimeline, ReplacedOnlyAfterValidation |
| `frames` | clips of up to 5 frames sampled by 2, two detectors with pools of 1 and 2 threads, up to two plates and a face, one edit, a hardware and a software encoder | FlowIsConsistent, TheTailIsAnalysed, TracksOweToDetections, DetectedIsRedacted, ShownAsReviewed, SpanEditsMoveNothing, FlowEnds |

The types of the review log, of the video and of the suggestions are proved for
every instance (ReviewTypeCorrect, FlowTypeCorrect, SuggestionTypeCorrect) and no
run repeats them; the other modules have theirs checked and proved.

Why the bounds are enough. In the queue a hazard needs one job raced for by two
workers and a second job the reconciler handles in the same pass; two dispatches
in flight give every duplicate. In the log the deepest hazard, undo and redo of
one action with somebody else's edit around it, needs three revisions, and two
sessions give every lost race; sessions are symmetric, so SessionSymmetry is
sound. For the workspace a fourth revision is needed: an edit, its undo, a change
of another session and one more of its own, with loads in between; its tracks are
symmetric, since none was detected. In the video two detections are needed for one to be late; a second
export would only repeat what the first does to the status. `MaxRevision` stops
reviewers only, never the export service. `OneLateWorker` bounds the workers that
are paused beyond their lease: each of the three kinds can be late beside live
workers of the others, two at a time are not explored (they were once, in
2,343,907 states, without an error).

For suggestions, two jobs of one action and two sessions on one row give every
pair of racing writers; three revisions hold the correction, an edit and an
acceptance in every order. `Corrected`, `Spans` and `MaxEdits` bound the
reviewers' choices, not the code's: the corrected frame has a neighbour on each
side and can be cut off or kept by a trim. For the upload, a file of two chunks
of which the second is short has a boundary, a partial commit inside a chunk and
a last chunk; two retries give one that makes progress and one that does not. Three
repair jobs allow a crash during a first repair, another during the second and a
third that finishes. For the frames, the clips are one as long as its header
says, a shorter one that ends on a sampled frame, one that ends too early, and an
empty one; the plates move, jump, double, weaken and vanish, so that tracks are
continued, begun, broken and rivalled. MaxGap is 1 here; the code uses the
larger of six sampling intervals and two seconds, which changes how long a gap
may be but not how one is handled.

Deadlock is not checked where a bound ends the behaviour (`review_log`,
`workspace`, `suggestions`, `proxy_repair`) or the work is finished for good (`VideoFlow`,
`intake`, `frames`).

### Fairness

`CloudSpec` of `Jobs`: Cloud Scheduler starts the reconciler for ever
(`src/infra/gcp/deploy.ps1:540-573`), so Reconcile and the end of a pass are
weakly fair. A dispatch that is repeated for ever succeeds some time, and an
execution started for ever claims some time: strong fairness of Redispatch and
Claim, since both are interrupted by failures. A handler ends or is killed:
Cloud Run ends a task after an hour and does not retry it
(`deploy.ps1:359-360, 382-383`). Heartbeats need no fairness. The local
deployment promises no progress (a worker whose last write raises leaves its row
running until a restart), so no liveness is claimed for it.

`CloudSpec` of `VideoFlow` takes over what that gives: a queued job is started, a
handler moves on, a lease that nobody ends expires.

`Spec` of `Intake` makes the loop of the browser weakly fair: a `fetch` ends with
an answer or an error, and nothing else keeps the loop from its next step. The
store owes nothing, and no completion has to be asked for.

`Spec` of `RedactionFlow` makes the work of detection and rendering weakly fair:
decoding, inference and encoding end, since FFmpeg and the detectors are external
programs and libraries assumed to return. Reviewers need not edit nor export. The
fairness is on the work as a whole: a pool that could starve one detector would
still have to run out of other work.

### Disagreements between the code and what is said of it

* `stale_redo`. After a conflict the workspace says "Review state refreshed.
  Please retry your change." (`ReviewWorkspace.tsx:468`). It has reloaded the
  snapshot but not the stacks (332-335, 463-480). A workspace that has undone an
  edit, missed an edit of another session on the same track and reloaded its
  snapshot offers the redo at the current revision, and the service refuses it
  however often it is retried (`services/review.py:559-585`).
* `frozen_export`. The README promises exports "rendered from a frozen review
  revision". The tracks are read from the run that is active when the renderer
  starts. An export requested in the last transaction of a detection is rendered
  from the new run and names the old one.

What the models follow the code in, without a run that calls it wrong:

* The undo button is enabled whenever its stack is not empty
  (`ReviewWorkspace.tsx:1577`). After two edits of one track and one undo it
  offers the first edit, and the service refuses it, since the undo itself counts
  as a newer action on the track (`services/review.py:580-583`). That is why
  OfferedUndoIsAccepted asks for an empty redo stack.
* `accept` has a clause that removes the upload of a request whose checksum was
  taken meanwhile and answers that it is a duplicate (`services/ingest.py:172-180`).
  The row is written by the flush at 168, outside that `try`: the error escapes,
  and the temporary upload stays, with no row that names it. IntakeIsConsistent
  says so (stage `escaped` of `Intake`).
* A failed detection tells the reviewer to retry (`jobs.py:267`), but leaves the
  video FAILED (114), for which the request is refused (`services/processing.py:223`).

## Proofs

The theorems hold for any number of jobs, workers, tracks, values, sessions and
revisions, for uploads and chunks of any size, for every window, frame rate and
limit of a propagation, for clips of any length, pools of any size, any
detections, thresholds, edits and encoders, and for any number of repairs and
crashes. They rest on the assumptions named in the
modules, which TLC evaluates on its instances: `DurationAssumption` (the constructor's checks,
`jobs.py:132-137, 339-340`), `QueueAssumption` and `ReviewAssumption` (the special
values differ from the others), `FlowAssumption` of `VideoFlow` (the kinds of
jobs differ),
`WorkspaceAssumption` (workspaces are sessions),
`PropagationAssumption` (rates and limits are positive), `ReprocessingAssumption`
(spans lie in the clip), `PipelineAssumption` (a detector runs at least one
frame at a time, a clip has no more frames than the model counts),
`TrackerAssumption` (thresholds are not negative, boxes lie in the picture),
`RenderingAssumption` (there is an encoder), `FlowAssumption` of `RedactionFlow`
(what a detector finds in a frame is finitely many boxes in the picture, and so
are the places a reviewer draws), `UploadAssumption` (sizes and retries are
positive) and `IntakeAssumption`. `ProxyRepairProofs` needs none.

*Queue.* None of SingleExecutor, LeaseOnlyWhileRunning or the refinement is
inductive. `QueueInv` adds that a worker holds a job iff it is not idle, that a
held job is running or failed with one attempt, and that a job never claimed has
none. `_mark_failed` tests no status; the refinement step for it needs exactly
the fact that a held job is not completed. LocalHasNoZombies adds that nothing
lives while the API is down. TimelyHasNoZombies adds `LeaseOutlastsBeat`: the
lease of a live handler is longer than the time to its next heartbeat, which
needs the heartbeat to be shorter than the lease. OnlyOverdueWorkersExpire needs
no punctual heartbeats: `LeaseOutlastsWait` says that the lease of a running job
lasts at least until the next heartbeat of its live handler is due, since both
are renewed together and run down together.

*Review log.* `HistoryInv` adds to the gap-free log and the true before-states
that of the actions on a track one is newest, that an action touches the same
tracks before and after, that sessions are never ahead of the counter, and that
a draft made for the current revision is true. Drafts made for older revisions
may be false, which is why the invariant speaks only of current ones: the
compare-and-set lets no other through. LogImplementsDocument follows by showing
that Reserve appends one version and every other step none.

*Undo and redo.* `InverseInv` is inductive beside HistoryInv. Of any actions one
is newest; a draft of an inverse made for the current revision is due by the
rules of the service; every inverse follows its target, touches the same tracks
and carries its before- or after-state. The rules only look at the newest action
on the tracks and at the newest inverse of the target. That no older edit is lost
either follows from NoEditIsLost itself, at that newest inverse. InversesAreExact
then needs no more than that the recorded before-states are true.

*The workspace.* Every step of a workspace is a step of the log or leaves it as it
is (WorkspacesUseTheLog), so that what is proved of the log holds below any number
of workspaces. `DeskInv` says of each what its stacks, its change under way and its
answer have to do with the log: without a tear they are what the first `upTo`
actions leave on them, events aside, and an answer on its way is the action its
change became. Pushing and popping is then what `historyStacks` would do with that
one action more (LocalStacksAgree).

*The redo button.* RedoIsAccepted is about a workspace in step, whose stacks are
those of the whole log. It needs what the stack is after each action of
the log: edits that are `Undone`, each once, where an edit is undone when an undo
of it was followed by nothing but undos and redos of others (`IsRedoStack`). Each
of the four kinds of action keeps that (`PushKeeps`): an undo pushes what was not
undone before, because inverses alternate; a redo removes the only copy of what
it redoes; an edit empties the stack. The rest is that such an edit may be redone
(`UndoneIsUntouched`). Were its tracks touched after its undo, then by an inverse
of an edit that shares a track with it; that one came before the first, and its
inverse would have written over the first, or it came between the edit and its
undo, and the undo over it; NoEditIsLost excludes both. The undo is thus
the newest action on its tracks and has put them where the service wants them.

*The undo button.* UndoIsAccepted needs less of the stack. While nothing is left to
redo its top is the newest change of the log, or what that change has redone, with
nothing but events after it (`IsLatest`): an edit and a redo are pushed, an undo
leaves something to redo, an event moves nothing (`PushIsLatest`). Then nobody can
have undone or touched it since (`LatestIsUndoable`). The recursive function that
replays the log is shown to have the value its definition says
(`StacksAreBuilt`) by the least length of a log for which it had not.

*Video.* StatusHasWork is not inductive: after the commit of its outcome a job is
still unfinished for the queue while the status has moved on. `StatusHasOpenWork`
therefore asks for a job that has not committed its end. That the failure path of
one job does not take the status from another needs `OneMayCommit` (a detection
that can still write bars the request for the next) and `SessionsNoticeExports`
(an export request that read another status than EXPORTING, while one began, has
an old revision and is refused). OutcomesAgree needs that the files of an export
are kept from publication on. A worker past its lease is covered in the cloud,
where an execution may belong to a failed job (`StageFitsJob`).

*Suggestions.* The check of an acceptance runs before its commit.
`SessionsKeepTheirCheck` says that it still holds if the revision is the one the
session expects, and says nothing otherwise; since every edit raises the
revision, the conditional append lets only the first case through. A seed lies in
its own track (`SeedsFitTheirTracks`) and the log is never changed, so windows
computed from it do not move under a running job. AcceptedOnce needs that the log
names only rows that exist: a later job could otherwise insert an accepted
suggestion anew. SuggestionsFit rests on lemmas about the arithmetic, proved for
all sizes: the search for a stride ends (`StrideIsEnough`), samples stay on their
side of the seed (`SamplesFit`), and the two directions together take no more
strides than the window has (`HeldFramesAreFew`).

*Intake.* OffsetIsHonest speaks of every execution, those with a misread answer
included. NoByteIsSkipped is inductive with the types and one more fact
(`UploadInv`): a store that holds nothing has received the first chunk at most,
because a chunk from a later offset is of no use to it (`OnlyFirstChunk`). For the rest `StageInv`
relates the stage of a request or of a handler to the state of its job.
`DirectInv` says what the concurrent completions of one upload may rely on: the
object, its verification and its job each imply that every byte had arrived, a
row that no longer waits for its upload has a job, and a caller who found the
object gone will find that job. OriginalsDiffer needs `ChecksumInv`: no two rows
have one checksum, which is the unique constraint, and no handler past hashing
is without one. IntakeConsistent adds `TemporaryInv`: a stored upload is there
until its last reader is done, also before its job exists, and is gone after a
handler or a request that found a duplicate. The loser of a race leaves its own
behind.

*Proxy repair.* `RepairInv` rests on three facts. Only startup records a blocked
repair, and only when no repair runs, so a blocked note cannot become false: the
tracks and the proxy that block stay (`BlockedForGood`). A repair that has
counted the tracks can be overtaken only by a detection beside it, which the
history variable `overlapped` remembers (`ClearedToReplace`). A detection reads
the proxy that is there when it opens it (`DetectionReadsProxy`).

*Sampling.* `PipelineInv` says that every frame read that was due is analysed or
in flight (`NothingPassedOver`), that without an exception the loop is left at
the end with nothing in flight (`LeftAtTheEnd`), and that cancelling leaves no
task queued and joining none running (`PoolsAreEmptied`). The loop's thread never
waits for the head of an empty list, because the largest pool has a slot
(`LargestPool`). NoTailIsSkipped adds that any k numbers contain a multiple of k
(`MultipleWithin`), and DetectorsEndWithTheLoop is the second part of
FlowIsConsistent.

*Tracker.* TracksOweToDetections is not inductive. `TrackerInv` adds that frames
are taken in order and no track reaches beyond the last one taken
(`LinkedInOrder`, `TracksAdvance`), without which a point appended could lie
before the one in front of it. It also speaks of tracks by their index: the
property is about the set of tracks, and that no two indices share an
observation (`OneTrackEach`) is what keeps two tracks from becoming one.
`DoubtsYield` says of every doubtful point in a track that the track as it was
until then had no confident detection left to take; it stays true because a track
only grows at its end. A step of the tracker is proved once for any one-to-one
association that its two tiers can produce (`AssociationIsOneToOne`, `TracksGrow`),
so nothing depends on the order of costs.

*Rendering.* The lookup holds two pointers into lists sorted by first and by last
frame and a cursor per track. `LookedUp(found, tracks, f)` says what it must be
like after it was last asked for frame f: the pointers split the lists at f
(`PointerSplits`), the active tracks are those that last at f, and no cursor
stands beyond the first keyframe that is not before f. From that one
more frame gives what the random-access definition gives (`LookupIsExact`).
`RenderInv` relates the lookup of an attempt to the number of frames written in
it, and is all that RenderingIsExact needs. It needs tracks whose keyframes rise,
which every edit of a reviewer preserves (`MovedIsWellFormed`,
`TrimmedIsWellFormed`, `FlagsAreWellFormed`).

*From end to end.* `FlowInv` joins PipelineInv, TrackerInv and RenderInv, and says
that a track no reviewer has touched is still what `Store` made of a track of the
tracker (`UntouchedAsStored`). DetectedIsRedacted then follows from two facts of
arithmetic, both proved for quotients rounded down: a mean lies between the least
and the greatest number averaged (`MeanWithin`, on the fold of the library), and
interpolation between two places stays between them (`BetweenWithin`).

Where an argument is by induction over a number, the proof takes the least
counterexample (`LeastNatural`, from the library's theorem on well-founded sets):
the library's induction takes an operator, which the provers cannot instantiate.

What stays with TLC:

* liveness under fairness (EveryJobEnds, ActivityEnds, UploadEnds, FlowEnds),
  which is out of the prover's reach;
* SpanEditsMoveNothing, which bounds how far a trim moves a track (nowhere, but
  between kept keyframes one of which was lost to the milliseconds) and compares a
  box before a trim or an extension with the same box after it. It is interpolated once from the old neighbours and once
  from a keyframe that was itself interpolated, so it is equal only where the
  divisions are exact, as on the instance; rounded down the two differ by a unit.

## Abstractions

* A transaction that reads and writes at once is one action; where the code
  works between reading and writing, there are two.
* `_fail_job` on several jobs of one video: the last one decides on the status,
  in any order.
* SQLite ignores `FOR UPDATE` and serialises writers; PostgreSQL runs READ
  COMMITTED. Neither is assumed beyond single transactions being atomic.
* Storage writes are atomic publications, as in `publish_output`.
* The properties name their exceptions, each of which is something the code does:
  OfferedRedoIsAccepted and StacksAreRebuilt a workspace out of step,
  OfferedUndoIsAccepted that and an action left to redo,
  NoByteIsSkipped a misread answer, SpanEditsMoveNothing a keyframe outside the
  milliseconds, TracksKeepTheirTimeline a detection beside a repair,
  TheTailIsAnalysed clips that cannot be decoded to their end or whose header
  promises too many frames.
* Where several invariants of a module say one thing of its state, they are one
  named conjunction (InversesAreExact, IntakeIsConsistent, RepairIsConsistent,
  FlowIsConsistent), which includes the types of the variables.
* `Reprocessing` gives up only running jobs; a queued job that is failed at a
  restart has had no effect but to let another request through.
* The smoothing of a track is said to preserve linear motion exactly
  (`pipeline/tracking.py:155`). Its window is shortened at the ends of a track
  and counts points, not time, so it does not there, nor with uneven samples:
  the redaction is pulled off the detected box. DetectedIsRedacted therefore
  bounds the place by the observations averaged, and promises the exact box only
  where the object stands still or was seen less than three times.

## Not modelled

* Detectors and ONNX runtime: tensors in, boxes out, without state between
  frames. What is done with the boxes is in `Tracker`.
* Media tools: FFmpeg's arguments and the parsing of its output. What their
  results decide is in `ProxyRepair`, `Intake` and `Rendering`.
* Pixel operations of the renderer, masks, padding, audio; the manifest and the
  warnings of an export, which are derived from rows once.
* Quality metrics and warnings of tracks, which only the user interface reads.
* The model registry (a file read at startup), settings and wiring.
* Routing, schemas, limits, signed URLs and key validation.
* Presentation in the workspace other than its undo and redo stacks.

## Plan

Modelled: every component with control of its own. Proved: every safety property
the runs check but SpanEditsMoveNothing. Next:

* SpanEditsMoveNothing for rational places (a numerator over a common
  denominator), where it holds for every clip; on integers, a bound on the
  difference.
* A contract for the renderer (each frame of a published file is a function of
  the snapshot and its number) that `Rendering` refines, as `Jobs` refines
  `JobLifecycle`; RenderingIsExact and `RenderInv` are most of it.
* The two assumptions that modules make of one another without a theorem: that
  `Reprocessing` appends to the log as `ReviewLog` does, and that the versions
  `VideoFlow` freezes are those of `VersionedDocument`.
