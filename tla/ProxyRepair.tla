----------------------------- MODULE ProxyRepair -----------------------------
(***************************************************************************)
(* The repair of review proxies made with an older profile, in the local   *)
(* deployment (services/proxy.py, main.py:34-42, storage.publish_output):  *)
(* at startup the API assesses the proxy of each video and queues a repair *)
(* for a stale one, which then runs beside the requests of reviewers.  One *)
(* video is modelled, with the detection jobs that read its proxy.         *)
(*                                                                         *)
(* A proxy is what media.assess_proxy says of it: current, stale on the    *)
(* timeline of the original, or stale on a timeline of its own.  The job   *)
(* queue is taken by its contract; at startup every unfinished job is      *)
(* failed.  Detection and repair can run side by side: the pool has two    *)
(* workers.                                                                *)
(***************************************************************************)
EXTENDS Naturals

CONSTANT Repairs   \* bound: PROXY jobs; the API is not started again without one

VARIABLES
    api,         \* startup: "down", "assessing", "deciding"; then "serving"
    assessed,    \* what the startup's assessment said
    proxy,       \* the file under proxy_uri
    candidate,   \* the file a repair has made beside it
    tracks,      \* the timelines of the Track rows of the video
    ready,       \* the video is READY_FOR_REVIEW at revision 0
    detection,   \* its detection job: the timeline of the frames it reads
    job,         \* status of the repair jobs
    pc,          \* pc[r]: where the execution of r stands
    note,        \* metadata_json["proxy_repair"]["status"]
    profiled,    \* metadata_json["proxy_profile"] is of this profile
    blocked,     \* number of jobs recorded as "proxy repair blocked"
    overlapped   \* history: detection and a repair have run at one time

vars == <<api, assessed, proxy, candidate, tracks, ready, detection, job, pc, note,
          profiled, blocked, overlapped>>

Assessments == {"current", "stale", "mistimed"}
Timelines   == {"original", "other"}
Timeline(p) == IF p = "mistimed" THEN "other" ELSE "original"

Queue == INSTANCE JobLifecycle WITH
    Jobs   <- Repairs,
    state  <- job,
    starts <- [r \in Repairs |-> IF job[r] \in {"absent", "queued"} THEN 0 ELSE 1]

Unfinished(r) == job[r] \in Queue!Unfinished

TypeOK ==
    /\ api \in {"down", "assessing", "deciding", "serving"}
    /\ assessed \in Assessments
    /\ proxy \in Assessments
    /\ candidate \in {"none", "current", "wrong"}
    /\ tracks \in SUBSET Timelines
    /\ ready \in BOOLEAN
    /\ detection \in {"none", "queued"} \cup Timelines
    /\ job \in [Repairs -> Queue!States]
    /\ pc \in [Repairs -> {"none", "begun", "cleared", "generated", "published", "returned", "raised"}]
    /\ note \in {"none", "queued", "running", "complete", "failed", "blocked"}
    /\ profiled \in BOOLEAN
    /\ blocked \in Nat
    /\ overlapped \in BOOLEAN

\* A release with a new profile starts on a video that was ingested, and
\* perhaps searched, with the old one.
Init ==
    /\ api = "assessing" /\ assessed = "current"
    /\ proxy \in Assessments /\ candidate = "none"
    /\ tracks \in {{}, {Timeline(proxy)}}
    /\ ready = TRUE /\ detection = "none"
    /\ job = [r \in Repairs |-> "absent"]
    /\ pc = [r \in Repairs |-> "none"]
    /\ note = "none" /\ profiled = FALSE /\ blocked = 0
    /\ overlapped = FALSE

-----------------------------------------------------------------------------
(* Startup.                                                                *)

Crash ==
    /\ api # "down"
    /\ api' = "down"
    /\ pc' = [r \in Repairs |-> "none"]
    /\ candidate' = "none"   \* its name is never used again
    /\ UNCHANGED <<assessed, proxy, tracks, ready, detection, job, note, profiled, blocked, overlapped>>

\* recover_interrupted_jobs: a repair leaves the video's status alone.
Recover ==
    /\ api = "down"
    /\ \E r \in Repairs : job[r] = "absent"
    /\ api' = "assessing"
    /\ job' = [r \in Repairs |-> IF Unfinished(r) THEN "failed" ELSE job[r]]
    /\ ready' = (detection = "none" /\ ready)
    /\ detection' = "none"
    /\ UNCHANGED <<assessed, proxy, candidate, tracks, pc, note, profiled, blocked, overlapped>>

\* reconcile_video: both files are probed, outside of any transaction.
Assess ==
    /\ api = "assessing"
    /\ api' = "deciding"
    /\ assessed' = proxy
    /\ UNCHANGED <<proxy, candidate, tracks, ready, detection, job, pc, note, profiled, blocked, overlapped>>

\* reconcile_all goes on to the next video when one raises.
Skip ==
    /\ api \in {"assessing", "deciding"}
    /\ api' = "serving"
    /\ UNCHANGED <<assessed, proxy, candidate, tracks, ready, detection, job, pc, note, profiled, blocked, overlapped>>

RecordBlocked ==
    /\ note' = "blocked"
    /\ blocked' = IF note = "blocked" THEN blocked ELSE blocked + 1

Schedule ==
    /\ \E r \in Repairs : Queue!Request(r)
    /\ note' = "queued"
    /\ UNCHANGED blocked

Decide ==
    /\ api = "deciding"
    /\ api' = "serving"
    /\ profiled' = (profiled \/ assessed = "current")
    /\ IF assessed = "current" \/ \E r \in Repairs : Unfinished(r)
       THEN UNCHANGED <<job, note, blocked>>
       ELSE IF tracks # {} /\ assessed = "mistimed"
       THEN RecordBlocked /\ UNCHANGED job
       ELSE Schedule
    /\ UNCHANGED <<assessed, proxy, candidate, tracks, ready, detection, pc, overlapped>>

-----------------------------------------------------------------------------
(* Detection, as far as it meets the proxy (processing.py).                *)

Detect(from, to) ==
    /\ api = "serving"
    /\ detection \in from
    /\ detection' = to
    /\ overlapped' = (overlapped \/ (to \in Timelines /\ \E r \in Repairs : pc[r] # "none"))
    /\ UNCHANGED <<api, assessed, proxy, candidate, job, pc, note, profiled, blocked>>

\* No request looks at repair jobs.
RequestDetection ==
    /\ ready
    /\ Detect({"none"}, "queued")
    /\ ready' = FALSE
    /\ UNCHANGED tracks

\* The open capture keeps the file it has opened when that is replaced.
OpenProxy == Detect({"queued"}, Timeline(proxy)) /\ UNCHANGED <<ready, tracks>>

StoreTracks ==
    /\ Detect(Timelines, "none")
    /\ \E found \in BOOLEAN : tracks' = IF found THEN tracks \cup {detection} ELSE tracks
    /\ ready' = TRUE

FailDetection == Detect({"queued"} \cup Timelines, "none") /\ UNCHANGED <<ready, tracks>>

-----------------------------------------------------------------------------
(* ProxyService.execute for a job r.                                       *)

Advance(r, from, to) ==
    /\ pc[r] = from
    /\ pc' = [pc EXCEPT ![r] = to]
    /\ overlapped' = (overlapped \/ detection \in Timelines)
    /\ UNCHANGED <<api, assessed, tracks, ready, detection, blocked>>

Begin(r) ==
    /\ api = "serving"
    /\ Queue!Start(r)
    /\ Advance(r, "none", "begun")
    /\ note' = "running"
    /\ UNCHANGED <<proxy, candidate, profiled>>

RecordCurrent == note' = "complete" /\ profiled' = TRUE

\* Faulty variant: only the assessment counts, the tracks are not looked for.
ClearAll(r) == Advance(r, "begun", "cleared") /\ UNCHANGED <<proxy, candidate, job, note, profiled>>

\* The stale proxy is assessed again, and the tracks are counted.
Clear(r) ==
    /\ UNCHANGED <<proxy, candidate, job>>
    /\ IF proxy = "current"
       THEN Advance(r, "begun", "returned") /\ RecordCurrent
       ELSE /\ ~(tracks # {} /\ proxy = "mistimed")
            /\ Advance(r, "begun", "cleared")
            /\ UNCHANGED <<note, profiled>>

\* media.generate_proxy: the remux or the transcode may miss the profile.
Generate(r) ==
    /\ Advance(r, "cleared", "generated")
    /\ candidate' \in {"current", "wrong"}
    /\ UNCHANGED <<proxy, job, note, profiled>>

\* publish_output: only what was finished without an error replaces the proxy,
\* and at once.
Replace(r) ==
    /\ Advance(r, "generated", "published")
    /\ proxy' = candidate /\ candidate' = "none"
    /\ UNCHANGED job

\* Faulty variant: the candidate takes the proxy's place without a probe.
PublishUnseen(r) == Replace(r) /\ UNCHANGED <<note, profiled>>

\* Faulty variant: the note is written before the candidate is published.
ActivateEarly(r) ==
    /\ Advance(r, "generated", "published") /\ RecordCurrent
    /\ UNCHANGED <<proxy, candidate, job>>

Publish(r) ==
    /\ candidate = "current"
    /\ Replace(r)
    /\ UNCHANGED <<note, profiled>>

Activate(r) ==
    /\ Advance(r, "published", "returned") /\ RecordCurrent
    /\ UNCHANGED <<proxy, candidate, job>>

\* _repair_with_tracking: some step of _repair raises.
Break(r) ==
    /\ \E from \in {"begun", "cleared", "generated", "published"} : Advance(r, from, "raised")
    /\ candidate' = "none"
    /\ note' = "failed"
    /\ UNCHANGED <<proxy, job, profiled>>

\* JobExecutor records the outcome.
End(r) ==
    /\ \/ Advance(r, "returned", "none") /\ Queue!Complete(r)
       \/ Advance(r, "raised", "none") /\ Queue!GiveUp({r})
    /\ UNCHANGED <<proxy, candidate, note, profiled>>

Next ==
    \/ Crash \/ Recover \/ Assess \/ Skip \/ Decide
    \/ RequestDetection \/ OpenProxy \/ StoreTracks \/ FailDetection
    \/ \E r \in Repairs :
        \/ Begin(r) \/ Clear(r) \/ Generate(r) \/ Publish(r) \/ Activate(r)
        \/ Break(r) \/ End(r)

Spec == Init /\ [][Next]_vars

-----------------------------------------------------------------------------
(***************************************************************************)
(* README.md:70: an existing proxy is "replaced only after validation".    *)
(***************************************************************************)
ReplacedOnlyAfterValidation == [][proxy' # proxy => proxy' = "current"]_vars

(***************************************************************************)
(* The tracks of a video lie on the timeline of the proxy they are         *)
(* reviewed on, across crashes, restarts and repairs (proxy.py:144 and     *)
(* 343) -- unless a detection job ran at the same time as a repair, which  *)
(* nothing prevents: the tracks are counted before the proxy is made.      *)
(***************************************************************************)
TracksKeepTheirTimeline == overlapped \/ tracks \subseteq {Timeline(proxy)}

NotesAreTrue ==
    /\ note = "complete" => proxy = "current" /\ profiled
    /\ note = "blocked"  => proxy = "mistimed" /\ tracks # {}

(***************************************************************************)
(* What the note on the repair says is so, whatever was interrupted where: *)
(* "complete" of a current proxy with its profile, and "blocked" of a      *)
(* proxy whose tracks keep it from being replaced; and however often the   *)
(* API starts, a blocked repair is recorded once (proxy.py:202-258,        *)
(* 391-416).  With the types of the variables.                             *)
(***************************************************************************)
RepairIsConsistent == TypeOK /\ NotesAreTrue /\ blocked <= 1

=============================================================================
