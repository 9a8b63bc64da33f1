----------------------------- MODULE Reprocessing -----------------------------
(***************************************************************************)
(* Suggestions for the frames around a correction (reprocessing.py): a     *)
(* reviewer asks for them, a job propagates the corrected box, reviewers   *)
(* accept or dismiss what it found, and all the while the track is edited. *)
(*                                                                         *)
(* The review log is taken by its contract, VersionedDocument: revisions   *)
(* are linear, an action is made from the latest one and never changes.    *)
(* One track of the video is modelled.  The job queue is taken by its      *)
(* contract, JobLifecycle; a worker whose lease expired may go on.         *)
(*                                                                         *)
(* A request reads (pending suggestion, revision, snapshot) and later      *)
(* commits conditionally; what it reads is one step here, because a commit *)
(* between its queries makes the condition of its own commit fail.         *)
(***************************************************************************)
EXTENDS Propagation

CONSTANTS
    Jobs,         \* REPROCESS jobs
    Sessions,     \* open requests of reviewers
    Classes, Boxes,
    LastFrame,    \* frames are 0..LastFrame
    Corrected,    \* bound: frames of the first correction
    Spans,        \* bound: first and last frames a reviewer may give a track
    MaxEdits,     \* bound: edits made other than by accepting
    MaxRevision   \* bound: revisions of the video; at the last one nothing new begins

ASSUME ReprocessingAssumption ==
    /\ {LastFrame, MaxEdits} \subseteq Nat /\ MaxRevision \in Nat \ {0}
    /\ Corrected \subseteq 0..LastFrame
    /\ \A span \in Spans : /\ span[1] \in 0..LastFrame
                           /\ span[2] \in span[1]..LastFrame
    /\ Boxes \cap {"none", "detected", "derived", "suggested"} = {}

VARIABLES
    base,         \* the track at revision 0
    log,          \* log[n]: the action of revision n
    job,          \* ProcessingJob.status
    source,       \* source[j]: payload source_action_id, 0 before the request
    stage,        \* stage[j]: how far the execution of j has come
    candidates,   \* candidates[j]: the frames job j has a candidate for
    suggestions,  \* rows of reprocessing_suggestions, by action and frame
    open          \* open[s]: what the request in session s has read

jobVars == <<job, source, stage, candidates>>
vars == <<base, log, jobVars, suggestions, open>>

Frames  == 0..LastFrame
NoFrame == -1

\* A keyframe, by what is known of its box; all but "detected" are locked.
Keyframes == {"none", "detected", "derived", "suggested"} \cup Boxes
Locked(k) == k \notin {"none", "detected"}

Gone == [active |-> FALSE, class |-> "none", first |-> 0, last |-> 0,
         keys |-> [f \in Frames |-> "none"]]
Tracks == {Gone} \cup [active : BOOLEAN, class : Classes, first : Frames, last : Frames,
                       keys : [Frames -> Keyframes]]

Document(n) == IF n = 0 THEN base ELSE log[n].after
Current     == Document(Len(log))

Ids        == (1..MaxRevision) \X Frames
NoId       == <<0, 0>>
Seed(n)    == log[n].after
Actions    == [seed : Frames \cup {NoFrame}, after : Tracks, accepts : Ids \cup {NoId}]
Rows       == [status : {"PENDING", "ACCEPTED", "DISMISSED"}, resolution : 0..MaxRevision]
IdleSession == [op |-> "idle", id |-> NoId, expected |-> 0]
Requests   == [op : {"idle", "request", "accept", "dismiss"}, id : Ids \cup {NoId},
               expected : 0..MaxRevision]

\* Here only a running job is given up: what has left the queue was started.
Queue == INSTANCE JobLifecycle WITH
    state  <- job,
    starts <- [j \in Jobs |-> IF job[j] \in {"absent", "queued"} THEN 0 ELSE 1]

TypeOK ==
    /\ base \in Tracks
    /\ log \in Seq(Actions) /\ Len(log) <= MaxRevision
    /\ job \in [Jobs -> Queue!States]
    /\ source \in [Jobs -> 0..MaxRevision]
    /\ stage \in [Jobs -> {"none", "begun", "propagated", "stored"}]
    /\ candidates \in [Jobs -> SUBSET Frames]
    /\ DOMAIN suggestions \subseteq Ids
    /\ \A q \in DOMAIN suggestions : suggestions[q] \in Rows
    /\ open \in [Sessions -> Requests]

\* A detected track, or the place of one that a reviewer will draw.
Detected(c) ==
    [active |-> TRUE, class |-> c, first |-> 0, last |-> LastFrame,
     keys |-> [f \in Frames |-> IF f \in {0, LastFrame} THEN "detected" ELSE "none"]]

Entry(f, track, q) == [seed |-> f, after |-> track, accepts |-> q]

WithBox(track, f, box) == [track EXCEPT !.active = TRUE, !.keys[f] = box]

Drawn(f, span, box, c) ==
    [active |-> TRUE, class |-> c, first |-> span[1], last |-> span[2],
     keys |-> [Gone.keys EXCEPT ![f] = box]]

\* A reviewer has moved a detected region, or drawn one (CREATE_MANUAL_REGION
\* makes a track of its own), as the first action: before there is a
\* correction there is nothing to propagate.
Init ==
    /\ \E f \in Corrected, box \in Boxes, c \in Classes :
          \/ /\ base = Detected(c)
             /\ log = <<Entry(f, WithBox(base, f, box), NoId)>>
          \/ \E span \in Spans :
                /\ f \in span[1]..span[2]
                /\ base = Gone
                /\ log = <<Entry(f, Drawn(f, span, box, c), NoId)>>
    /\ Queue!LifecycleInit
    /\ source = [j \in Jobs |-> 0]
    /\ stage = [j \in Jobs |-> "none"]
    /\ candidates = [j \in Jobs |-> {}]
    /\ suggestions = [q \in {} |-> 0]
    /\ open = [s \in Sessions |-> IdleSession]

-----------------------------------------------------------------------------
(* Edits of the track by reviewers (services/review.py).                   *)

Commit(f, track) ==
    /\ Len(log) < MaxRevision
    /\ Cardinality({n \in 1..Len(log) : log[n].accepts = NoId}) < MaxEdits
    /\ log' = Append(log, Entry(f, track, NoId))
    /\ UNCHANGED <<base, jobVars, suggestions, open>>

MoveRegion ==
    /\ Current # Gone
    /\ \E f \in Current.first..Current.last, box \in Boxes :
          Commit(f, WithBox(Current, f, box))

DeleteTrack == Current # Gone /\ Commit(NoFrame, [Current EXCEPT !.active = FALSE])

ChangeClass ==
    /\ Current # Gone
    /\ \E c \in Classes \ {Current.class} : Commit(NoFrame, [Current EXCEPT !.class = c])

\* The new ends of the track get keyframes with the boxes it has there.
TrimTrack ==
    /\ Current # Gone
    /\ \E span \in Spans \ {<<Current.first, Current.last>>} :
          LET Kept(f) == CASE f \notin span[1]..span[2] -> "none"
                           [] f \in {span[1], span[2]} /\ ~Locked(Current.keys[f]) -> "derived"
                           [] OTHER -> Current.keys[f]
          IN  /\ Current.first <= span[1] /\ span[2] <= Current.last
              /\ Commit(NoFrame, [Current EXCEPT !.first = span[1], !.last = span[2],
                                  !.keys = [f \in Frames |-> Kept(f)]])

\* Of a single track, only its latest action can be undone or redone
\* (NoEditIsLost of module ReviewLog): the track is again what it was before.
UndoOrRedo == Len(log) > 0 /\ Commit(NoFrame, Document(Len(log) - 1))

-----------------------------------------------------------------------------
(* Asking for suggestions.                                                 *)

Seeds == {n \in 1..Len(log) : log[n].seed # NoFrame}

SuggestionsOf(n) == {q \in DOMAIN suggestions : q[1] = n}

ActiveJobs(n) == {j \in Jobs : source[j] = n /\ job[j] \in Queue!Unfinished}

\* The revision a client sends; asking for suggestions needs none.
Open(s, op, id) ==
    /\ open[s] = IdleSession
    /\ Len(log) < MaxRevision
    /\ open' = [open EXCEPT ![s] = [op |-> op, id |-> id,
                                   expected |-> IF op = "request" THEN 0 ELSE Len(log)]]
    /\ UNCHANGED <<base, log, jobVars, suggestions>>

Close(s) == open' = [open EXCEPT ![s] = IdleSession]

\* Nothing protects the check: another request may pass it as well.
Request(s) ==
    \E n \in Seeds :
        /\ SuggestionsOf(n) = {} /\ ActiveJobs(n) = {}
        /\ Open(s, "request", <<n, log[n].seed>>)

CommitRequest(s, j) ==
    /\ open[s].op = "request"
    /\ Len(log) < MaxRevision
    /\ Queue!Request(j)
    /\ source' = [source EXCEPT ![j] = open[s].id[1]]
    /\ Close(s)
    /\ UNCHANGED <<base, log, stage, candidates, suggestions>>

\* The request is refused, loses its race, or dies.
Drop(s) ==
    /\ open[s] # IdleSession
    /\ Close(s)
    /\ UNCHANGED <<base, log, jobVars, suggestions>>

-----------------------------------------------------------------------------
(* The job.                                                                *)

Alive(j) == job[j] = "running"

Start(j) ==
    /\ Len(log) < MaxRevision
    /\ Queue!Start(j)
    /\ stage' = [stage EXCEPT ![j] = "begun"]
    /\ UNCHANGED <<base, log, source, candidates, suggestions, open>>

Advance(j, from, to) ==
    /\ stage[j] = from
    /\ stage' = [stage EXCEPT ![j] = to]
    /\ UNCHANGED <<base, log, job, source, open>>

SeedFrame(j)  == log[source[j]].seed
StartFrame(j) == WindowStart(SeedFrame(j), Seed(source[j]).first)
EndFrame(j)   == WindowEnd(SeedFrame(j), Seed(source[j]).last)

Windows  == {w \in Frames \X Frames \X Frames : w[2] <= w[1] /\ w[1] <= w[3]}
Outcomes == [w \in Windows |-> Candidates(w[1], w[2], w[3])]

\* The seed comes from the action, which never changes.
Propagate(j) ==
    /\ Alive(j)
    /\ Advance(j, "begun", "propagated")
    /\ \E found \in Outcomes[<<SeedFrame(j), StartFrame(j), EndFrame(j)>>] :
          candidates' = [candidates EXCEPT ![j] = found]
    /\ UNCHANGED suggestions

\* _source_discard_reason finds none: edits have left the seed as it was.
SourceIsCurrent(n) ==
    LET seed == Seed(n)
        f    == log[n].seed
    IN  /\ Current # Gone /\ Current.active
        /\ Current.class = seed.class
        /\ Current.first = seed.first /\ Current.last = seed.last
        /\ Current.keys[f] = seed.keys[f]

Found(j) == {source[j]} \X candidates[j]

Pending == [status |-> "PENDING", resolution |-> 0]

Insert(rows) ==
    suggestions' = [q \in DOMAIN suggestions \cup rows |->
                       IF q \in DOMAIN suggestions THEN suggestions[q] ELSE Pending]

\* One transaction, which reserves the rows of the job and of the video. It
\* does not look at the job's status, and fails if another job has stored a
\* suggestion of this action for one of the frames.
Store(j) ==
    /\ Advance(j, "propagated", "stored")
    /\ \/ /\ SourceIsCurrent(source[j])
          /\ Found(j) \cap DOMAIN suggestions = {}
          /\ Insert(Found(j))
       \/ ~SourceIsCurrent(source[j]) /\ UNCHANGED suggestions
    /\ UNCHANGED candidates

Leave(j) ==
    /\ stage[j] # "none"
    /\ stage' = [stage EXCEPT ![j] = "none"]
    /\ candidates' = [candidates EXCEPT ![j] = {}]
    /\ UNCHANGED <<base, log, source, suggestions, open>>

Complete(j) ==
    /\ stage[j] = "stored"
    /\ Queue!Complete(j)
    /\ Leave(j)

\* The handler raises anywhere, in particular once the job has been given
\* up; the write of the failure is unconditional. A worker that dies is one
\* that does nothing until its lease has expired.
Fail(j) == Leave(j) /\ job' = [job EXCEPT ![j] = "failed"]

Expire(j) ==
    /\ Alive(j)
    /\ Queue!GiveUp({j})
    /\ UNCHANGED <<base, log, source, stage, candidates, suggestions, open>>

-----------------------------------------------------------------------------
(* Resolving a suggestion.                                                 *)

IsPending(q) == suggestions[q].status = "PENDING"

Acceptable(q) ==
    /\ Current # Gone /\ Current.active
    /\ Current.class = Seed(q[1]).class
    /\ q[2] \in Current.first..Current.last
    /\ ~Locked(Current.keys[q[2]])

BeginAccept(s) ==
    \E q \in DOMAIN suggestions : IsPending(q) /\ Acceptable(q) /\ Open(s, "accept", q)

Resolve(q, status, action) ==
    suggestions' = [suggestions EXCEPT ![q] = [status |-> status, resolution |-> action]]

\* Faulty variant: the edit is appended to whatever revision is current.
AcceptAtCurrent(s) ==
    LET q == open[s].id
    IN  /\ open[s].op = "accept"
        /\ Len(log) < MaxRevision /\ Current # Gone
        /\ IsPending(q)
        /\ log' = Append(log, Entry(q[2], WithBox(Current, q[2], "suggested"), q))
        /\ Resolve(q, "ACCEPTED", Len(log) + 1)
        /\ Close(s)
        /\ UNCHANGED <<base, jobVars>>

\* Faulty variant: the suggestion is resolved whatever its status is.
AcceptAgain(s) ==
    LET q == open[s].id
    IN  /\ open[s].op = "accept"
        /\ Len(log) = open[s].expected /\ Len(log) < MaxRevision
        /\ log' = Append(log, Entry(q[2], WithBox(Current, q[2], "suggested"), q))
        /\ Resolve(q, "ACCEPTED", Len(log) + 1)
        /\ Close(s)
        /\ UNCHANGED <<base, jobVars>>

\* append_review_action and _resolve_pending, in one transaction.
CommitAccept(s) ==
    LET q == open[s].id
    IN  /\ open[s].op = "accept"
        /\ Len(log) = open[s].expected /\ Len(log) < MaxRevision
        /\ IsPending(q)
        /\ log' = Append(log, Entry(q[2], WithBox(Current, q[2], "suggested"), q))
        /\ Resolve(q, "ACCEPTED", Len(log) + 1)
        /\ Close(s)
        /\ UNCHANGED <<base, jobVars>>

BeginDismiss(s) ==
    \E q \in DOMAIN suggestions : IsPending(q) /\ Open(s, "dismiss", q)

\* Faulty variant: the update names the suggestion and nothing else.
DismissById(s) ==
    /\ open[s].op = "dismiss"
    /\ Resolve(open[s].id, "DISMISSED", 0)
    /\ Close(s)
    /\ UNCHANGED <<base, log, jobVars>>

\* One conditional update, on the status and on the current revision.
CommitDismiss(s) ==
    /\ open[s].op = "dismiss"
    /\ IsPending(open[s].id)
    /\ Len(log) = open[s].expected
    /\ Resolve(open[s].id, "DISMISSED", 0)
    /\ Close(s)
    /\ UNCHANGED <<base, log, jobVars>>

-----------------------------------------------------------------------------

Edit == \/ MoveRegion \/ DeleteTrack \/ ChangeClass
        \/ TrimTrack \/ UndoOrRedo

Review(s) == \/ Request(s) \/ Drop(s)
             \/ \E j \in Jobs : CommitRequest(s, j)
             \/ BeginAccept(s) \/ CommitAccept(s)
             \/ BeginDismiss(s) \/ CommitDismiss(s)

Work(j) == \/ Start(j) \/ Propagate(j) \/ Store(j) \/ Complete(j) \/ Fail(j) \/ Expire(j)

Next == \/ Edit
        \/ \E s \in Sessions : Review(s)
        \/ \E j \in Jobs : Work(j)

Spec == Init /\ [][Next]_vars

-----------------------------------------------------------------------------
(* Properties                                                              *)

Accepting(n) == log[n].accepts # NoId

(***************************************************************************)
(* Accepting a suggestion never writes over a reviewer's work: at the      *)
(* revision it was appended to, the track was there and active, of the     *)
(* suggested class, covered the frame, and had no locked keyframe at it,   *)
(* although the check ran before the commit (reprocessing.py:263-321).     *)
(***************************************************************************)
AcceptedNeverOverwrites ==
    \A n \in 1..Len(log) : Accepting(n) =>
        LET before == Document(n - 1)
            q == log[n].accepts
        IN  /\ before # Gone /\ before.active
            /\ before.class = Seed(q[1]).class
            /\ q[2] \in before.first..before.last
            /\ ~Locked(before.keys[q[2]])

(***************************************************************************)
(* However accepting, dismissing and editing interleave, a suggestion is   *)
(* in the log exactly once if it is accepted, under the action its row     *)
(* names, and never otherwise (reprocessing.py:291-322, 430-465).          *)
(***************************************************************************)
AcceptedOnce ==
    \A q \in DOMAIN suggestions :
        {n \in 1..Len(log) : log[n].accepts = q} =
            IF suggestions[q].status = "ACCEPTED" THEN {suggestions[q].resolution} ELSE {}

(***************************************************************************)
(* A resolution is final, and no row disappears: neither a late answer of  *)
(* another session nor the transaction of another job for the same action  *)
(* brings a suggestion back (reprocessing.py:356-376, 442-465, 659-685).   *)
(***************************************************************************)
ResolutionIsFinal ==
    [][\A q \in DOMAIN suggestions :
          /\ q \in DOMAIN suggestions'
          /\ ~IsPending(q) => suggestions'[q] = suggestions[q]]_vars

(***************************************************************************)
(* A suggestion lies in the window and in the corrected track, and never   *)
(* on the corrected frame itself; of a pass no more frames than the limit  *)
(* and the corrected one are held (reprocessing.py:764-773, 896-908).      *)
(***************************************************************************)
SuggestionsFitSeed ==
    /\ \A q \in DOMAIN suggestions :
          LET n == q[1] IN
          /\ q[2] # log[n].seed
          /\ q[2] \in (log[n].seed - WindowFrames)..(log[n].seed + WindowFrames)
          /\ q[2] \in Seed(n).first..Seed(n).last
    /\ \A j \in Jobs : stage[j] = "begun" =>
          Cardinality(Wanted(SeedFrame(j), StartFrame(j), EndFrame(j))) <= MaxFrames + 1

=============================================================================
