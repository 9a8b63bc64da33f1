---------------------------- MODULE RedactionFlow ----------------------------
(***************************************************************************)
(* From the frames of a video to the redactions of its export: the         *)
(* sampling loop (FramePipeline) decides which frames the detectors see,   *)
(* the tracker links what they found (Tracker), the tracks are smoothed    *)
(* and stored, a reviewer edits them (TrackGeometry), and the frozen       *)
(* snapshot is rendered (Rendering).                                       *)
(*                                                                         *)
(* Proxy and original have the same frames.  The rows in between, and who  *)
(* races for them, are the matter of VideoFlow.                            *)
(***************************************************************************)
EXTENDS FramePipeline, Tracker, Rendering

CONSTANTS
    Sightings,  \* Sightings[f]: what the detectors may find in frame f, together
    Places,     \* where a reviewer puts a region
    MaxEdits    \* bound: edits of a review

ASSUME FlowAssumption ==
    /\ Sightings \in [Frames -> SUBSET SUBSET [class : STRING, at : Leftmost..Rightmost, sure : BOOLEAN]]
    /\ \A f \in Frames : Sightings[f] # {} /\ \A found \in Sightings[f] : IsFiniteSet(found)
    /\ Places \subseteq Leftmost..Rightmost
    /\ MaxEdits \in Nat

VARIABLES
    linked,    \* the analysed frames the tracker has taken
    tracks,    \* the tracks of the tracker
    owed,      \* history: the sure detections kept, [frame, class, at]
    stage,     \* "detecting", "reviewing", "exporting"
    edits,     \* how many edits were made
    touched    \* the tracks a reviewer has edited

flowVars == <<linked, tracks, owed, stage, edits, touched>>
vars     == <<pipelineVars, renderVars, flowVars>>

Spans == {span \in Frames \X Frames : span[1] <= span[2]}

TypeOK ==
    /\ phase \in PipelinePhases
    /\ decoded \in 0..LastFrame + 1
    /\ pending \in Seq(Frames)
    /\ analysed \subseteq Frames /\ linked \subseteq analysed
    /\ step \in RenderSteps
    /\ attempt \in DOMAIN Encoders
    /\ \A t \in ToSet(tracks) :
           \A i \in 1..(Len(t.points) - 1) : t.points[i].frame < t.points[i + 1].frame
    /\ \A t \in ToSet(snapshot) :
           /\ t.first \in Frames /\ t.last \in Frames /\ t.first <= t.last
           /\ t.keys # <<>> /\ \A k \in ToSet(t.keys) : k.frame \in t.first..t.last
    /\ stage \in {"detecting", "reviewing", "exporting"}
    /\ touched \subseteq DOMAIN snapshot

Init ==
    /\ PipelineInit
    /\ RenderInit
    /\ linked = {} /\ tracks = <<>> /\ owed = {}
    /\ stage = "detecting" /\ edits = 0 /\ touched = {}

Detect == stage = "detecting" /\ (Loop \/ Pools) /\ UNCHANGED <<renderVars, flowVars>>

\* IoUTracker.track takes the frames in order, after duplicates are suppressed.
Link ==
    /\ stage = "detecting" /\ phase = "linking" /\ linked # analysed
    /\ LET f == Min(analysed \ linked)
       IN  \E found \in Sightings[f] : \E kept \in Suppressed(found) :
           \E m \in Associations(tracks, kept, f) :
               /\ tracks' = Updated(tracks, kept, m, f)
               /\ linked' = linked \cup {f}
               /\ owed' = owed \cup {[frame |-> f, class |-> d.class, at |-> d.at] :
                                        d \in {e \in kept : e.sure}}
    /\ UNCHANGED <<pipelineVars, renderVars, stage, edits, touched>>

Stored(t) ==
    [class |-> t.class, first |-> t.points[1].frame, last |-> Last(t.points).frame,
     active |-> TRUE, redacted |-> TRUE, keys |-> Smoothed(t.points)]

\* The tracks are stored with smoothed keyframes and open for review.
Store ==
    /\ stage = "detecting" /\ phase = "linking" /\ linked = analysed
    /\ stage' = "reviewing"
    /\ snapshot' = [i \in DOMAIN tracks |-> Stored(tracks[i])]
    /\ UNCHANGED <<pipelineVars, step, attempt, lookup, written, output,
                   linked, tracks, owed, edits, touched>>

Edit(i, t) ==
    /\ edits' = edits + 1
    /\ touched' = touched \cup {i}
    /\ snapshot' = [snapshot EXCEPT ![i] = t]
    /\ UNCHANGED <<pipelineVars, step, attempt, lookup, written, output,
                   linked, tracks, owed, stage>>

\* A command has a span of frames and one of milliseconds, each with the
\* track's own as its default and neither checked against the other.  The
\* milliseconds are not modelled: of the keyframes, any may be outside of them.
Trim(i) ==
    LET t == snapshot[i]
    IN  \E span \in Spans, timely \in SUBSET ToSet(t.keys) :
            /\ t.first <= span[1] /\ span[2] <= t.last
            /\ Edit(i, Trimmed(t, span[1], span[2], timely))

Extend(i) ==
    LET t == snapshot[i]
    IN  \E span \in Spans :
            /\ span[1] <= t.first /\ t.last <= span[2]
            /\ Edit(i, Extended(t, span[1], span[2]))

Move(i) ==
    \E f \in snapshot[i].first..snapshot[i].last, p \in Places :
        Edit(i, Moved(snapshot[i], [frame |-> f, at |-> p]))

Review ==
    stage = "reviewing" /\ edits < MaxEdits /\ \E i \in DOMAIN snapshot :
        \/ Edit(i, Restored(snapshot[i])) \/ Edit(i, Deleted(snapshot[i]))
        \/ Edit(i, Redacted(snapshot[i]))
        \/ Trim(i) \/ Extend(i) \/ Move(i)

\* The revision is frozen, and the export handler renders it.
BeginExport ==
    /\ stage = "reviewing"
    /\ stage' = "exporting"
    /\ step' = "attempting"
    /\ UNCHANGED <<pipelineVars, snapshot, attempt, lookup, written, output,
                   linked, tracks, owed, edits, touched>>

Export == Render(clip) /\ UNCHANGED <<pipelineVars, flowVars>>

Next == Detect \/ Link \/ Store \/ Review \/ BeginExport \/ Export

\* Decoding, inference and encoding come to an end: FFmpeg and the detectors
\* are external.  A reviewer need not edit, nor export.
Work == Detect \/ Link \/ Store \/ Export

Spec == Init /\ [][Next]_vars /\ WF_vars(Work)

-----------------------------------------------------------------------------
(***************************************************************************)
(* The state is well formed: tracks advance in time, keyframes lie in the  *)
(* span of their track (domain/review.py:31-43); and once the sampling     *)
(* loop was left, also by an exception, no detector runs or will, since    *)
(* the proxy is closed and may be replaced (processing.py:713-723).        *)
(***************************************************************************)
FlowIsConsistent == TypeOK /\ NoDetectorOutlivesTheLoop

(***************************************************************************)
(* Every confident detection that was kept belongs to one track, and a     *)
(* track begins with one; between two points of a track the detectors were *)
(* never without it for more than MaxGap frames.  A doubtful detection     *)
(* never continues a track that a confident one, which had to begin a      *)
(* track of its own, could have continued: weak evidence does not break a  *)
(* track in two (processing.py:590-655, tracking.py:301-361).              *)
(***************************************************************************)
TracksOweToDetections == stage = "detecting" =>
    /\ \A d \in owed :
           Cardinality({i \in DOMAIN tracks :
               tracks[i].class = d.class /\ [frame |-> d.frame, at |-> d.at] \in ToSet(tracks[i].points)}) = 1
    /\ \A t \in ToSet(tracks) :
           /\ \E d \in owed : d.class = t.class /\ d.frame = t.points[1].frame /\ d.at = t.points[1].at
           /\ \A i \in 1..(Len(t.points) - 1) : t.points[i + 1].frame - t.points[i].frame - 1 <= MaxGap
    /\ \A t, u \in ToSet(tracks) : \A n \in 2..Len(t.points) :
           LET point  == t.points[n]
               doubts == [class |-> t.class, frame |-> point.frame, at |-> point.at] \notin owed
           IN  doubts /\ u.points[1].frame = point.frame =>
                 ~Candidate([t EXCEPT !.points = SubSeq(@, 1, n - 1)],
                            [class |-> u.class, at |-> u.points[1].at, sure |-> TRUE], point.frame)

(***************************************************************************)
(* From end to end: in an export, every frame from the first to the last   *)
(* observation of a track the reviewer left alone shows a redaction of its *)
(* class, at an observed frame within the places of the observations the   *)
(* smoothing averages, and so exactly on the detected box where the        *)
(* object stands still or was seen less than three times (processing.py,   *)
(* tracking.py, rendering.py, export.py together).                         *)
(***************************************************************************)
DetectedIsRedacted ==
    \A i \in DOMAIN tracks, n \in DOMAIN output :
        LET points == tracks[i].points
            here   == {r \in output[n] : r.track = i /\ r.class = tracks[i].class}
        IN  stage = "exporting" /\ i \notin touched /\ n - 1 \in points[1].frame..Last(points).frame =>
              /\ here # {}
              /\ \A j \in DOMAIN points : points[j].frame = n - 1 =>
                     LET near == {points[k].at : k \in Max({1, j - 2})..Min({Len(points), j + 2})}
                     IN  \A r \in here : Min(near) <= r.at /\ r.at <= Max(near)

(***************************************************************************)
(* Whatever is given to an encoder, in the first attempt or a later one,   *)
(* carries the redactions that box_at_frame defines for the reviewed       *)
(* tracks at that frame: the pointers and cursors of the lookup never      *)
(* drop, keep or displace one (rendering.py:81-180 against 187-229).  And  *)
(* a published export has every frame the video promises but for the       *)
(* tolerance, whatever the attempts before came to (export.py:482-522).    *)
(***************************************************************************)
ShownAsReviewed == RenderedAsReviewed(clip)

\* A keyframe of t inside the span of u was lost, and u has none from there to f.
LostBeside(t, u, f) ==
    \E lost \in ToSet(t.keys) \ ToSet(u.keys) :
        /\ lost.frame \in u.first..u.last
        /\ \A k \in ToSet(u.keys) : k.frame \notin Min({lost.frame, f})..Max({lost.frame, f})

(***************************************************************************)
(* Trimming or extending a track moves it only next to a keyframe that the *)
(* command's milliseconds cut off: at any other frame of the old and the   *)
(* new span its box is what it was, wherever between two keyframes the cut *)
(* was made, and so is it at the new ends and up to the nearest keyframe   *)
(* that stays.  The exception is what the code does: it drops a keyframe   *)
(* that is inside the frames of the command but outside its milliseconds,  *)
(* which nothing ties to each other (review.py:358-434).                   *)
(***************************************************************************)
SpanEditsMoveNothing ==
    [][edits' # edits => \A i \in DOMAIN snapshot : Trim(i) \/ Extend(i) =>
          \A f \in Frames : BoxAt(snapshot[i], f) # NoBox /\ BoxAt(snapshot'[i], f) # NoBox =>
              \/ BoxAt(snapshot'[i], f) = BoxAt(snapshot[i], f)
              \/ LostBeside(snapshot[i], snapshot'[i], f)]_vars

(***************************************************************************)
(* A detection ends, with its tracks stored or an exception, and so does   *)
(* an export, whatever fails on the way.                                   *)
(***************************************************************************)
FlowEnds ==
    /\ stage = "detecting" ~> (stage # "detecting" \/ phase = "failed")
    /\ stage = "exporting" ~> step \in {"exported", "failed"}

=============================================================================
