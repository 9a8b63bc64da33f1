------------------------------ MODULE ReviewLog ------------------------------
(***************************************************************************)
(* The review history of one video (services/review.py): an append-only    *)
(* log of actions from which the state of every track is replayed, a       *)
(* revision counter in the video row, and sessions that read, compute and  *)
(* then reserve the next revision with a compare-and-set.                  *)
(*                                                                         *)
(* A session reads the video row, the tracks and the log with separate     *)
(* queries, so others commit in between; the update of the row and the     *)
(* insert into the log are one transaction.  The unique constraint on      *)
(* (video, revision) is left out: LogIsGapFree says that it never fires.   *)
(* A payload is a function: the tracks it lists, with NoValue for those    *)
(* under removed_track_ids.                                                *)
(***************************************************************************)
EXTENDS Naturals, Sequences, FiniteSets

CONSTANTS
    Tracks,       \* track ids, of detected and of manual tracks
    Values,       \* the TrackReviewState of a track, data left abstract
    NoValue,      \* the track is not in the snapshot
    Detected,     \* the tracks of the active model run, as detected
    Sessions,     \* requests of reviewers and of the export service
    MaxRevision   \* bound: revisions of the video

ASSUME ReviewAssumption ==
    /\ NoValue \notin Values
    /\ Detected \in [Tracks -> Values \cup {NoValue}]
    /\ MaxRevision \in Nat

VARIABLES
    revision,  \* VideoAsset.review_revision
    log,       \* the rows of review_actions
    stage,     \* stage[s]: how far session s has come
    expected,  \* expected[s]: the revision session s found in the video row
    draft      \* draft[s]: the action session s is about to append

vars == <<revision, log, stage, expected, draft>>

Payloads == UNION {[T -> Values \cup {NoValue}] : T \in SUBSET Tracks}
NoTracks == [t \in {} |-> NoValue]
Kinds    == {"edit", "undo", "redo", "event"}

\* target is inverse_of_action_id, by revision; 0 when NULL.
Drafts  == [kind : Kinds, before : Payloads, after : Payloads, target : 0..MaxRevision]
NoDraft == [kind |-> "event", before |-> NoTracks, after |-> NoTracks, target |-> 0]
Actions == [revision : 1..MaxRevision, kind : Kinds, before : Payloads,
            after : Payloads, target : 0..MaxRevision]

TypeOK ==
    /\ revision \in 0..MaxRevision
    /\ log \in SUBSET Actions
    /\ stage \in [Sessions -> {"idle", "read", "drafted"}]
    /\ expected \in [Sessions -> 0..MaxRevision]
    /\ draft \in [Sessions -> Drafts]

Init ==
    /\ revision = 0
    /\ log = {}
    /\ stage = [s \in Sessions |-> "idle"]
    /\ expected = [s \in Sessions |-> 0]
    /\ draft = [s \in Sessions |-> NoDraft]

-----------------------------------------------------------------------------
(* Replaying the log.                                                      *)

Touched(a) == DOMAIN a.before \cup DOMAIN a.after

Newest(actions) == CHOOSE a \in actions : \A b \in actions : b.revision <= a.revision

Replay(actions) ==
    [t \in Tracks |->
        LET touching == {a \in actions : t \in DOMAIN a.after}
        IN  IF touching = {} THEN Detected[t] ELSE Newest(touching).after[t]]

\* build_review_snapshot, with and without through_revision.
Snapshot(n) == Replay({a \in log : a.revision <= n})
Current     == Replay(log)

Matches(payload) == \A t \in DOMAIN payload : Current[t] = payload[t]

-----------------------------------------------------------------------------
(* One request.                                                            *)

\* The session finds the revision its client expects; any other is refused.
Begin(s) ==
    /\ stage[s] = "idle"
    /\ revision < MaxRevision
    /\ stage' = [stage EXCEPT ![s] = "read"]
    /\ expected' = [expected EXCEPT ![s] = revision]
    /\ UNCHANGED <<revision, log, draft>>

Prepare(s, d) ==
    /\ stage[s] = "read"
    /\ stage' = [stage EXCEPT ![s] = "drafted"]
    /\ draft' = [draft EXCEPT ![s] = d]
    /\ UNCHANGED <<revision, log, expected>>

Absent(T) == {t \in T : Current[t] = NoValue}
Unused(t) == \A a \in log : t \notin Touched(a)

\* _updated_states: a manual region creates one track, a split adds one
\* with a new id, every other command changes tracks that are there.
Editable(T) ==
    \/ Absent(T) = {}
    \/ \E t \in Tracks : T = {t}
    \/ \E t, child \in Tracks :
          T = {t, child} /\ Absent(T) = {child} /\ Unused(child)

PrepareEdit(s) ==
    \E T \in SUBSET Tracks \ {{}} : \E after \in [T -> Values] :
        /\ Editable(T)
        /\ Prepare(s, [kind |-> "edit", before |-> [t \in T |-> Current[t]],
                       after |-> after, target |-> 0])

\* append_system_audit_event: an export is requested or completed.
PrepareEvent(s) == Prepare(s, NoDraft)

Inverses(a) == {b \in log : b.target = a.revision}

IsUndone(a) == Inverses(a) # {} /\ Newest(Inverses(a)).kind = "undo"

LaterTouches(a) ==
    {b \in log : b.revision > a.revision /\ Touched(b) \cap Touched(a) # {}}

\* Faulty variant: the query for newer actions is forgotten.
AlwaysUntouched(a) == TRUE

Untouched(a) ==
    LaterTouches(a) # {} =>
        Inverses(a) # {} /\ Newest(LaterTouches(a)) = Newest(Inverses(a))

\* Faulty variant: an action can be undone again.
MayUndoAgain(a) == a.kind = "edit" /\ Untouched(a) /\ Matches(a.after)

MayUndo(a) == a.kind = "edit" /\ ~IsUndone(a) /\ Untouched(a) /\ Matches(a.after)
MayRedo(a) == a.kind = "edit" /\ IsUndone(a) /\ Untouched(a) /\ Matches(a.before)

InversePayload(a, kind, desired) ==
    [kind |-> kind, before |-> [t \in Touched(a) |-> Current[t]],
     after |-> desired, target |-> a.revision]

\* _resolve_inverse
PrepareInverse(s) ==
    \E a \in log :
        \/ MayUndo(a) /\ Prepare(s, InversePayload(a, "undo", a.before))
        \/ MayRedo(a) /\ Prepare(s, InversePayload(a, "redo", a.after))

Finish(s) ==
    /\ stage' = [stage EXCEPT ![s] = "idle"]
    /\ expected' = [expected EXCEPT ![s] = 0]
    /\ draft' = [draft EXCEPT ![s] = NoDraft]

Row(n, d) == [revision |-> n, kind |-> d.kind, before |-> d.before,
              after |-> d.after, target |-> d.target]

\* Faulty variant: the counter is incremented whatever its value is.
Increment(s) ==
    /\ stage[s] = "drafted"
    /\ revision' = revision + 1
    /\ log' = log \cup {Row(expected[s] + 1, draft[s])}
    /\ Finish(s)

\* Faulty variant: a lost race is repaired by taking the next number.
TakeNextNumber(s) ==
    /\ stage[s] = "drafted"
    /\ revision < MaxRevision
    /\ revision' = revision + 1
    /\ log' = log \cup {Row(revision + 1, draft[s])}
    /\ Finish(s)

\* Faulty variant: an undone action is deleted from the log.
EraseTarget(s) ==
    /\ stage[s] = "drafted"
    /\ revision = expected[s]
    /\ revision' = expected[s] + 1
    /\ log' = {a \in log : a.revision # draft[s].target}
              \cup {Row(expected[s] + 1, draft[s])}
    /\ Finish(s)

\* The conditional UPDATE of the video row and the INSERT, committed.
Reserve(s) ==
    /\ stage[s] = "drafted"
    /\ revision = expected[s]
    /\ revision' = expected[s] + 1
    /\ log' = log \cup {Row(expected[s] + 1, draft[s])}
    /\ Finish(s)

\* The update matched no row, or the request was refused or died.
Abandon(s) ==
    /\ stage[s] # "idle"
    /\ Finish(s)
    /\ UNCHANGED <<revision, log>>

Next ==
    \E s \in Sessions :
        \/ Begin(s)
        \/ PrepareEdit(s)
        \/ PrepareEvent(s)
        \/ PrepareInverse(s)
        \/ Reserve(s)
        \/ Abandon(s)

Spec == Init /\ [][Next]_vars

-----------------------------------------------------------------------------
(* Properties                                                              *)

(***************************************************************************)
(* However sessions race, the log holds one action for every revision up   *)
(* to the one in the video row: the unique constraint never fires, and     *)
(* "through revision n" means n actions (review.py:656-678, 725-746).      *)
(***************************************************************************)
LogIsGapFree ==
    /\ {a.revision : a \in log} = 1..revision
    /\ \A a, b \in log : a.revision = b.revision => a = b

(***************************************************************************)
(* The before_state an action records is the state the reviewer's action   *)
(* replaced: the snapshot was read before the reservation, query by query, *)
(* and still nothing was committed in between (review.py:642-667).         *)
(***************************************************************************)
BeforeStatesAreTrue ==
    \A a \in log : \A t \in DOMAIN a.before :
        a.before[t] = Snapshot(a.revision - 1)[t]

InversesAlternate ==
    \A a \in log : \A b \in Inverses(a) :
        LET earlier == {c \in Inverses(a) : c.revision < b.revision}
        IN  b.kind = "undo" <=> (earlier = {} \/ Newest(earlier).kind = "redo")

InversesRestore ==
    \A a \in log : \A b \in Inverses(a) : \A t \in Touched(a) :
        LET then == IF b.kind = "undo" THEN a.revision - 1 ELSE a.revision
        IN  Snapshot(b.revision)[t] = Snapshot(then)[t]

(***************************************************************************)
(* No action is undone twice in a row, or redone without being undone,     *)
(* even by sessions that resolved the same target; undo puts the tracks of *)
(* its target back to what they were before it, redo to what it made of    *)
(* them (review.py:541-566, 586-619).                                      *)
(***************************************************************************)
InversesAreExact == InversesAlternate /\ InversesRestore

(***************************************************************************)
(* Undo and redo never take away an edit somebody else made to the same    *)
(* tracks in the meantime, not even one that left the state looking as if  *)
(* nothing had happened (review.py:568-584).                               *)
(***************************************************************************)
NoEditIsLost ==
    \A a, b, c \in log :
        /\ b.target = a.revision
        /\ a.revision < c.revision /\ c.revision < b.revision
        /\ Touched(c) \cap Touched(a) # {}
        => c.target = a.revision

(***************************************************************************)
(* The log implements a document with linear history.  The export renderer *)
(* replays the revision it froze long after it was requested, while        *)
(* reviewers go on editing, and must find the same document                *)
(* (review.py:146-151, export.py:177-181, 268-272).                        *)
(***************************************************************************)
Document == INSTANCE VersionedDocument
    WITH versions <- [n \in 1..(revision + 1) |-> Snapshot(n - 1)]

ImplementsDocument == Document!DocumentSpec

=============================================================================
