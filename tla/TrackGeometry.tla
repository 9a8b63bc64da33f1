---------------------------- MODULE TrackGeometry ----------------------------
(***************************************************************************)
(* Where a track is at a frame, and what a reviewer's edit of its geometry *)
(* does to it (rendering.box_at_frame, review._updated_states).            *)
(*                                                                         *)
(* A box is its centre on one axis; boxes have one size.  Centres are      *)
(* multiples of a unit fine enough for every division to be exact.  A      *)
(* keyframe is [frame, at], a track [class, first, last, active, redacted, *)
(* keys], with keys in ascending order of their frames.                    *)
(***************************************************************************)
EXTENDS Integers, Sequences, SequencesExt

\* The members of the finite set S, each after those that come before it.
\* (SortSeq of the module TLC has no definition that could be reasoned about.)
Ordered(S, before) ==
    [n \in 1..Cardinality(S) |->
        CHOOSE x \in S : Cardinality({y \in S : <<y, x>> \in before}) = n - 1]

NoBox == -1

\* NormalizedBox.interpolate.
Between(left, right, f) ==
    left.at + ((right.at - left.at) * (f - left.frame)) \div (right.frame - left.frame)

\* box_at_frame of a track that is active and redacted.
BoxAt(t, f) ==
    IF f \notin t.first..t.last \/ t.keys = <<>> THEN NoBox
    ELSE IF f <= t.keys[1].frame THEN t.keys[1].at
    ELSE IF f >= Last(t.keys).frame THEN Last(t.keys).at
    ELSE LET i == CHOOSE i \in 1..(Len(t.keys) - 1) :
                      t.keys[i].frame < f /\ f <= t.keys[i + 1].frame
         IN  Between(t.keys[i], t.keys[i + 1], f)

Shown(t) == t.active /\ t.redacted

\* redactions_at_frame: the padding is a function of the class and the box.
RedactionsAt(snapshot, f) ==
    {[track |-> i, class |-> snapshot[i].class, at |-> BoxAt(snapshot[i], f)] :
        i \in {j \in DOMAIN snapshot : Shown(snapshot[j]) /\ BoxAt(snapshot[j], f) # NoBox}}

\* upsert_keyframe: the keyframe takes the place of one at its frame.
Upsert(keyed, key) == {k \in keyed : k.frame # key.frame} \cup {key}

\* A track's keyframes are kept in the order of their frames.
InTime(keyed) == Ordered(keyed, {p \in keyed \X keyed : p[1].frame < p[2].frame})

\* RESTORE_TRACK, DELETE_FALSE_POSITIVE and REDACT_TRACK.
Restored(t) == [t EXCEPT !.redacted = FALSE]
Deleted(t)  == [t EXCEPT !.active = FALSE, !.redacted = FALSE]
Redacted(t) == [t EXCEPT !.active = TRUE, !.redacted = TRUE]

\* MOVE_REGION: refused outside the span of the track.
Moved(t, key) == [t EXCEPT !.keys = InTime(Upsert(ToSet(@), key)), !.active = TRUE]

Extended(t, first, last) == [t EXCEPT !.first = first, !.last = last]

\* Faulty variant: the keyframes outside the new span are dropped, no more.
Cropped(t, first, last, timely) ==
    [t EXCEPT !.first = first, !.last = last,
              !.keys = SelectSeq(@, LAMBDA k : k.frame \in first..last /\ k \in timely)]

\* TRIM_TRACK: a keyframe stays that is in the new span by its frame and by its
\* time (timely); the ends of the new span get keyframes of their own.
Trimmed(t, first, last, timely) ==
    LET inside == {k \in ToSet(t.keys) : k.frame \in first..last /\ k \in timely}
        opened == Upsert(inside, [frame |-> first, at |-> BoxAt(t, first)])
    IN  [t EXCEPT !.first = first, !.last = last,
                  !.keys = InTime(Upsert(opened, [frame |-> last, at |-> BoxAt(t, last)]))]

=============================================================================
