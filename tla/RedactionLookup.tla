--------------------------- MODULE RedactionLookup ---------------------------
(***************************************************************************)
(* SequentialRedactionLookup (rendering.py): the renderer asks for the     *)
(* redactions of one frame after the other.  The lookup keeps two pointers *)
(* into the tracks, sorted by their first and by their last frame, the     *)
(* tracks that are live between the two, and a keyframe cursor per track.  *)
(***************************************************************************)
EXTENDS TrackGeometry, FiniteSetsExt

Eligible(snapshot) == {i \in DOMAIN snapshot : Shown(snapshot[i]) /\ snapshot[i].keys # <<>>}

\* The tracks by first (last) frame, then by ordinal.
Starts(snapshot) ==
    LET E == Eligible(snapshot)
    IN  Ordered(E, {p \in E \X E :
            \/ snapshot[p[1]].first < snapshot[p[2]].first
            \/ snapshot[p[1]].first = snapshot[p[2]].first /\ p[1] < p[2]})
Ends(snapshot) ==
    LET E == Eligible(snapshot)
    IN  Ordered(E, {p \in E \X E :
            \/ snapshot[p[1]].last < snapshot[p[2]].last
            \/ snapshot[p[1]].last = snapshot[p[2]].last /\ p[1] < p[2]})

NewLookup(snapshot) ==
    [starts |-> Starts(snapshot), ends |-> Ends(snapshot), started |-> 0, ended |-> 0,
     live |-> {}, cursor |-> [i \in DOMAIN snapshot |-> 1]]

\* Faulty variant: a track is removed at its last frame.
TracksUntil(snapshot, f) == {i \in DOMAIN snapshot : snapshot[i].last <= f}

\* The tracks whose end the second loop passes.
TracksBefore(snapshot, f) == {i \in DOMAIN snapshot : snapshot[i].last < f}

\* The while loops: the pointer p moves on while the next track is in S.
Passed(tracks, p, S) ==
    Max({q \in p..Len(tracks) : \A r \in (p + 1)..q : tracks[r] \in S})

\* The cursor of a track moves only between its first and last keyframe.
Ahead(keys, c, f) ==
    IF f <= keys[1].frame \/ f >= Last(keys).frame THEN c
    ELSE Min({d \in c..Len(keys) : d = Len(keys) \/ keys[d + 1].frame >= f})

\* at_frame: the pointers, the live tracks and the cursors move on to f.
MovedTo(lookup, snapshot, f) ==
    LET started == Passed(lookup.starts, lookup.started,
                          {i \in DOMAIN snapshot : snapshot[i].first <= f})
        ended   == Passed(lookup.ends, lookup.ended, TracksBefore(snapshot, f))
        live    == (lookup.live \cup {lookup.starts[p] : p \in (lookup.started + 1)..started})
                   \ {lookup.ends[p] : p \in (lookup.ended + 1)..ended}
    IN  [lookup EXCEPT !.started = started, !.ended = ended, !.live = live,
            !.cursor = [i \in DOMAIN snapshot |->
                IF i \in live /\ f \in snapshot[i].first..snapshot[i].last
                THEN Ahead(snapshot[i].keys, lookup.cursor[i], f) ELSE lookup.cursor[i]]]

\* _SequentialTrack.box_at, its cursor having moved to f.
CursorBox(t, c, f) ==
    IF f \notin t.first..t.last THEN NoBox
    ELSE IF f <= t.keys[1].frame THEN t.keys[1].at
    ELSE IF f >= Last(t.keys).frame THEN Last(t.keys).at
    ELSE Between(t.keys[c], t.keys[c + 1], f)

FoundAt(lookup, snapshot, f) ==
    LET box(i) == CursorBox(snapshot[i], lookup.cursor[i], f)
    IN  {[track |-> i, class |-> snapshot[i].class, at |-> box(i)] :
            i \in {j \in lookup.live : box(j) # NoBox}}

=============================================================================
