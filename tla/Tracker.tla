------------------------------- MODULE Tracker -------------------------------
(***************************************************************************)
(* Suppression of duplicates, association and smoothing: what              *)
(* class_aware_nms, IoUTracker.update and smooth_track_points compute.     *)
(*                                                                         *)
(* A detection is [class, at, sure], a track [class, points] with points   *)
(* [frame, at].  The overlap of two boxes of one size is a matter of the   *)
(* distance of their centres.  The cost that orders the candidates of an   *)
(* association is left open, within the two ranks it has first.            *)
(***************************************************************************)
EXTENDS TrackGeometry, FiniteSetsExt

CONSTANTS
    MaxGap,     \* max_gap: how many frames a track may be without a detection
    Duplicate,  \* boxes closer than this overlap by more than nms_iou
    Near,       \* boxes at most this far apart overlap by iou_threshold
    Reach,      \* center_gate
    Leftmost, Rightmost  \* where the centre of a box in the picture can be

ASSUME TrackerAssumption ==
    /\ MaxGap \in Nat /\ Duplicate \in Nat \ {0} /\ Near \in Nat /\ Reach \in Nat
    /\ Leftmost \in Nat /\ Rightmost \in Nat /\ Leftmost <= Rightmost

Distance(a, b) == IF a < b THEN b - a ELSE a - b

Duplicates(d, e) == d.class = e.class /\ Distance(d.at, e.at) < Duplicate

\* class_aware_nms: a detection is dropped for one kept before it, and a sure
\* one comes before one that is not (one detector per class).
Suppressed(found) ==
    {kept \in SUBSET found :
        /\ \A d, e \in kept : Duplicates(d, e) => d = e
        /\ \A d \in found \ kept : \E e \in kept : Duplicates(d, e) /\ (d.sure => e.sure)}

\* A box is moved back into the picture.
InPicture(x) == Min({Rightmost, Max({Leftmost, x})})

\* _predict_box: the motion between the last two points goes on, within the picture.
Predicted(t, f) ==
    LET last == Last(t.points)
        prev == t.points[Len(t.points) - 1]
    IN  IF Len(t.points) = 1 THEN last.at
        ELSE InPicture(last.at + ((last.at - prev.at) * (f - last.frame))
                                   \div (last.frame - prev.frame))

Strong(t, d, f) ==
    Distance(Last(t.points).at, d.at) <= Near \/ Distance(Predicted(t, f), d.at) <= Near

\* _association_candidate
Candidate(t, d, f) ==
    t.class = d.class /\ (Strong(t, d, f) \/ Distance(Predicted(t, f), d.at) <= Reach)

Active(tracks, f) == {i \in DOMAIN tracks : f - Last(tracks[i].points).frame - 1 <= MaxGap}

\* The greedy choice among the pairs of track and detection, in any order of
\* cost: strong overlaps come first, and what is left out was taken already.
Matchings(tracks, free, offered, f) ==
    LET pairs  == {p \in free \X offered : Candidate(tracks[p[1]], p[2], f)}
        strong == {p \in pairs : Strong(tracks[p[1]], p[2], f)}
        Clash(p, q) == p # q /\ (p[1] = q[1] \/ p[2] = q[2])
    IN  {m \in SUBSET pairs :
            /\ \A p, q \in m : ~Clash(p, q)
            /\ \A p \in pairs \ m : \E q \in (IF p \in strong THEN m \cap strong ELSE m) : Clash(p, q)}

Point(d, f) == [frame |-> f, at |-> d.at]

\* Faulty variant: one association for all detections, sure or not.
OneTier(tracks, kept, f) == Matchings(tracks, Active(tracks, f), kept, f)

\* Sure detections claim tracks first, the others what is left of them.
Associations(tracks, kept, f) ==
    LET sure   == {d \in kept : d.sure}
        active == Active(tracks, f)
    IN  UNION {{m \cup n : n \in Matchings(tracks, active \ {p[1] : p \in m}, kept \ sure, f)} :
                  m \in Matchings(tracks, active, sure, f)}

\* IoUTracker.update, for one choice m of the association.
Updated(tracks, kept, m, f) ==
    LET grown == [i \in DOMAIN tracks |->
                     IF \E p \in m : p[1] = i
                     THEN [tracks[i] EXCEPT !.points =
                              Append(@, Point((CHOOSE p \in m : p[1] = i)[2], f))]
                     ELSE tracks[i]]
        fresh == {d \in kept : d.sure /\ \A p \in m : p[2] # d}
    IN  grown \o SetToSeq({[class |-> d.class, points |-> <<Point(d, f)>>] : d \in fresh})

\* Faulty variant: the sum is divided by the width of a whole window.
MeanOfFive(points, S) == MapThenSumSet(LAMBDA j : points[j].at, S) \div 5

Mean(points, S) == MapThenSumSet(LAMBDA j : points[j].at, S) \div Cardinality(S)

Window(points, i) == Max({1, i - 2})..Min({Len(points), i + 2})

\* smooth_track_points: each point moves to the mean of its window.
Smoothed(points) ==
    IF Len(points) < 3 THEN points
    ELSE [i \in DOMAIN points |-> [points[i] EXCEPT !.at = Mean(points, Window(points, i))]]

=============================================================================
