----------------------------- MODULE MCReviewLog -----------------------------
(* One detected track, one free id, two sessions.                          *)
EXTENDS ReviewLog, TLC

CONSTANTS plate, manual, v1, v2, s1, s2

DetectedTracks == (plate :> v1) @@ (manual :> NoValue)

SessionSymmetry == Permutations(Sessions)

=============================================================================
