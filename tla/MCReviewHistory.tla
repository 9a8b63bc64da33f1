--------------------------- MODULE MCReviewHistory ---------------------------
(* A workspace and another client of the API; nothing was detected, and    *)
(* the reviewers draw up to two tracks.                                    *)
EXTENDS ReviewHistory, TLC

CONSTANTS left, right, drawn, page, script

NothingDetected == [t \in Tracks |-> NoValue]

TrackSymmetry == Permutations(Tracks)

=============================================================================
