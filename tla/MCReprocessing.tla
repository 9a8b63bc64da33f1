---------------------------- MODULE MCReprocessing ----------------------------
(* Two jobs and two reviewers over a track of a few frames.                *)
EXTENDS Reprocessing, TLC

CONSTANTS j1, j2, s1, s2, face, plate

GivenSpans == {<<0, 2>>, <<0, 1>>}

Symmetry == Permutations(Jobs) \cup Permutations(Sessions)
            \cup Permutations(Classes)

=============================================================================
