-------------------------- MODULE VersionedDocument --------------------------
(***************************************************************************)
(* What the review log promises to its readers (the workspace, the export  *)
(* renderer, an auditor): a document with a linear history.  A commit adds *)
(* one version, made from the latest one; a committed version never        *)
(* changes, so a revision number names the same document for ever.         *)
(***************************************************************************)
EXTENDS Sequences, Naturals

CONSTANTS Tracks, Values, NoValue

VARIABLE versions   \* versions[n + 1] is the document at revision n

Document == [Tracks -> Values \cup {NoValue}]

DocumentInit == \E d \in Document : versions = <<d>>

\* An edit gives values to some tracks; it removes none.
Edit(old, new) == \A t \in Tracks : new[t] \in Values \cup {old[t]}

\* Undo and redo bring tracks back to what they were in an older version.
Revert(old, new) ==
    \E n \in 1..Len(versions) : \A t \in Tracks : new[t] \in {versions[n][t], old[t]}

Commit ==
    LET old == versions[Len(versions)]
        new == versions'[Len(versions) + 1]
    IN  /\ Len(versions') = Len(versions) + 1
        /\ versions' = Append(versions, new)
        /\ new \in Document
        /\ Edit(old, new) \/ Revert(old, new)

DocumentSpec == DocumentInit /\ [][Commit]_versions

=============================================================================
