---------------------------- MODULE ReviewHistory ----------------------------
(***************************************************************************)
(* The review workspace in the browser                                     *)
(* (apps/web/src/components/ReviewWorkspace.tsx) on top of the review log: *)
(* its copy of the snapshot, and the stacks behind its undo and redo       *)
(* buttons.  It rebuilds the stacks whenever it loads the audit log; after *)
(* a change of its own it pushes and pops them itself, and after a refused *)
(* one it loads the snapshot only.                                         *)
(*                                                                         *)
(* A change is under way from the click to the answer (mutationBusy); the  *)
(* GETs are not held back by it, and may be answered in any order, so that *)
(* an answer may show the log as it was at any revision.                   *)
(***************************************************************************)
EXTENDS ReviewLog, SequencesExt

CONSTANT Workspaces   \* the sessions that are workspaces; others call the API

ASSUME WorkspaceAssumption == Workspaces \subseteq Sessions

VARIABLES
    desk,   \* desk[w]: the snapshot's and the audit log's revision, and the stacks
    asks,   \* asks[w]: the change under way, and the revision it was given
    torn    \* torn[w]: history variable, which no guard reads: a change of its own
            \* met an audit log it was not made on, and no load has mended that

workVars == <<vars, desk, asks, torn>>

NoAsk == [kind |-> "none", target |-> 0, answer |-> 0]

Edits == {n \in 1..revision : \E a \in log : a.revision = n /\ a.kind = "edit"}

\* The stacks name edits only, never an undo, a redo or an event.
DeskTypeOK ==
    /\ desk \in [Workspaces -> [seen : 0..revision, upTo : 0..revision,
                                undo : Seq(Edits), redo : Seq(Edits)]]
    /\ asks \in [Workspaces -> [kind : {"none", "edit", "undo", "redo"},
                                target : Edits \cup {0}, answer : 0..revision]]
    /\ torn \in [Workspaces -> BOOLEAN]

EmptyStacks == [undo |-> <<>>, redo |-> <<>>]

\* The workspace of a video nobody has reviewed yet.
DeskInit ==
    /\ Init
    /\ desk = [w \in Workspaces |-> [seen |-> 0, upTo |-> 0, undo |-> <<>>, redo |-> <<>>]]
    /\ asks = [w \in Workspaces |-> NoAsk]
    /\ torn = [w \in Workspaces |-> FALSE]

-----------------------------------------------------------------------------
(* The stacks, rebuilt from the audit log.                                 *)

\* Faulty variant: a new edit leaves the redo stack as it was.
KeepRedo(stack) == stack

ClearRedo(stack) == <<>>

Without(stack, id) ==
    LET i == SelectLastInSeq(stack, LAMBDA x : x = id)
    IN  IF i = 0 THEN stack ELSE RemoveAt(stack, i)

\* Faulty variant: an event clears the redo stack, as an edit does.
PushAsChange(stacks, a) ==
    CASE a.kind = "undo" -> [undo |-> Without(stacks.undo, a.target),
                             redo |-> Append(stacks.redo, a.target)]
      [] a.kind = "redo" -> [undo |-> Append(stacks.undo, a.target),
                             redo |-> Without(stacks.redo, a.target)]
      [] a.kind = "edit" -> [undo |-> Append(stacks.undo, a.revision),
                             redo |-> ClearRedo(stacks.redo)]
      [] OTHER -> [stacks EXCEPT !.redo = <<>>]

\* One action of the log.
Push(stacks, a) ==
    CASE a.kind = "undo" -> [undo |-> Without(stacks.undo, a.target),
                             redo |-> Append(stacks.redo, a.target)]
      [] a.kind = "redo" -> [undo |-> Append(stacks.undo, a.target),
                             redo |-> Without(stacks.redo, a.target)]
      [] a.kind = "edit" -> [undo |-> Append(stacks.undo, a.revision),
                             redo |-> ClearRedo(stacks.redo)]
      [] OTHER -> stacks

ActionAt(n) == CHOOSE a \in log : a.revision = n

\* What the first n actions of the log leave on the stacks.
StacksAfter[n \in 0..revision] ==
    IF n = 0 THEN EmptyStacks ELSE Push(StacksAfter[n - 1], ActionAt(n))

\* A change, which events of an export are not, among the actions after m up to n.
ChangeBetween(m, n) == \E a \in log : m < a.revision /\ a.revision <= n /\ a.kind # "event"

-----------------------------------------------------------------------------
(* Loading.  Opening the page fetches both side by side.                   *)

\* reloadSnapshot: after a 409, an accepted or finished export, a detection.
ReloadSnapshot(w) ==
    /\ \E seen \in 0..revision : desk' = [desk EXCEPT ![w].seen = seen]
    /\ UNCHANGED <<vars, asks, torn>>

\* loadAudit: after a finished export or a detection, or in the audit drawer.
LoadAudit(w) ==
    /\ \E upTo \in 0..revision :
          desk' = [desk EXCEPT ![w] = [seen |-> @.seen, upTo |-> upTo,
                                       undo |-> StacksAfter[upTo].undo,
                                       redo |-> StacksAfter[upTo].redo]]
    /\ torn' = [torn EXCEPT ![w] = asks[w] # NoAsk]
    /\ UNCHANGED <<vars, asks>>

-----------------------------------------------------------------------------
(* A change, sent with the revision of the snapshot and, for undo and redo, *)
(* the id on top of a stack.  At another revision it is refused at once     *)
(* and changes nothing but what ReloadSnapshot then does.                   *)

Send(w, kind, target) ==
    /\ asks[w] = NoAsk
    /\ desk[w].seen = revision
    /\ Begin(w)
    /\ asks' = [asks EXCEPT ![w] = [kind |-> kind, target |-> target, answer |-> 0]]
    /\ UNCHANGED <<desk, torn>>

Click(w) ==
    \/ Send(w, "edit", 0)
    \/ desk[w].undo # <<>> /\ Send(w, "undo", Last(desk[w].undo))
    \/ desk[w].redo # <<>> /\ Send(w, "redo", Last(desk[w].redo))

\* The service resolves what was sent.
Resolve(w) ==
    LET a == ActionAt(asks[w].target)
    IN  /\ \/ asks[w].kind = "edit" /\ PrepareEdit(w)
           \/ asks[w].kind = "undo" /\ MayUndo(a) /\ Prepare(w, InversePayload(a, "undo", a.before))
           \/ asks[w].kind = "redo" /\ MayRedo(a) /\ Prepare(w, InversePayload(a, "redo", a.after))
        /\ UNCHANGED <<desk, asks, torn>>

Commit(w) ==
    /\ Reserve(w)
    /\ asks' = [asks EXCEPT ![w].answer = revision']
    /\ UNCHANGED <<desk, torn>>

\* Refused, or lost on the way there.
Refuse(w) ==
    /\ Abandon(w)
    /\ asks' = [asks EXCEPT ![w] = NoAsk]
    /\ UNCHANGED <<desk, torn>>

\* Faulty variant: an undone edit is not offered to redo.
OnlyPop(stacks, ask) ==
    CASE ask.kind = "undo" -> [undo |-> Front(stacks.undo), redo |-> stacks.redo]
      [] ask.kind = "redo" -> [undo |-> Append(stacks.undo, ask.target),
                               redo |-> Front(stacks.redo)]
      [] OTHER -> [undo |-> Append(stacks.undo, ask.answer), redo |-> ClearRedo(stacks.redo)]

\* Faulty variant: what can be redone is the undo.
OfferUndo(stacks, ask) ==
    CASE ask.kind = "undo" -> [undo |-> Front(stacks.undo),
                               redo |-> Append(stacks.redo, ask.answer)]
      [] ask.kind = "redo" -> [undo |-> Append(stacks.undo, ask.target),
                               redo |-> Front(stacks.redo)]
      [] OTHER -> [undo |-> Append(stacks.undo, ask.answer), redo |-> ClearRedo(stacks.redo)]

\* What the workspace makes of its stacks by itself.
Moved(stacks, ask) ==
    CASE ask.kind = "undo" -> [undo |-> Front(stacks.undo),
                               redo |-> Append(stacks.redo, ask.target)]
      [] ask.kind = "redo" -> [undo |-> Append(stacks.undo, ask.target),
                               redo |-> Front(stacks.redo)]
      [] OTHER -> [undo |-> Append(stacks.undo, ask.answer), redo |-> ClearRedo(stacks.redo)]

\* The answer of the service: the new snapshot, and the action it appended.
Answer(w) ==
    LET n     == asks[w].answer
        moved == Moved(desk[w], asks[w])
    IN  /\ n # 0
        /\ desk' = [desk EXCEPT ![w] = [seen |-> n, upTo |-> n,
                                        undo |-> moved.undo, redo |-> moved.redo]]
        /\ torn' = [torn EXCEPT ![w] = @ \/ ChangeBetween(desk[w].upTo, n - 1)]
        /\ asks' = [asks EXCEPT ![w] = NoAsk]
        /\ UNCHANGED vars

\* The answer is lost, or a later request of the same click failed, after which
\* the answers of the earlier ones are dropped.
LoseAnswer(w) ==
    /\ asks[w].answer # 0
    /\ asks' = [asks EXCEPT ![w] = NoAsk]
    /\ UNCHANGED <<vars, desk, torn>>

\* Other sessions: scripts, the export service.
OthersNext ==
    /\ \E s \in Sessions \ Workspaces :
          \/ Begin(s)
          \/ PrepareEdit(s)
          \/ PrepareEvent(s)
          \/ PrepareInverse(s)
          \/ Reserve(s)
          \/ Abandon(s)
    /\ UNCHANGED <<desk, asks, torn>>

WorkspaceNext ==
    \/ \E w \in Workspaces :
          \/ ReloadSnapshot(w)
          \/ LoadAudit(w)
          \/ Click(w)
          \/ Resolve(w)
          \/ Commit(w)
          \/ Refuse(w)
          \/ Answer(w)
          \/ LoseAnswer(w)
    \/ OthersNext

WorkspaceSpec == DeskInit /\ [][WorkspaceNext]_workVars

-----------------------------------------------------------------------------
(* Properties                                                              *)

\* The workspace shows the current revision, and every change up to it has reached
\* the stacks.
InStep(w) ==
    /\ desk[w].seen = revision
    /\ ~ChangeBetween(desk[w].upTo, revision)
    /\ ~torn[w]

(***************************************************************************)
(* What the workspace does to its stacks after a change of its own is what *)
(* it would have rebuilt from the log, whatever GETs, exports and changes  *)
(* of others came between (ReviewWorkspace.tsx:90-111, 505-506, 626-627,   *)
(* 660-661).                                                               *)
(***************************************************************************)
StacksAreRebuilt ==
    \A w \in Workspaces :
        InStep(w) => [undo |-> desk[w].undo, redo |-> desk[w].redo] = StacksAfter[revision]

(***************************************************************************)
(* A workspace that is in step never offers a redo the service would       *)
(* refuse: whatever the reviewers did in between, the action on top of its *)
(* redo stack is still undone and nobody touched its tracks since          *)
(* (ReviewWorkspace.tsx:90-111, 649-667; review.py:559-585).               *)
(***************************************************************************)
OfferedRedoIsAccepted ==
    \A w \in Workspaces :
        InStep(w) /\ desk[w].redo # <<>> => MayRedo(ActionAt(Last(desk[w].redo)))

(***************************************************************************)
(* The same of every workspace that shows the current revision: after a    *)
(* conflict it says that the state is refreshed and the change may be      *)
(* retried.  It does not hold: only the snapshot was refreshed, the top of *)
(* the redo stack may be done for good, and the service refuses it each    *)
(* time (ReviewWorkspace.tsx:463-468; review.py:559-583).                  *)
(***************************************************************************)
RefreshedRedoIsAccepted ==
    \A w \in Workspaces :
        desk[w].seen = revision /\ asks[w] = NoAsk /\ desk[w].redo # <<>>
            => MayRedo(ActionAt(Last(desk[w].redo)))

(***************************************************************************)
(* While nothing is left to redo, a workspace in step never offers an undo *)
(* the service would refuse: the top of its undo stack is the newest       *)
(* change of the log, or the action that change has redone, and exports    *)
(* recorded since do not count.  With an undone action on the redo stack   *)
(* this is not so: after two edits of one track and one undo the button is *)
(* enabled, and the service takes the undo for a newer change of the track *)
(* (ReviewWorkspace.tsx:90-111, 612-630, 1577; review.py:559-585).         *)
(***************************************************************************)
OfferedUndoIsAccepted ==
    \A w \in Workspaces :
        InStep(w) /\ desk[w].redo = <<>> /\ desk[w].undo # <<>>
            => MayUndo(ActionAt(Last(desk[w].undo)))

=============================================================================
