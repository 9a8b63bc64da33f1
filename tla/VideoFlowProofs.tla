--------------------------- MODULE VideoFlowProofs ---------------------------
(***************************************************************************)
(* Theorems about module VideoFlow, for any number of detections and       *)
(* exports of a video, of edits, crashes and paused workers.               *)
(***************************************************************************)
EXTENDS VideoFlow, TLAPS

(***************************************************************************)
(* The inductive invariant.                                                *)
(***************************************************************************)
AtWork(j) == stage[j] \notin {"none", "requesting"}

\* An execution is of a job that was started, and a job that was completed is
\* not being executed; without paused workers a failed one is not either.
StageFitsJob ==
    /\ job[Ingest] # "absent" /\ stage[Ingest] # "requesting"
    /\ \A j \in Jobs :
        /\ AtWork(j) => job[j] \in {"running", "failed"}
        /\ AtWork(j) /\ deployment # "cloud" => job[j] = "running"
        /\ stage[j] = "requesting" => j \in Exports /\ job[j] = "absent"

\* The work behind the status of the video has not committed its end.
Ending(j) == stage[j] \in {"committed", "returned"}

StatusHasOpenWork ==
    /\ status = "PROCESSING" => \E d \in Detects : Unfinished(d) /\ ~Ending(d)
    /\ status = "EXPORTING" => \E e \in Exports : Unfinished(e) /\ ~Ending(e)
    /\ status \in {"VALIDATING", "PROXYING"} /\ deployment # "cloud" =>
           Unfinished(Ingest) /\ ~Ending(Ingest)

\* What an open session has read is old, or the video is not more exported
\* than it was.
SessionsNoticeExports ==
    \A e \in Exports : stage[e] \in {"requesting", "closing"} =>
        /\ seen[e].revision <= revision
        /\ seen[e].revision = revision /\ status = "EXPORTING" => seen[e].status = "EXPORTING"

\* The files are there from publication on, the row from the last commit on.
ExportsAreKept ==
    \A e \in Exports :
        /\ stage[e] \in {"published", "closing", "committed", "returned"} => files[e]
        /\ Ending(e) /\ Alive(e) => artifact[e] = "completed"

\* Ingest is over when detection begins, and no export has been asked for
\* while the review is at its start.
OrderOfWork ==
    /\ proxy => stage[Ingest] \notin {"begun", "working", "published"} /\ job[Ingest] # "queued"
    /\ \A d \in Detects : job[d] # "absent" => proxy
    /\ revision = 0 => \A e \in Exports : job[e] = "absent"

\* A detection that can still write its tracks bars the way to the next one.
MayCommit(d) == job[d] = "queued" \/ UnderWay(d)

OneMayCommit ==
    /\ \A c, d \in Detects : MayCommit(c) /\ MayCommit(d) => c = d
    /\ revision = 0 /\ status = "READY_FOR_REVIEW" => \A d \in Detects : ~MayCommit(d)

FlowInv ==
    /\ TypeOK
    /\ StageFitsJob
    /\ StatusHasOpenWork
    /\ SessionsNoticeExports
    /\ OutcomesAgree
    /\ ExportsAreKept
    /\ OrderOfWork
    /\ OneMayCommit

LEMMA FlowStarts == Init => FlowInv
<1> SUFFICES ASSUME Init PROVE FlowInv
  OBVIOUS
<1>1. TypeOK
  BY FlowAssumption DEF Init, TypeOK, Jobs, Queue!States, Statuses, Stages, Views, NoView, NoEdit
<1>2. StageFitsJob /\ SessionsNoticeExports /\ OutcomesAgree /\ ExportsAreKept
  BY FlowAssumption DEF Init, StageFitsJob, AtWork, SessionsNoticeExports, OutcomesAgree,
     ExportsAreKept, Ending, Jobs
<1>3. StatusHasOpenWork
  BY DEF Init, StatusHasOpenWork, Unfinished, Queue!Unfinished, Ending, Jobs
<1>4. OrderOfWork /\ OneMayCommit
  BY FlowAssumption DEF Init, OrderOfWork, OneMayCommit, MayCommit, UnderWay, Jobs
<1> QED
  BY <1>1, <1>2, <1>3, <1>4 DEF FlowInv

-----------------------------------------------------------------------------
(* The steps of handlers that have one effect on the queue: none.          *)

HandlerStages == Stages \ {"none", "requesting"}

Working(j) ==
    /\ stage[j] \in HandlerStages
    /\ \E to \in HandlerStages : stage' = [stage EXCEPT ![j] = to]
    /\ UNCHANGED <<deployment, job, starts, editing>>

OwnStep(j) ==
    \/ Return(j)
    \/ Raise(j)
    \/ j = Ingest /\ (SetOriginal \/ PublishProxy \/ FinishIngest \/ CleanUpIngest)
    \/ j \in Detects /\ (StartRun(j) \/ ReadForProposals(j) \/ CommitProposals(j) \/ CleanUpRun(j))
    \/ j \in Exports /\ (OpenArtifact(j) \/ ReadTracks(j) \/ Render(j) \/ Verify(j) \/ Publish(j)
                         \/ ReadForCompletion(j) \/ CommitCompletion(j) \/ CleanUpExport(j))

LEMMA OwnStepWorks ==
    ASSUME NEW j \in Jobs, OwnStep(j)
    PROVE  Working(j)
<1> USE DEF Working, HandlerStages, Stages, Handlers, Advance, Read
<1>1. CASE Return(j) \/ Raise(j)
  BY <1>1 DEF Return, Raise
<1>2. CASE j = Ingest /\ (SetOriginal \/ PublishProxy \/ FinishIngest \/ CleanUpIngest)
  BY <1>2 DEF SetOriginal, PublishProxy, FinishIngest, CleanUpIngest
<1>3. CASE j \in Detects /\ (StartRun(j) \/ ReadForProposals(j) \/ CommitProposals(j) \/ CleanUpRun(j))
  BY <1>3 DEF StartRun, ReadForProposals, CommitProposals, CleanUpRun
<1>4. CASE j \in Exports /\ (OpenArtifact(j) \/ ReadTracks(j) \/ Render(j) \/ Verify(j) \/ Publish(j))
  BY <1>4 DEF OpenArtifact, ReadTracks, Render, Verify, Publish
<1>5. CASE j \in Exports /\ (ReadForCompletion(j) \/ CommitCompletion(j) \/ CleanUpExport(j))
  BY <1>5 DEF ReadForCompletion, CommitCompletion, CleanUpExport
<1> QED
  BY <1>1, <1>2, <1>3, <1>4, <1>5 DEF OwnStep

LEMMA NextCases ==
    ASSUME [Next]_vars
    PROVE  \/ \E d \in Detects : RequestDetect(d)
           \/ \E e \in Exports : RequestExport(e) \/ CommitExport(e) \/ ExportRefused(e)
           \/ BeginEdit \/ EndEdit
           \/ \E j \in Jobs : Start(j) \/ OwnStep(j) \/ Complete(j) \/ MarkFailed(j) \/ WorkerDies(j)
           \/ \E S \in SUBSET Jobs : Expire(S)
           \/ Restart
           \/ UNCHANGED vars
BY DEF Next, Requests, HandlerStep, OwnStep

-----------------------------------------------------------------------------
(* Jobs and their executions.                                              *)

LEMMA StageFitsJobStep ==
    ASSUME TypeOK, StageFitsJob, [Next]_vars
    PROVE  StageFitsJob'
<1> USE FlowAssumption
    DEF StageFitsJob, AtWork, Jobs, Stages, Queue!Unfinished, Queue!Outcomes, Local
<1>0. job \in [Jobs -> Queue!States] /\ stage \in [Jobs -> Stages]
  BY DEF TypeOK
<1>1. ASSUME NEW d \in Detects, RequestDetect(d)
      PROVE  StageFitsJob'
  BY <1>0, <1>1 DEF RequestDetect, Queue!Request
<1>2. ASSUME NEW e \in Exports, RequestExport(e) \/ ExportRefused(e)
      PROVE  StageFitsJob'
  BY <1>0, <1>2 DEF RequestExport, Read, ExportRefused
<1>3. ASSUME NEW e \in Exports, CommitExport(e)
      PROVE  StageFitsJob'
  BY <1>0, <1>3 DEF CommitExport, Queue!Request
<1>4. ASSUME NEW j \in Jobs, Start(j)
      PROVE  StageFitsJob'
  BY <1>0, <1>4 DEF Start, Queue!Start
<1>5. ASSUME NEW j \in Jobs, Working(j)
      PROVE  StageFitsJob'
  BY <1>0, <1>5 DEF Working, HandlerStages
<1>6. ASSUME NEW j \in Jobs, Complete(j)
      PROVE  StageFitsJob'
  BY <1>0, <1>6 DEF Complete, Queue!Complete, Alive
<1>7. ASSUME NEW j \in Jobs, MarkFailed(j)
      PROVE  StageFitsJob'
  BY <1>0, <1>7 DEF MarkFailed, OthersOfFailure
<1>8. ASSUME NEW j \in Jobs, WorkerDies(j)
      PROVE  StageFitsJob'
  BY <1>0, <1>8 DEF WorkerDies
<1>9. ASSUME NEW S \in SUBSET Jobs, Expire(S)
      PROVE  StageFitsJob'
  <2>1. /\ job' = [j \in Jobs |-> IF j \in S THEN "failed" ELSE job[j]]
        /\ \A j \in S : job[j] = "running" /\ (deployment = "timely" => stage[j] = "none")
        /\ deployment' = deployment /\ stage' = stage /\ deployment # "local"
    BY <1>9 DEF Expire, Queue!GiveUp, OthersOfFailure, Alive
  <2>2. deployment \in {"local", "timely", "cloud"}
    BY DEF TypeOK
  <2> QED
    BY <1>0, <2>1, <2>2
<1>10. CASE Restart
  <2>1. /\ job' = [j \in Jobs |-> IF j \in {i \in Jobs : Unfinished(i)} THEN "failed" ELSE job[j]]
        /\ stage' = [j \in Jobs |-> "none"]
    BY <1>10 DEF Restart, Queue!GiveUp
  <2> QED
    BY <1>0, <2>1
<1>11. CASE BeginEdit \/ EndEdit \/ UNCHANGED vars
  BY <1>11 DEF BeginEdit, EndEdit, vars
<1> QED
  BY <1>1, <1>2, <1>3, <1>4, <1>5, <1>6, <1>7, <1>8, <1>9, <1>10, <1>11, NextCases, OwnStepWorks

-----------------------------------------------------------------------------
(* Types.                                                                  *)

LEMMA QueueTypes ==
    ASSUME TypeOK, StageFitsJob, [Next]_vars
    PROVE  /\ deployment' \in Deployments
           /\ job' \in [Jobs -> Queue!States]
           /\ starts' \in [Jobs -> Nat]
           /\ stage' \in [Jobs -> Stages]
<1> DEFINE Types == /\ deployment \in Deployments
                    /\ job \in [Jobs -> Queue!States]
                    /\ starts \in [Jobs -> Nat]
                    /\ stage \in [Jobs -> Stages]
<1> SUFFICES ASSUME Types PROVE Types'
  BY DEF TypeOK
<1> USE DEF Queue!States, Stages
<1>1. ASSUME NEW d \in Detects, RequestDetect(d)
      PROVE  Types'
  BY <1>1 DEF RequestDetect, Queue!Request, Jobs
<1>2. ASSUME NEW e \in Exports, RequestExport(e) \/ ExportRefused(e) \/ CommitExport(e)
      PROVE  Types'
  BY <1>2 DEF RequestExport, Read, ExportRefused, CommitExport, Queue!Request, Jobs
<1>3. ASSUME NEW j \in Jobs, Start(j) \/ Complete(j) \/ MarkFailed(j) \/ WorkerDies(j)
      PROVE  Types'
  BY <1>3 DEF Start, Complete, MarkFailed, WorkerDies, OthersOfFailure, Queue!Start, Queue!Complete
<1>4. ASSUME NEW j \in Jobs, Working(j)
      PROVE  Types'
  BY <1>4 DEF Working, HandlerStages
<1>5. ASSUME NEW S \in SUBSET Jobs, Expire(S)
      PROVE  Types'
  BY <1>5 DEF Expire, Queue!GiveUp, OthersOfFailure
<1>6. CASE Restart
  <2>1. /\ job' = [j \in Jobs |-> IF j \in {i \in Jobs : Unfinished(i)} THEN "failed" ELSE job[j]]
        /\ stage' = [j \in Jobs |-> "none"] /\ UNCHANGED <<starts, deployment>>
    BY <1>6 DEF Restart, Queue!GiveUp, OthersOfFailure
  <2> QED
    BY <2>1
<1>7. CASE BeginEdit \/ EndEdit \/ UNCHANGED vars
  BY <1>7 DEF BeginEdit, EndEdit, vars
<1> QED
  BY <1>1, <1>2, <1>3, <1>4, <1>5, <1>6, <1>7, NextCases, OwnStepWorks

RowTypes ==
    /\ status \in Statuses
    /\ revision \in Nat
    /\ activeRun \in Detects \cup {NoRun}
    /\ original \in BOOLEAN /\ proxy \in BOOLEAN /\ proxyFile \in BOOLEAN
    /\ runs \in [Detects -> {"absent", "queued", "running", "completed", "failed"}]
    /\ artifact \in [Exports -> {"absent", "queued", "rendering", "verifying",
                                 "completed", "failed"}]
    /\ frozen \in [Exports -> Detects \cup {NoRun}]
    /\ rendered \in [Exports -> Detects \cup {NoRun}]
    /\ files \in [Exports -> BOOLEAN]

SessionTypes == seen \in [Exports -> Views] /\ editing \in {NoEdit} \cup Nat

LEMMA CloseTypes ==
    ASSUME SessionTypes, NEW S, CloseSession(S)
    PROVE  seen' \in [Exports -> Views]
BY DEF SessionTypes, CloseSession, NoView, Views, Statuses

LEMMA ReadTypes ==
    ASSUME RowTypes, SessionTypes, NEW e \in Exports, NEW from, NEW to, Read(e, from, to)
    PROVE  RowTypes' /\ SessionTypes'
<1>1. View \in Views
  BY DEF RowTypes, View, Views
<1>2. SessionTypes'
  BY <1>1 DEF Read, SessionTypes
<1>3. RowTypes'
  BY DEF Read, RowTypes, videoVars, exportVars
<1> QED
  BY <1>2, <1>3

LEMMA FailTypes ==
    ASSUME RowTypes, NEW S \in SUBSET Jobs, FailVideo(S), OthersOfFailure
    PROVE  RowTypes'
BY DEF RowTypes, FailVideo, FailedStatus, OthersOfFailure, Statuses

LEMMA OwnStepTypes ==
    ASSUME RowTypes, SessionTypes, NEW j \in Jobs, OwnStep(j)
    PROVE  RowTypes' /\ SessionTypes'
<1> USE DEF videoVars, exportVars, Statuses
<1>1. CASE Return(j) \/ Raise(j)
  <2>1. RowTypes' /\ editing' = editing /\ CloseSession({j})
    BY <1>1 DEF Return, Raise, RowTypes, Advance
  <2> QED
    BY <2>1, CloseTypes DEF SessionTypes
<1>2. CASE j = Ingest /\ (SetOriginal \/ PublishProxy \/ FinishIngest \/ CleanUpIngest)
  <2>1. RowTypes'
    BY <1>2 DEF SetOriginal, PublishProxy, FinishIngest, CleanUpIngest, SetArtifact, SetStatus, Advance, RowTypes
  <2>2. editing' = editing /\ CloseSession({j})
    BY <1>2 DEF SetOriginal, PublishProxy, FinishIngest, CleanUpIngest, Advance
  <2> QED
    BY <2>1, <2>2, CloseTypes DEF SessionTypes
<1>3. CASE j \in Detects /\ (StartRun(j) \/ ReadForProposals(j) \/ CommitProposals(j) \/ CleanUpRun(j))
  <2>1. RowTypes'
    BY <1>3 DEF StartRun, ReadForProposals, CommitProposals, CleanUpRun, SetArtifact, SetStatus, Advance, RowTypes
  <2>2. editing' = editing /\ CloseSession({j})
    BY <1>3 DEF StartRun, ReadForProposals, CommitProposals, CleanUpRun, Advance
  <2> QED
    BY <2>1, <2>2, CloseTypes DEF SessionTypes
<1>4. CASE j \in Exports /\ (OpenArtifact(j) \/ ReadTracks(j) \/ Render(j) \/ Verify(j) \/ Publish(j))
  <2>1. RowTypes'
    BY <1>4 DEF OpenArtifact, ReadTracks, Render, Verify, Publish, SetArtifact, SetStatus, Advance, RowTypes
  <2>2. editing' = editing /\ CloseSession({j})
    BY <1>4 DEF OpenArtifact, ReadTracks, Render, Verify, Publish, Advance
  <2> QED
    BY <2>1, <2>2, CloseTypes DEF SessionTypes
<1>5. CASE j \in Exports /\ (CommitCompletion(j) \/ CleanUpExport(j))
  <2>1. RowTypes'
    <3>1. CASE CommitCompletion(j)
      BY <1>5, <3>1 DEF CommitCompletion, SetArtifact, SetStatus, RowTypes
    <3>2. CASE CleanUpExport(j)
      <4>1. files' \in [Exports -> BOOLEAN]
        BY <1>5, <3>2 DEF CleanUpExport, RowTypes
      <4> QED
        BY <3>2, <4>1 DEF CleanUpExport, RowTypes
    <3> QED
      BY <1>5, <3>1, <3>2
  <2>2. editing' = editing /\ CloseSession({j})
    BY <1>5 DEF CommitCompletion, CleanUpExport, Advance
  <2> QED
    BY <2>1, <2>2, CloseTypes DEF SessionTypes
<1>6. CASE j \in Exports /\ ReadForCompletion(j)
  BY <1>6, ReadTypes DEF ReadForCompletion
<1> QED
  BY <1>1, <1>2, <1>3, <1>4, <1>5, <1>6 DEF OwnStep

LEMMA TypeStep ==
    ASSUME TypeOK, StageFitsJob, [Next]_vars
    PROVE  TypeOK'
<1>0. RowTypes /\ SessionTypes
  BY DEF TypeOK, RowTypes, SessionTypes
<1> SUFFICES RowTypes' /\ SessionTypes'
  BY QueueTypes DEF TypeOK, RowTypes, SessionTypes
<1> USE DEF videoVars, exportVars, Statuses
<1>1. ASSUME NEW d \in Detects, RequestDetect(d)
      PROVE  RowTypes' /\ SessionTypes'
  BY <1>0, <1>1 DEF RequestDetect, RowTypes, SessionTypes
<1>2. ASSUME NEW e \in Exports, RequestExport(e)
      PROVE  RowTypes' /\ SessionTypes'
  BY <1>0, <1>2, ReadTypes DEF RequestExport
<1>3. ASSUME NEW e \in Exports, CommitExport(e)
      PROVE  RowTypes' /\ SessionTypes'
  <2>1. CloseSession({e}) /\ editing' = editing /\ seen[e].run \in Detects \cup {NoRun}
    BY <1>0, <1>3 DEF CommitExport, SessionTypes, Views
  <2>2. RowTypes'
    BY <1>0, <1>3, <2>1 DEF CommitExport, SetStatus, RowTypes
  <2> QED
    BY <1>0, <2>1, <2>2, CloseTypes DEF SessionTypes
<1>4. ASSUME NEW e \in Exports, ExportRefused(e)
      PROVE  RowTypes' /\ SessionTypes'
  <2>1. RowTypes' /\ editing' = editing /\ CloseSession({e})
    BY <1>0, <1>4 DEF ExportRefused, RowTypes
  <2> QED
    BY <1>0, <2>1, CloseTypes DEF SessionTypes
<1>5. CASE BeginEdit \/ EndEdit
  BY <1>0, <1>5 DEF BeginEdit, EndEdit, RowTypes, SessionTypes
<1>6. ASSUME NEW j \in Jobs, Start(j) \/ Complete(j)
      PROVE  RowTypes' /\ SessionTypes'
  BY <1>0, <1>6 DEF Start, Complete, RowTypes, SessionTypes
<1>7. ASSUME NEW j \in Jobs, MarkFailed(j)
      PROVE  RowTypes' /\ SessionTypes'
  BY <1>0, <1>7, FailTypes DEF MarkFailed, SessionTypes
<1>8. ASSUME NEW j \in Jobs, WorkerDies(j)
      PROVE  RowTypes' /\ SessionTypes'
  <2>1. RowTypes' /\ editing' = editing /\ CloseSession({j})
    BY <1>0, <1>8 DEF WorkerDies, RowTypes
  <2> QED
    BY <1>0, <2>1, CloseTypes DEF SessionTypes
<1>9. ASSUME NEW S \in SUBSET Jobs, Expire(S)
      PROVE  RowTypes' /\ SessionTypes'
  BY <1>0, <1>9, FailTypes DEF Expire, SessionTypes
<1>10. CASE Restart
  <2>1. RowTypes'
    <3>1. CASE UNCHANGED <<status, artifact>>
      BY <1>0, <1>10, <3>1 DEF Restart, OthersOfFailure, RowTypes
    <3>2. CASE FailVideo({j \in Jobs : Unfinished(j)})
      BY <1>0, <1>10, <3>2, FailTypes DEF Restart
    <3> QED
      BY <1>10, <3>1, <3>2 DEF Restart
  <2>2. editing' = NoEdit /\ CloseSession(Exports)
    BY <1>10 DEF Restart
  <2> QED
    BY <1>0, <2>1, <2>2, CloseTypes DEF SessionTypes
<1>11. CASE UNCHANGED vars
  BY <1>0, <1>11 DEF vars, RowTypes, SessionTypes
<1> QED
  BY <1>0, <1>1, <1>2, <1>3, <1>4, <1>5, <1>6, <1>7, <1>8, <1>9, <1>10, <1>11, NextCases, OwnStepTypes

-----------------------------------------------------------------------------
(* The status of the video and the work behind it.                         *)

Open(j) == Unfinished(j) /\ ~Ending(j)

LEMMA OpenWorkKept ==
    ASSUME StatusHasOpenWork,
           status' \in {status, "READY_FOR_REVIEW", "FAILED", "EXPORTED"},
           deployment' = deployment,
           \A j \in Jobs : Open(j) => Open(j)'
    PROVE  StatusHasOpenWork'
BY DEF StatusHasOpenWork, Open, Jobs

LEMMA FailureSettles ==
    ASSUME NEW S \in SUBSET Jobs, FailVideo(S)
    PROVE  status' \in {"READY_FOR_REVIEW", "FAILED"} /\ StatusHasOpenWork'
BY DEF FailVideo, FailedStatus, StatusHasOpenWork

\* A handler that leaves the status alone only goes on to its own end.
LEMMA OwnStepKeepsOpen ==
    ASSUME FlowInv, NEW j \in Jobs, OwnStep(j)
    PROVE  StatusHasOpenWork'
<1>0. /\ stage \in [Jobs -> Stages] /\ StageFitsJob /\ StatusHasOpenWork /\ SessionsNoticeExports
      /\ Ingest \in Jobs
  BY DEF FlowInv, TypeOK, Jobs
<1>1. Working(j) /\ deployment' = deployment /\ job' = job
  BY OwnStepWorks DEF Working
<1>2. ASSUME status' \in {status, "READY_FOR_REVIEW", "FAILED", "EXPORTED"},
             Ending(j)' => Ending(j)
      PROVE  StatusHasOpenWork'
  <2>1. \A i \in Jobs : Open(i) => Open(i)'
    BY <1>0, <1>1, <1>2 DEF Working, Open, Ending, Unfinished
  <2> QED
    BY <1>0, <1>1, <1>2, <2>1, OpenWorkKept
<1> USE DEF Advance, Ending, videoVars
<1>3. CASE Return(j) \/ Raise(j)
  <2>1. status' = status /\ (Ending(j)' => Ending(j))
    BY <1>0, <1>3 DEF Return, Raise
  <2> QED
    BY <1>2, <2>1
<1>4. CASE j = Ingest /\ SetOriginal
  <2>1. AtWork(Ingest) /\ status' = "PROXYING" /\ ~Ending(Ingest)'
    BY <1>0, <1>4 DEF SetOriginal, AtWork
  <2>2. deployment # "cloud" => job[Ingest] = "running"
    BY <1>0, <2>1 DEF StageFitsJob
  <2> QED
    BY <1>1, <2>1, <2>2 DEF StatusHasOpenWork, Unfinished, Queue!Unfinished
<1>5. CASE j = Ingest /\ (PublishProxy \/ CleanUpIngest)
  <2>1. status' = status /\ (Ending(j)' => Ending(j))
    BY <1>0, <1>5 DEF PublishProxy, CleanUpIngest
  <2> QED
    BY <1>2, <2>1
<1>6. CASE (j = Ingest /\ FinishIngest) \/ (j \in Detects /\ CommitProposals(j))
  BY <1>6 DEF FinishIngest, CommitProposals, StatusHasOpenWork
<1>7. CASE j \in Detects /\ (StartRun(j) \/ ReadForProposals(j) \/ CleanUpRun(j))
  <2>1. status' = status /\ (Ending(j)' => Ending(j))
    BY <1>0, <1>7 DEF StartRun, ReadForProposals, CleanUpRun
  <2> QED
    BY <1>2, <2>1
<1>8. CASE j \in Exports /\ (OpenArtifact(j) \/ ReadTracks(j) \/ Render(j) \/ Verify(j) \/ Publish(j)
                           \/ ReadForCompletion(j) \/ CleanUpExport(j))
  <2>1. status' = status /\ (Ending(j)' => Ending(j))
    BY <1>0, <1>8 DEF OpenArtifact, ReadTracks, Render, Verify, Publish, ReadForCompletion, Read,
       CleanUpExport
  <2> QED
    BY <1>2, <2>1
<1>9. CASE j \in Exports /\ CommitCompletion(j)
  <2>1. status' \in {status, "EXPORTED"} /\ (status = "EXPORTING" => status' = "EXPORTED")
    BY <1>0, <1>9 DEF CommitCompletion, SetStatus, SessionsNoticeExports
  <2>2. \A i \in Jobs : Open(i) /\ i # j => Open(i)'
    BY <1>0, <1>1 DEF Working, Open, Unfinished
  <2> QED
    BY <1>0, <1>1, <1>9, <2>1, <2>2, FlowAssumption DEF StatusHasOpenWork, Open, Jobs
<1> QED
  BY <1>3, <1>4, <1>5, <1>6, <1>7, <1>8, <1>9 DEF OwnStep

LEMMA StatusHasOpenWorkStep ==
    ASSUME FlowInv, [Next]_vars
    PROVE  StatusHasOpenWork'
<1>0. /\ TypeOK /\ stage \in [Jobs -> Stages] /\ job \in [Jobs -> Queue!States]
      /\ StageFitsJob /\ StatusHasOpenWork
  BY DEF FlowInv, TypeOK
<1> USE DEF Open, Unfinished, Queue!Unfinished, Ending
<1>1. ASSUME NEW d \in Detects, RequestDetect(d)
      PROVE  StatusHasOpenWork'
  <2>1. /\ d \in Jobs /\ job[d] = "absent" /\ job' = [job EXCEPT ![d] = "queued"]
        /\ stage' = stage /\ status' = "PROCESSING"
    BY <1>1 DEF RequestDetect, Queue!Request, Jobs
  <2>2. ~Ending(d)
    BY <1>0, <2>1 DEF StageFitsJob, AtWork
  <2> QED
    BY <1>0, <2>1, <2>2 DEF StatusHasOpenWork
<1>2. ASSUME NEW e \in Exports, RequestExport(e) \/ ExportRefused(e)
      PROVE  StatusHasOpenWork'
  <2>1. /\ e \in Jobs /\ UNCHANGED <<status, deployment, job>>
        /\ \E to \in {"none", "requesting"} : stage' = [stage EXCEPT ![e] = to]
    BY <1>2 DEF RequestExport, Read, ExportRefused, videoVars, Jobs
  <2>2. \A j \in Jobs : Open(j) => Open(j)'
    BY <1>0, <2>1
  <2> QED
    BY <1>0, <2>1, <2>2, OpenWorkKept
<1>3. ASSUME NEW e \in Exports, CommitExport(e)
      PROVE  StatusHasOpenWork'
  <2>1. /\ e \in Jobs /\ status' \in {status, "EXPORTING"} /\ deployment' = deployment
        /\ job' = [job EXCEPT ![e] = "queued"] /\ stage' = [stage EXCEPT ![e] = "none"]
    BY <1>3 DEF CommitExport, Queue!Request, SetStatus, Jobs
  <2>2. \A j \in Jobs : Open(j) => Open(j)'
    BY <1>0, <2>1
  <2>3. Open(e)'
    BY <1>0, <2>1
  <2>4. CASE status' = status
    BY <1>0, <2>1, <2>2, <2>4, OpenWorkKept
  <2>5. CASE status' = "EXPORTING"
    BY <2>3, <2>5 DEF StatusHasOpenWork
  <2> QED
    BY <2>1, <2>4, <2>5
<1>4. ASSUME NEW j \in Jobs, Start(j)
      PROVE  StatusHasOpenWork'
  <2>1. /\ UNCHANGED <<status, deployment>>
        /\ job' = [job EXCEPT ![j] = "running"] /\ stage' = [stage EXCEPT ![j] = "begun"]
    BY <1>4 DEF Start, Queue!Start, videoVars
  <2>2. \A i \in Jobs : Open(i) => Open(i)'
    BY <1>0, <2>1
  <2> QED
    BY <1>0, <2>1, <2>2, OpenWorkKept
<1>5. ASSUME NEW j \in Jobs, Complete(j)
      PROVE  StatusHasOpenWork'
  <2>1. /\ UNCHANGED <<status, deployment>> /\ stage[j] = "returned"
        /\ \A i \in Jobs : i # j => job'[i] = job[i] /\ stage'[i] = stage[i]
    BY <1>0, <1>5 DEF Complete, Queue!Complete, videoVars
  <2>2. \A i \in Jobs : Open(i) => Open(i)'
    BY <1>0, <2>1
  <2> QED
    BY <1>0, <2>1, <2>2, OpenWorkKept
<1>6. ASSUME NEW j \in Jobs, MarkFailed(j)
      PROVE  StatusHasOpenWork'
  BY <1>6, FailureSettles DEF MarkFailed
<1>7. ASSUME NEW j \in Jobs, WorkerDies(j)
      PROVE  StatusHasOpenWork'
  <2>1. UNCHANGED <<status, deployment, job>> /\ stage' = [stage EXCEPT ![j] = "none"]
    BY <1>7 DEF WorkerDies, videoVars
  <2>2. \A i \in Jobs : Open(i) => Open(i)'
    BY <1>0, <2>1
  <2> QED
    BY <1>0, <2>1, <2>2, OpenWorkKept
<1>8. ASSUME NEW S \in SUBSET Jobs, Expire(S)
      PROVE  StatusHasOpenWork'
  BY <1>8, FailureSettles DEF Expire
<1>9. CASE Restart
  <2>1. CASE FailVideo({j \in Jobs : Unfinished(j)})
    BY <2>1, FailureSettles
  <2>2. CASE {j \in Jobs : Unfinished(j)} = {} /\ status' = status
    <3>1. deployment' = deployment /\ deployment # "cloud"
      BY <1>9 DEF Restart, OthersOfFailure, Local
    <3>2. status \notin {"PROCESSING", "EXPORTING", "VALIDATING", "PROXYING"}
      BY <1>0, <2>2, <3>1 DEF StatusHasOpenWork, Jobs
    <3> QED
      BY <2>2, <3>2 DEF StatusHasOpenWork
  <2> QED
    BY <1>9, <2>1, <2>2 DEF Restart
<1>10. CASE BeginEdit \/ EndEdit \/ UNCHANGED vars
  <2>1. UNCHANGED <<status, deployment, job, stage>>
    BY <1>10 DEF BeginEdit, EndEdit, vars, videoVars
  <2> QED
    BY <1>0, <2>1, OpenWorkKept
<1> QED
  BY <1>0, <1>1, <1>2, <1>3, <1>4, <1>5, <1>6, <1>7, <1>8, <1>9, <1>10, NextCases, OwnStepKeepsOpen

-----------------------------------------------------------------------------
(* What open sessions have read.                                           *)

LEMMA SessionsAge ==
    ASSUME TypeOK, SessionsNoticeExports, revision' \in Nat,
           \/ revision' = revision /\ status' \in {status, "READY_FOR_REVIEW", "FAILED", "EXPORTED",
                                                  "PROXYING", "PROCESSING"}
           \/ revision' > revision,
           \A e \in Exports : stage'[e] \in {"requesting", "closing"} =>
               stage[e] \in {"requesting", "closing"} /\ seen'[e] = seen[e]
    PROVE  SessionsNoticeExports'
<1>1. revision \in Nat /\ \A e \in Exports : seen[e].revision \in Nat
  BY DEF TypeOK, Views
<1> QED
  BY <1>1 DEF SessionsNoticeExports

LEMMA SessionReads ==
    ASSUME TypeOK, SessionsNoticeExports, NEW e \in Exports, NEW from, NEW to, Read(e, from, to)
    PROVE  SessionsNoticeExports'
<1>1. /\ \A i \in Exports : i # e => stage'[i] = stage[i] /\ seen'[i] = seen[i]
      /\ seen'[e].revision = revision /\ seen'[e].status = status
      /\ revision' = revision /\ status' = status /\ revision \in Nat
  BY DEF TypeOK, Read, View, videoVars
<1> QED
  BY <1>1 DEF SessionsNoticeExports

\* A step that advances j and ends its session disturbs no other.
LEMMA AdvanceEndsSession ==
    ASSUME TypeOK, NEW j \in Jobs, NEW to, CloseSession({j}),
           stage' = [stage EXCEPT ![j] = to],
           j \in Exports => to \notin {"requesting", "closing"}
    PROVE  \A e \in Exports : stage'[e] \in {"requesting", "closing"} =>
               stage[e] \in {"requesting", "closing"} /\ seen'[e] = seen[e]
BY DEF TypeOK, CloseSession, Jobs

LEMMA OwnStepEndsSession ==
    ASSUME TypeOK, SessionsNoticeExports, TypeOK', NEW j \in Jobs, OwnStep(j)
    PROVE  SessionsNoticeExports'
<1>0. revision \in Nat /\ revision' \in Nat
  BY DEF TypeOK
<1>1. ASSUME NEW to, CloseSession({j}), stage' = [stage EXCEPT ![j] = to],
             j \in Exports => to \notin {"requesting", "closing"},
             \/ revision' = revision + 1
             \/ revision' = revision /\ status' \in {status, "READY_FOR_REVIEW", "PROXYING"}
      PROVE  SessionsNoticeExports'
  <2>1. \A e \in Exports : stage'[e] \in {"requesting", "closing"} =>
            stage[e] \in {"requesting", "closing"} /\ seen'[e] = seen[e]
    BY <1>1, AdvanceEndsSession
  <2>2. revision' = revision + 1 => revision' > revision
    BY <1>0
  <2> QED
    BY <1>0, <1>1, <2>1, <2>2, SessionsAge
<1> USE DEF Advance, videoVars
<1>2. CASE Return(j) \/ Raise(j)
  BY <1>1, <1>2 DEF Return, Raise
<1>3. CASE j = Ingest /\ (SetOriginal \/ PublishProxy \/ FinishIngest \/ CleanUpIngest)
  BY <1>1, <1>3, FlowAssumption DEF SetOriginal, PublishProxy, FinishIngest, CleanUpIngest
<1>4. CASE j \in Detects /\ (StartRun(j) \/ ReadForProposals(j) \/ CommitProposals(j) \/ CleanUpRun(j))
  <2>1. j \notin Exports
    BY <1>4, FlowAssumption
  <2> QED
    BY <1>1, <1>4, <2>1 DEF StartRun, ReadForProposals, CommitProposals, CleanUpRun
<1>5. CASE j \in Exports /\ (OpenArtifact(j) \/ ReadTracks(j) \/ Render(j) \/ Verify(j) \/ Publish(j))
  BY <1>1, <1>5 DEF OpenArtifact, ReadTracks, Render, Verify, Publish
<1>6. CASE j \in Exports /\ (CommitCompletion(j) \/ CleanUpExport(j))
  BY <1>1, <1>6 DEF CommitCompletion, CleanUpExport
<1>7. CASE j \in Exports /\ ReadForCompletion(j)
  BY <1>7, SessionReads DEF ReadForCompletion
<1> QED
  BY <1>2, <1>3, <1>4, <1>5, <1>6, <1>7 DEF OwnStep

LEMMA SessionsNoticeExportsStep ==
    ASSUME TypeOK, StageFitsJob, SessionsNoticeExports, [Next]_vars
    PROVE  SessionsNoticeExports'
<1>0. TypeOK' /\ revision \in Nat /\ revision' \in Nat /\ stage \in [Jobs -> Stages]
  BY TypeStep DEF TypeOK
<1>1. ASSUME NEW d \in Detects, RequestDetect(d)
      PROVE  SessionsNoticeExports'
  BY <1>0, <1>1, SessionsAge DEF RequestDetect, exportVars
<1>2. ASSUME NEW e \in Exports, RequestExport(e)
      PROVE  SessionsNoticeExports'
  BY <1>2, SessionReads DEF RequestExport
<1>3. ASSUME NEW e \in Exports, CommitExport(e)
      PROVE  SessionsNoticeExports'
  <2>1. /\ CloseSession({e}) /\ stage' = [stage EXCEPT ![e] = "none"] /\ e \in Jobs
        /\ revision' = revision + 1
    BY <1>3 DEF CommitExport, Jobs
  <2>2. \A i \in Exports : stage'[i] \in {"requesting", "closing"} =>
            stage[i] \in {"requesting", "closing"} /\ seen'[i] = seen[i]
    BY <2>1, AdvanceEndsSession
  <2>3. revision' > revision
    BY <1>0, <2>1
  <2> QED
    BY <1>0, <2>2, <2>3, SessionsAge
<1>4. ASSUME NEW e \in Exports, ExportRefused(e)
      PROVE  SessionsNoticeExports'
  <2>1. /\ CloseSession({e}) /\ stage' = [stage EXCEPT ![e] = "none"] /\ e \in Jobs
        /\ revision' = revision /\ status' = status
    BY <1>4 DEF ExportRefused, videoVars, Jobs
  <2> QED
    BY <1>0, <2>1, AdvanceEndsSession, SessionsAge
<1>5. CASE BeginEdit \/ EndEdit
  BY <1>0, <1>5, SessionsAge DEF BeginEdit, EndEdit, videoVars
<1>6. ASSUME NEW j \in Jobs, Start(j) \/ Complete(j)
      PROVE  SessionsNoticeExports'
  <2>1. /\ seen' = seen /\ UNCHANGED <<status, revision>>
        /\ \E to \in {"begun", "none"} : stage' = [stage EXCEPT ![j] = to]
    BY <1>6 DEF Start, Complete, videoVars
  <2> QED
    BY <1>0, <2>1, SessionsAge
<1>7. ASSUME NEW j \in Jobs, MarkFailed(j)
      PROVE  SessionsNoticeExports'
  <2>1. /\ seen' = seen /\ revision' = revision /\ stage' = [stage EXCEPT ![j] = "none"]
        /\ status' \in {"READY_FOR_REVIEW", "FAILED"}
    BY <1>7, FailureSettles DEF MarkFailed, OthersOfFailure
  <2> QED
    BY <1>0, <2>1, SessionsAge
<1>8. ASSUME NEW j \in Jobs, WorkerDies(j)
      PROVE  SessionsNoticeExports'
  <2>1. /\ CloseSession({j}) /\ stage' = [stage EXCEPT ![j] = "none"]
        /\ revision' = revision /\ status' = status
    BY <1>8 DEF WorkerDies, videoVars
  <2> QED
    BY <1>0, <2>1, AdvanceEndsSession, SessionsAge
<1>9. ASSUME NEW S \in SUBSET Jobs, Expire(S)
      PROVE  SessionsNoticeExports'
  <2>1. /\ UNCHANGED <<seen, revision, stage>> /\ status' \in {"READY_FOR_REVIEW", "FAILED"}
    BY <1>9, FailureSettles DEF Expire, OthersOfFailure
  <2> QED
    BY <1>0, <2>1, SessionsAge
<1>10. CASE Restart
  BY <1>10 DEF Restart, SessionsNoticeExports, Jobs
<1>11. CASE UNCHANGED vars
  BY <1>0, <1>11, SessionsAge DEF vars, videoVars
<1> QED
  BY <1>0, <1>1, <1>2, <1>3, <1>4, <1>5, <1>6, <1>7, <1>8, <1>9, <1>10, <1>11, NextCases,
     OwnStepEndsSession

-----------------------------------------------------------------------------
(* Exports, their artifacts and their files.                               *)

ExportInv == OutcomesAgree /\ ExportsAreKept

LEMMA ExportUntouched ==
    ASSUME ExportInv, UNCHANGED <<deployment, artifact, files>>,
           \A e \in Exports :
               /\ job'[e] = job[e] \/ job'[e] \notin {"completed", "failed", "running"}
               /\ stage'[e] = stage[e] \/ stage'[e] = "none"
    PROVE  ExportInv'
BY DEF ExportInv, OutcomesAgree, ExportsAreKept, Ending, Alive

LEMMA ExportFails ==
    ASSUME TypeOK, ExportInv, NEW S \in SUBSET Jobs, FailVideo(S), UNCHANGED <<deployment, files>>,
           job' = [j \in Jobs |-> IF j \in S THEN "failed" ELSE job[j]],
           \A e \in Exports : stage'[e] \in {stage[e], "none"}
    PROVE  ExportInv'
<1>1. \A e \in Exports :
        /\ e \in S => job'[e] = "failed" /\ artifact'[e] = "failed"
        /\ e \notin S => job'[e] = job[e] /\ artifact'[e] = artifact[e]
  BY DEF FailVideo, TypeOK, Jobs
<1> QED
  BY <1>1 DEF ExportInv, OutcomesAgree, ExportsAreKept, Ending, Alive

LEMMA OwnStepKeepsExports ==
    ASSUME TypeOK, StageFitsJob, ExportInv, NEW j \in Jobs, OwnStep(j)
    PROVE  ExportInv'
<1>0. /\ stage \in [Jobs -> Stages] /\ files \in [Exports -> BOOLEAN]
      /\ artifact \in [Exports -> {"absent", "queued", "rendering", "verifying",
                                   "completed", "failed"}]
      /\ Exports \subseteq Jobs
  BY DEF TypeOK, Jobs
<1>1. /\ deployment' = deployment /\ job' = job
      /\ AtWork(j) /\ \A i \in Jobs : i # j => stage'[i] = stage[i]
      /\ job[j] \in {"running", "failed"}
      /\ deployment # "cloud" => job[j] = "running"
  BY <1>0, OwnStepWorks DEF Working, HandlerStages, AtWork, StageFitsJob
<1> USE DEF ExportInv, OutcomesAgree, ExportsAreKept, Ending, Alive, Advance
<1>2. CASE j \notin Exports
  <2>1. UNCHANGED <<artifact, files>>
    <3>1. CASE Return(j) \/ Raise(j)
      BY <3>1 DEF Return, Raise, exportVars
    <3>2. CASE j = Ingest /\ (SetOriginal \/ PublishProxy \/ FinishIngest \/ CleanUpIngest)
      BY <3>2 DEF SetOriginal, PublishProxy, FinishIngest, CleanUpIngest, exportVars
    <3>3. CASE j \in Detects /\ (StartRun(j) \/ ReadForProposals(j) \/ CommitProposals(j) \/ CleanUpRun(j))
      BY <3>3 DEF StartRun, ReadForProposals, CommitProposals, CleanUpRun, exportVars
    <3> QED
      BY <1>2, <3>1, <3>2, <3>3 DEF OwnStep
  <2> QED
    BY <1>0, <1>1, <1>2, <2>1, ExportUntouched
<1>3. CASE j \in Exports /\ (Return(j) \/ Raise(j))
  BY <1>0, <1>1, <1>3 DEF Return, Raise, exportVars
<1>4. CASE j \in Exports /\ (OpenArtifact(j) \/ Verify(j))
  BY <1>0, <1>1, <1>4 DEF OpenArtifact, Verify, SetArtifact
<1>5. CASE j \in Exports /\ (ReadTracks(j) \/ Render(j) \/ ReadForCompletion(j))
  BY <1>0, <1>1, <1>5 DEF ReadTracks, Render, ReadForCompletion, Read, exportVars
<1>6. CASE j \in Exports /\ Publish(j)
  BY <1>0, <1>1, <1>6 DEF Publish
<1>7. CASE j \in Exports /\ CommitCompletion(j)
  BY <1>0, <1>1, <1>7 DEF CommitCompletion, SetArtifact
<1>8. CASE j \in Exports /\ CleanUpExport(j)
  <2>1. /\ artifact' = artifact /\ stage' = [stage EXCEPT ![j] = "raised"]
        /\ \A i \in Exports : i # j => files'[i] = files[i]
    BY <1>0, <1>8 DEF CleanUpExport
  <2> QED
    BY <1>0, <1>1, <1>8, <2>1
<1> QED
  BY <1>2, <1>3, <1>4, <1>5, <1>6, <1>7, <1>8, FlowAssumption DEF OwnStep

LEMMA ExportStep ==
    ASSUME TypeOK, StageFitsJob, ExportInv, [Next]_vars
    PROVE  ExportInv'
<1>0. stage \in [Jobs -> Stages] /\ job \in [Jobs -> Queue!States] /\ Exports \subseteq Jobs
  BY DEF TypeOK, Jobs
<1>1. ASSUME NEW d \in Detects, RequestDetect(d)
      PROVE  ExportInv'
  BY <1>0, <1>1, ExportUntouched, FlowAssumption DEF RequestDetect, Queue!Request, exportVars
<1>2. ASSUME NEW e \in Exports, RequestExport(e) \/ ExportRefused(e)
      PROVE  ExportInv'
  <2>1. /\ UNCHANGED <<deployment, artifact, files, job>>
        /\ \E to \in {"none", "requesting"} : stage' = [stage EXCEPT ![e] = to]
    BY <1>2 DEF RequestExport, ExportRefused, Read, exportVars
  <2> QED
    BY <1>0, <2>1 DEF ExportInv, OutcomesAgree, ExportsAreKept, Ending, Alive
<1>3. ASSUME NEW e \in Exports, CommitExport(e)
      PROVE  ExportInv'
  <2>1. /\ UNCHANGED <<deployment, files>> /\ artifact' = [artifact EXCEPT ![e] = "queued"]
        /\ job' = [job EXCEPT ![e] = "queued"] /\ stage' = [stage EXCEPT ![e] = "none"]
    BY <1>3 DEF CommitExport, Queue!Request
  <2>2. artifact \in [Exports -> {"absent", "queued", "rendering", "verifying", "completed", "failed"}]
    BY DEF TypeOK
  <2> QED
    BY <1>0, <2>1, <2>2 DEF ExportInv, OutcomesAgree, ExportsAreKept, Ending, Alive
<1>4. CASE BeginEdit \/ EndEdit \/ UNCHANGED vars
  BY <1>4, ExportUntouched DEF BeginEdit, EndEdit, vars, exportVars
<1>5. ASSUME NEW j \in Jobs, Start(j)
      PROVE  ExportInv'
  <2>1. /\ UNCHANGED <<deployment, artifact, files>> /\ job[j] = "queued"
        /\ job' = [job EXCEPT ![j] = "running"] /\ stage' = [stage EXCEPT ![j] = "begun"]
    BY <1>5 DEF Start, Queue!Start, exportVars
  <2> QED
    BY <1>0, <2>1 DEF ExportInv, OutcomesAgree, ExportsAreKept, Ending, Alive
<1>6. ASSUME NEW j \in Jobs, Complete(j)
      PROVE  ExportInv'
  <2>1. /\ UNCHANGED <<deployment, artifact, files>> /\ stage[j] = "returned"
        /\ stage' = [stage EXCEPT ![j] = "none"]
        /\ \/ job' = job
           \/ job[j] = "running" /\ job' = [job EXCEPT ![j] = "completed"]
    BY <1>6 DEF Complete, Queue!Complete, exportVars
  <2> QED
    BY <1>0, <2>1 DEF ExportInv, OutcomesAgree, ExportsAreKept, Ending, Alive
<1>7. ASSUME NEW j \in Jobs, MarkFailed(j)
      PROVE  ExportInv'
  <2>1. /\ FailVideo({j}) /\ UNCHANGED <<deployment, files>>
        /\ job' = [i \in Jobs |-> IF i \in {j} THEN "failed" ELSE job[i]]
        /\ \A e \in Exports : stage'[e] \in {stage[e], "none"}
    BY <1>0, <1>7 DEF MarkFailed, OthersOfFailure
  <2> QED
    BY <2>1, ExportFails
<1>8. ASSUME NEW j \in Jobs, WorkerDies(j)
      PROVE  ExportInv'
  BY <1>0, <1>8, ExportUntouched DEF WorkerDies, exportVars
<1>9. ASSUME NEW S \in SUBSET Jobs, Expire(S)
      PROVE  ExportInv'
  BY <1>9, ExportFails DEF Expire, Queue!GiveUp, OthersOfFailure
<1>10. CASE Restart
  <2> DEFINE S == {j \in Jobs : Unfinished(j)}
  <2>1. /\ job' = [j \in Jobs |-> IF j \in S THEN "failed" ELSE job[j]]
        /\ stage' = [j \in Jobs |-> "none"] /\ UNCHANGED <<deployment, files>>
        /\ FailVideo(S) \/ (S = {} /\ artifact' = artifact)
    BY <1>10 DEF Restart, Queue!GiveUp, OthersOfFailure
  <2>2. CASE FailVideo(S)
    BY <1>0, <2>1, <2>2, ExportFails
  <2>3. CASE S = {} /\ artifact' = artifact
    BY <1>0, <2>1, <2>3, ExportUntouched
  <2> QED
    BY <2>1, <2>2, <2>3
<1> QED
  BY <1>1, <1>2, <1>3, <1>4, <1>5, <1>6, <1>7, <1>8, <1>9, <1>10, NextCases, OwnStepKeepsExports

-----------------------------------------------------------------------------
(* The order of ingest, detection and export, and the one detection.       *)

OrderInv == OrderOfWork /\ OneMayCommit

\* What an own step of a handler does to the proxy, the revision and the status.
LEMMA OwnStepOrders ==
    ASSUME TypeOK, StageFitsJob, OrderInv, NEW j \in Jobs, OwnStep(j)
    PROVE  OrderInv'
<1>0. /\ stage \in [Jobs -> Stages] /\ revision \in Nat /\ Ingest \in Jobs
      /\ Detects \subseteq Jobs /\ Exports \subseteq Jobs
  BY DEF TypeOK, Jobs
<1>1. /\ job' = job /\ AtWork(j) /\ job[j] \in {"running", "failed"}
      /\ \A i \in Jobs : i # j => stage'[i] = stage[i]
  BY <1>0, OwnStepWorks DEF Working, HandlerStages, AtWork, StageFitsJob
<1>2. ASSUME proxy' = proxy, revision' = revision, status' # "READY_FOR_REVIEW" \/ status' = status,
             j = Ingest /\ stage'[j] \in {"begun", "working", "published"} =>
                 stage[j] \in {"begun", "working", "published"},
             j \in Detects /\ UnderWay(j)' => UnderWay(j)
      PROVE  OrderInv'
  BY <1>0, <1>1, <1>2 DEF OrderInv, OrderOfWork, OneMayCommit, MayCommit, UnderWay
<1>3. CASE Return(j) \/ Raise(j)
  BY <1>0, <1>2, <1>3 DEF Return, Raise, Advance, videoVars, UnderWay
<1>4. CASE j = Ingest /\ (SetOriginal \/ PublishProxy \/ CleanUpIngest)
  BY <1>0, <1>2, <1>4, FlowAssumption
     DEF SetOriginal, PublishProxy, CleanUpIngest, Advance
\* No detection has been asked for yet.
<1>5. CASE j = Ingest /\ FinishIngest
  <2>1. /\ stage[Ingest] = "published" /\ stage'[Ingest] = "committed" /\ proxy' = TRUE
        /\ revision' = revision /\ job[Ingest] # "queued"
    BY <1>0, <1>1, <1>5 DEF FinishIngest, Advance
  <2>2. ~proxy
    BY <2>1 DEF OrderInv, OrderOfWork
  <2>3. \A d \in Detects : job[d] = "absent" /\ d # Ingest
    BY <2>2, FlowAssumption DEF OrderInv, OrderOfWork
  <2>4. \A d \in Detects : ~MayCommit(d)'
    BY <1>0, <1>1, <1>5, <2>3 DEF MayCommit, UnderWay, StageFitsJob, AtWork
  <2> QED
    BY <1>1, <2>1, <2>4 DEF OrderInv, OrderOfWork, OneMayCommit
<1>6. CASE j \in Detects /\ (StartRun(j) \/ ReadForProposals(j) \/ CleanUpRun(j))
  <2>1. /\ proxy' = proxy /\ revision' = revision /\ status' = status
        /\ stage[j] \in {"begun", "working"} \/ stage'[j] = "raised"
    BY <1>0, <1>6 DEF StartRun, ReadForProposals, CleanUpRun, Advance, videoVars
  <2> QED
    BY <1>2, <1>6, <2>1, FlowAssumption DEF UnderWay
\* The one that commits was the only one that could.
<1>7. CASE j \in Detects /\ CommitProposals(j)
  <2>1. /\ UnderWay(j) /\ ~UnderWay(j)' /\ proxy' = proxy /\ revision' = revision
    BY <1>0, <1>7 DEF CommitProposals, Advance, UnderWay
  <2>2. \A d \in Detects : ~MayCommit(d)'
    <3>1. ~MayCommit(j)'
      BY <1>1, <2>1 DEF MayCommit
    <3>2. \A d \in Detects : d # j => ~MayCommit(d)
      BY <1>7, <2>1 DEF OrderInv, OneMayCommit, MayCommit
    <3> QED
      BY <1>0, <1>1, <3>1, <3>2 DEF MayCommit, UnderWay
  <2> QED
    BY <1>0, <1>1, <1>7, <2>1, <2>2, FlowAssumption DEF OrderInv, OrderOfWork, OneMayCommit
<1>8. CASE j \in Exports /\ (OpenArtifact(j) \/ ReadTracks(j) \/ Render(j) \/ Verify(j) \/ Publish(j)
                           \/ ReadForCompletion(j) \/ CleanUpExport(j))
  <2>1. proxy' = proxy /\ revision' = revision /\ status' = status
    BY <1>8 DEF OpenArtifact, ReadTracks, Render, Verify, Publish, ReadForCompletion, Read,
       CleanUpExport, videoVars
  <2> QED
    BY <1>2, <1>8, <2>1, FlowAssumption
<1>9. CASE j \in Exports /\ CommitCompletion(j)
  <2>1. proxy' = proxy /\ revision' = revision + 1
    BY <1>9 DEF CommitCompletion
  <2>2. j # Ingest /\ j \notin Detects /\ revision' # 0
    BY <1>0, <1>9, <2>1, FlowAssumption
  <2> QED
    BY <1>0, <1>1, <2>1, <2>2 DEF OrderInv, OrderOfWork, OneMayCommit, MayCommit, UnderWay
<1> QED
  BY <1>3, <1>4, <1>5, <1>6, <1>7, <1>8, <1>9 DEF OwnStep

\* A failure opens the video for detection only after an export was requested.
LEMMA FailureOrders ==
    ASSUME TypeOK, OrderInv, NEW S \in SUBSET Jobs, FailVideo(S), UNCHANGED <<proxy, revision>>,
           job' = [j \in Jobs |-> IF j \in S THEN "failed" ELSE job[j]],
           \A j \in S : job[j] # "absent",
           \A j \in Jobs : stage'[j] \in {stage[j], "none"}
    PROVE  OrderInv'
<1>0. Ingest \in Jobs /\ Detects \subseteq Jobs /\ Exports \subseteq Jobs
  BY DEF Jobs
<1>1. OrderOfWork'
  BY <1>0 DEF OrderInv, OrderOfWork
<1>2. \A d \in Detects : MayCommit(d)' => MayCommit(d)
  BY <1>0 DEF MayCommit, UnderWay
<1>3. revision = 0 => status' = "FAILED"
  BY <1>0 DEF OrderInv, OrderOfWork, FailVideo, FailedStatus
<1> QED
  BY <1>1, <1>2, <1>3 DEF OrderInv, OneMayCommit

LEMMA OrderStep ==
    ASSUME TypeOK, StageFitsJob, OrderInv, [Next]_vars
    PROVE  OrderInv'
<1>0. /\ stage \in [Jobs -> Stages] /\ job \in [Jobs -> Queue!States] /\ revision \in Nat
      /\ Ingest \in Jobs /\ Detects \subseteq Jobs /\ Exports \subseteq Jobs
  BY DEF TypeOK, Jobs
<1> USE DEF OrderInv, OrderOfWork, OneMayCommit, MayCommit, UnderWay
<1>1. ASSUME NEW d \in Detects, RequestDetect(d)
      PROVE  OrderInv'
  <2>1. /\ proxy /\ status = "READY_FOR_REVIEW" /\ revision = 0
        /\ job' = [job EXCEPT ![d] = "queued"] /\ job[d] = "absent"
        /\ status' = "PROCESSING" /\ UNCHANGED <<stage, proxy, revision>>
    BY <1>1 DEF RequestDetect, MayDetect, Queue!Request
  <2>2. \A c \in Detects : c # d => ~MayCommit(c)'
    BY <1>0, <2>1
  <2>3. OrderOfWork'
    BY <1>0, <2>1, FlowAssumption
  <2> QED
    BY <2>1, <2>2, <2>3
<1>2. ASSUME NEW e \in Exports, RequestExport(e) \/ ExportRefused(e)
      PROVE  OrderInv'
  <2>1. /\ UNCHANGED <<job, proxy, revision, status>>
        /\ \E to \in {"none", "requesting"} : stage' = [stage EXCEPT ![e] = to]
    BY <1>2 DEF RequestExport, ExportRefused, Read, videoVars
  <2> QED
    BY <1>0, <2>1, FlowAssumption
<1>3. ASSUME NEW e \in Exports, CommitExport(e)
      PROVE  OrderInv'
  <2>1. /\ job' = [job EXCEPT ![e] = "queued"] /\ stage' = [stage EXCEPT ![e] = "none"]
        /\ proxy' = proxy /\ revision' # 0
    BY <1>0, <1>3 DEF CommitExport, Queue!Request
  <2>2. e # Ingest /\ e \notin Detects
    BY <1>3, FlowAssumption
  <2> QED
    BY <1>0, <2>1, <2>2
<1>4. CASE BeginEdit \/ EndEdit \/ UNCHANGED vars
  <2>1. UNCHANGED <<job, stage, proxy, status>> /\ (revision' = 0 => revision = 0)
    <3>1. CASE BeginEdit \/ UNCHANGED vars
      BY <3>1 DEF BeginEdit, vars, videoVars
    <3>2. CASE EndEdit
      BY <1>0, <3>2 DEF EndEdit
    <3> QED
      BY <1>4, <3>1, <3>2
  <2> QED
    BY <1>0, <2>1
<1>5. ASSUME NEW j \in Jobs, Start(j)
      PROVE  OrderInv'
  <2>1. /\ job[j] = "queued" /\ UNCHANGED <<proxy, status, revision>>
        /\ job' = [job EXCEPT ![j] = "running"] /\ stage' = [stage EXCEPT ![j] = "begun"]
    BY <1>5 DEF Start, Queue!Start, videoVars
  <2>2. OrderOfWork'
    BY <1>0, <2>1
  <2>3. \A d \in Detects : MayCommit(d)' => MayCommit(d)
    BY <1>0, <2>1
  <2> QED
    BY <2>1, <2>2, <2>3
<1>6. ASSUME NEW j \in Jobs, Complete(j)
      PROVE  OrderInv'
  <2>1. /\ UNCHANGED <<proxy, status, revision>> /\ stage' = [stage EXCEPT ![j] = "none"]
        /\ \/ job' = job
           \/ job[j] = "running" /\ job' = [job EXCEPT ![j] = "completed"]
    BY <1>6 DEF Complete, Queue!Complete, videoVars
  <2> QED
    BY <1>0, <2>1
<1>7. ASSUME NEW j \in Jobs, MarkFailed(j)
      PROVE  OrderInv'
  <2>1. /\ FailVideo({j}) /\ UNCHANGED <<proxy, revision>> /\ job[j] # "absent"
        /\ job' = [i \in Jobs |-> IF i \in {j} THEN "failed" ELSE job[i]]
        /\ \A i \in Jobs : stage'[i] \in {stage[i], "none"}
    BY <1>0, <1>7 DEF MarkFailed, OthersOfFailure, StageFitsJob, AtWork
  <2> QED
    BY <2>1, FailureOrders
<1>8. ASSUME NEW j \in Jobs, WorkerDies(j)
      PROVE  OrderInv'
  <2>1. UNCHANGED <<job, proxy, revision, status>> /\ stage' = [stage EXCEPT ![j] = "none"]
    BY <1>8 DEF WorkerDies, videoVars
  <2> QED
    BY <1>0, <2>1
<1>9. ASSUME NEW S \in SUBSET Jobs, Expire(S)
      PROVE  OrderInv'
  <2>1. /\ FailVideo(S) /\ UNCHANGED <<proxy, revision, stage>> /\ \A j \in S : job[j] # "absent"
        /\ job' = [j \in Jobs |-> IF j \in S THEN "failed" ELSE job[j]]
    BY <1>9 DEF Expire, OthersOfFailure, Queue!GiveUp, Alive
  <2> QED
    BY <2>1, FailureOrders
<1>10. CASE Restart
  <2> DEFINE S == {j \in Jobs : Unfinished(j)}
  <2>1. /\ job' = [j \in Jobs |-> IF j \in S THEN "failed" ELSE job[j]]
        /\ stage' = [j \in Jobs |-> "none"] /\ UNCHANGED <<proxy, revision>>
        /\ FailVideo(S) \/ (S = {} /\ status' = status)
    BY <1>10 DEF Restart, Queue!GiveUp, OthersOfFailure
  <2>2. \A j \in S : job[j] # "absent"
    BY DEF Unfinished, Queue!Unfinished
  <2>3. CASE FailVideo(S)
    BY <2>1, <2>2, <2>3, FailureOrders
  <2>4. CASE S = {} /\ status' = status
    BY <1>0, <2>1, <2>4
  <2> QED
    BY <2>1, <2>3, <2>4
<1> QED
  BY <1>1, <1>2, <1>3, <1>4, <1>5, <1>6, <1>7, <1>8, <1>9, <1>10, NextCases, OwnStepOrders

-----------------------------------------------------------------------------
(***************************************************************************)
(* Every reachable state satisfies the inductive invariant.                *)
(***************************************************************************)
THEOREM FlowInvariant == Spec => []FlowInv
<1>1. FlowInv /\ [Next]_vars => FlowInv'
  BY TypeStep, StageFitsJobStep, StatusHasOpenWorkStep, SessionsNoticeExportsStep, ExportStep,
     OrderStep DEF FlowInv, ExportInv, OrderInv
<1> QED
  BY FlowStarts, <1>1, PTL DEF Spec

(***************************************************************************)
(* The rows of a video keep their types: TypeOK.                           *)
(***************************************************************************)
THEOREM FlowTypeCorrect == Spec => []TypeOK
BY FlowInvariant, PTL DEF FlowInv

(***************************************************************************)
(* Whatever fails, expires or is restarted, a status that names an         *)
(* activity has a job behind it: StatusHasWork.                            *)
(***************************************************************************)
THEOREM NoStatusIsStuck == Spec => []StatusHasWork
<1>1. FlowInv => StatusHasWork
  BY DEF FlowInv, StatusHasOpenWork, StatusHasWork
<1> QED
  BY <1>1, FlowInvariant, PTL

(***************************************************************************)
(* The row of an export job and its artifact agree: OutcomesAgree.         *)
(***************************************************************************)
THEOREM ExportsAgree == Spec => []OutcomesAgree
BY FlowInvariant, PTL DEF FlowInv

(***************************************************************************)
(* Of any number of detections one at most is under way: OneDetector.      *)
(***************************************************************************)
THEOREM DetectionsExclude == Spec => []OneDetector
<1>1. FlowInv => OneDetector
  BY DEF FlowInv, OneMayCommit, MayCommit, OneDetector
<1> QED
  BY <1>1, FlowInvariant, PTL

=============================================================================
