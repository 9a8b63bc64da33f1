---------------------------- MODULE IntakeProofs ----------------------------
(***************************************************************************)
(* Theorems about modules ResumableUpload and Intake, for files, chunks    *)
(* and retries of any number, any number of callers and of other uploads.  *)
(***************************************************************************)
EXTENDS Intake, TLAPS

-----------------------------------------------------------------------------
(* The browser and the store.                                              *)

\* A store that holds nothing has received the first chunk at most: what it
\* is sent from a later offset begins after its end.
OnlyFirstChunk == committed = 0 => reach <= ChunkSize

UploadInv == UploadTypeOK /\ NoByteIsSkipped /\ OnlyFirstChunk

LEMMA ChunkEndType ==
    ASSUME UploadTypeOK
    PROVE  ChunkEnd \in 0..Size /\ offset <= ChunkEnd
BY UploadAssumption DEF UploadTypeOK, ChunkEnd

LEMMA PutOffsetType ==
    ASSUME UploadTypeOK
    PROVE  /\ PutOffset \in 0..Size
           /\ committed # 0 => PutOffset = committed
BY ChunkEndType, UploadAssumption DEF UploadTypeOK, PutOffset

(***************************************************************************)
(* Every step of the browser or of the store keeps the offset within what  *)
(* the store holds, but for the answer without a range of a store that has *)
(* received the first chunk at most.                                       *)
(***************************************************************************)
LEMMA UploadStep ==
    ASSUME UploadInv, UploadNext \/ UNCHANGED uploadVars
    PROVE  UploadInv'
<1> USE UploadAssumption DEF UploadAssumption, UploadInv, UploadTypeOK, NoByteIsSkipped, OnlyFirstChunk, Ended, clientVars, storeVars
<1>1. CASE Open
  BY <1>1 DEF Open
<1>2. CASE Put
  BY <1>2, ChunkEndType DEF Put, ChunkEnd
<1>3. CASE Accepted
  BY <1>3 DEF Accepted, Resume, Whole
<1>4. CASE Continue
  <2>1. PutOffset \in 0..Size /\ (committed # 0 => PutOffset = committed)
    BY PutOffsetType
  <2>2. CASE PutOffset <= offset
    <3>1. phase = "waiting" /\ ~Whole /\ Finish("failed")
      BY <1>4, <2>2 DEF Continue
    <3> QED
      BY <3>1 DEF Finish
  <2>3. CASE ~(PutOffset <= offset)
    <3>1. /\ Resume(PutOffset, 0)
          /\ misread' = (misread \/ committed = 0)
      BY <1>4, <2>3 DEF Continue
    <3>2. UNCHANGED storeVars /\ offset' = PutOffset /\ retries' = 0 /\ phase' \in {"sent", "ready"}
      BY <3>1 DEF Resume
    <3>3. misread' \in BOOLEAN
      BY <3>1
    <3>4. CASE committed = 0
      <4>1. misread'
        BY <3>1, <3>4
      <4> QED
        BY <2>1, <3>2, <3>3, <4>1
    <3>5. CASE committed # 0
      BY <2>1, <3>2, <3>3, <3>5
    <3> QED
      BY <3>4, <3>5
  <2> QED
    BY <2>2, <2>3
<1>5. CASE Interrupted
  BY <1>5 DEF Interrupted, Finish
<1>6. CASE Recover
  BY <1>6 DEF Recover, Resume, Finish
<1>7. CASE RecoveryInterrupted
  BY <1>7 DEF RecoveryInterrupted
<1>8. CASE RecoveryExhausted
  BY <1>8 DEF RecoveryExhausted, Finish
<1>9. CASE Rejected
  BY <1>9 DEF Rejected, Finish
<1>10. CASE Commit
  BY <1>10 DEF Commit
<1>11. CASE Close
  BY <1>11 DEF Close, Finish
<1>12. CASE UNCHANGED uploadVars
  BY <1>12 DEF uploadVars
<1> QED
  BY <1>1, <1>2, <1>3, <1>4, <1>5, <1>6, <1>7, <1>8, <1>9, <1>10, <1>11, <1>12
  DEF UploadNext, Step

\* Every step of the intake is one of these for the upload.
LEMMA IntakeStepsUpload ==
    ASSUME [Next]_vars
    PROVE  UploadNext \/ UNCHANGED uploadVars
<1> USE DEF UploadNext
<1>1. CASE Initiate
  BY <1>1 DEF Initiate
<1>2. CASE StoreCommits
  BY <1>2 DEF StoreCommits
<1>3. CASE BrowserSteps
  BY <1>3 DEF BrowserSteps
<1>4. ASSUME NEW c \in Callers, BeginComplete(c) \/ Verify(c) \/ LoadAgain(c) \/ EnqueueDirect(c)
      PROVE  UNCHANGED uploadVars
  BY <1>4 DEF BeginComplete, Verify, LoadAgain, EnqueueDirect
<1>5. ASSUME NEW v \in Videos,
             \/ Receive(v) \/ LookBeforeAccepting(v) \/ Accept(v)
             \/ Start(v) \/ LookBeforeHashing(v) \/ RecordChecksum(v) \/ PublishOriginal(v)
             \/ CommitReady(v) \/ Break(v) \/ Leave(v) \/ Complete(v) \/ Fail(v) \/ Die(v)
      PROVE  UNCHANGED uploadVars
  BY <1>5 DEF Receive, LookBeforeAccepting, Accept, InsertRow, Start, Goto,
              LookBeforeHashing, RecordChecksum, PublishOriginal, CommitReady, Break, Leave,
              Complete, Fail, Die
<1>6. CASE UNCHANGED vars
  BY <1>6 DEF vars
<1> QED
  BY <1>1, <1>2, <1>3, <1>4, <1>5, <1>6 DEF Next

LEMMA UploadStarts == Init => UploadInv
<1>1. UploadInit => UploadTypeOK
  <2>1. UploadInit => misread \in BOOLEAN
    BY DEF UploadInit
  <2>2. {0} \subseteq 0..Size /\ {0} \subseteq 0..MaxRetries
    BY UploadAssumption DEF UploadAssumption
  <2> QED
    BY <2>1, <2>2 DEF UploadInit, UploadTypeOK
<1>2. UploadInit => ~(offset > committed) /\ reach <= ChunkSize
  BY UploadAssumption DEF UploadAssumption, UploadInit
<1> QED
  BY <1>1, <1>2 DEF Init, UploadInv, NoByteIsSkipped, OnlyFirstChunk

(***************************************************************************)
(* The inductive invariant of the browser's loop and of the store: where   *)
(* the offset stands, and what an empty store has received                 *)
(* (resumableUpload.ts:163-219).                                           *)
(***************************************************************************)
THEOREM UploadInvariant == Spec => []UploadInv
<1>1. UploadInv /\ [Next]_vars => UploadInv'
  BY UploadStep, IntakeStepsUpload
<1> QED
  BY UploadStarts, <1>1, PTL DEF Spec

(***************************************************************************)
(* In every execution, also one in which the browser misreads an answer,   *)
(* its offset is ahead of the store only if an answer without a range was  *)
(* misread and the store has received no more than the first chunk: once a *)
(* second chunk is in, no byte is ever skipped, for files and chunks of    *)
(* any size and whatever answers are lost.  It does not say that a browser *)
(* that ran ahead recovers (it may end believing that all was sent); that  *)
(* nothing comes of it is OnlyWholeIsAccepted.                             *)
(***************************************************************************)
THEOREM OffsetIsHonest == Spec => []NoByteIsSkipped
BY UploadInvariant, PTL DEF UploadInv

-----------------------------------------------------------------------------
(***************************************************************************)
(* The inductive invariant of the intake.                                  *)
(***************************************************************************)
StageTypes ==
    /\ stage \in [Videos -> Handlers \cup {"none", "received", "looked", "duplicate", "escaped",
                                          "returned", "raising", "raised", "dead"}]
    /\ job \in [Videos -> Queue!States]

\* A request is before its job, an execution after the job was started.
StageFitsJob ==
    \A v \in Videos :
        /\ stage[v] \in {"received", "looked", "duplicate", "escaped"} =>
               v # Direct /\ job[v] = "absent"
        /\ stage[v] \in Handlers \cup {"returned", "raising", "raised", "dead"} =>
               job[v] \notin {"absent", "queued"}
        /\ job[v] = "running" => stage[v] # "none"

StageInv == StageTypes /\ StageFitsJob

LEMMA StageStarts == Init => StageInv
BY DEF Init, StageInv, StageTypes, StageFitsJob, Queue!States, Handlers

LEMMA StageStep ==
    ASSUME StageInv, [Next]_vars
    PROVE  StageInv'
<1> USE DEF StageInv, StageTypes, StageFitsJob, Handlers, Queue!States, Move, Goto
<1>1. CASE UNCHANGED <<job, stage>>
  BY <1>1
<1>2. ASSUME NEW c \in Callers, EnqueueDirect(c)
      PROVE  StageInv'
  <2>1. CASE UNCHANGED job
    BY <1>2, <2>1, <1>1 DEF EnqueueDirect
  <2>2. CASE job[Direct] = "absent" /\ job' = [job EXCEPT ![Direct] = "queued"]
    BY <1>2, <2>2 DEF EnqueueDirect, Videos
  <2> QED
    BY <1>2, <2>1, <2>2 DEF EnqueueDirect, Queue!Request
<1>3. ASSUME NEW v \in Videos, Receive(v)
      PROVE  StageInv'
  BY <1>3, IntakeAssumption DEF Receive, IntakeAssumption
<1>4. ASSUME NEW v \in Videos, LookBeforeAccepting(v)
      PROVE  StageInv'
  BY <1>4 DEF LookBeforeAccepting
<1>5. ASSUME NEW v \in Videos, Accept(v)
      PROVE  StageInv'
  BY <1>5 DEF Accept, InsertRow, Queue!Request
<1>6. ASSUME NEW v \in Videos, Start(v)
      PROVE  StageInv'
  BY <1>6 DEF Start, Queue!Start
<1>7. ASSUME NEW v \in Videos, LookBeforeHashing(v)
      PROVE  StageInv'
  BY <1>7 DEF LookBeforeHashing
<1>8. ASSUME NEW v \in Videos, RecordChecksum(v)
      PROVE  StageInv'
  BY <1>8 DEF RecordChecksum
<1>9. ASSUME NEW v \in Videos, PublishOriginal(v)
      PROVE  StageInv'
  BY <1>9 DEF PublishOriginal
<1>10. ASSUME NEW v \in Videos, CommitReady(v)
       PROVE  StageInv'
  BY <1>10 DEF CommitReady
<1>11. ASSUME NEW v \in Videos, Break(v)
       PROVE  StageInv'
  BY <1>11 DEF Break
<1>12. ASSUME NEW v \in Videos, Leave(v)
       PROVE  StageInv'
  BY <1>12 DEF Leave
<1>13. ASSUME NEW v \in Videos, Complete(v)
       PROVE  StageInv'
  BY <1>13 DEF Complete, Queue!Complete
<1>14. ASSUME NEW v \in Videos, Fail(v)
       PROVE  StageInv'
  BY <1>14 DEF Fail, Queue!Unfinished
<1>15. ASSUME NEW v \in Videos, Die(v)
       PROVE  StageInv'
  BY <1>15 DEF Die
<1>16. CASE \/ Initiate \/ StoreCommits \/ BrowserSteps \/ UNCHANGED vars
            \/ \E c \in Callers : BeginComplete(c) \/ Verify(c) \/ LoadAgain(c)
  BY <1>1, <1>16 DEF Initiate, StoreCommits, BrowserSteps, BeginComplete, Verify, LoadAgain,
                     intakeVars, vars
<1> QED
  BY <1>2, <1>3, <1>4, <1>5, <1>6, <1>7, <1>8, <1>9, <1>10, <1>11, <1>12, <1>13, <1>14, <1>15,
     <1>16 DEF Next

-----------------------------------------------------------------------------
(* The object, the callers and the job of the direct upload.               *)

RowTypes ==
    /\ status \in [Videos -> {"absent", "UPLOADING", "VALIDATING", "PROXYING",
                              "READY_FOR_REVIEW", "FAILED"}]
    /\ temporary \in SUBSET Videos
    /\ caller \in [Callers -> {"idle", "loaded", "verified", "missing"} \cup Answers]
    /\ whole \in [Callers -> BOOLEAN]

\* The object is whole whenever it, its verification or its job is there; and
\* a whole object is in the storage or has been given to its job.
ObjectIsWhole ==
    /\ Direct \in temporary => Whole
    /\ AcceptedIsWhole
    /\ \A c \in Callers : caller[c] = "verified" \/ whole[c] => Whole
    /\ Whole => Direct \in temporary \/ AlreadyAccepted

\* A caller finds the row; a row that is not waiting for its upload has a job;
\* who finds a whole object gone will find the job.
CallersFindTheJob ==
    /\ \A c \in Callers : caller[c] # "idle" => status[Direct] # "absent"
    /\ status[Direct] \notin {"absent", "UPLOADING"} => AlreadyAccepted
    /\ \A c \in Callers : caller[c] = "missing" /\ whole[c] => AlreadyAccepted
    /\ CompletionIsIdempotent

DirectInv == RowTypes /\ ObjectIsWhole /\ CallersFindTheJob

LEMMA DirectStarts == Init => DirectInv
<1> SUFFICES ASSUME Init PROVE DirectInv
  OBVIOUS
<1>1. RowTypes
  BY DEF Init, RowTypes
<1>2. ~Whole
  BY UploadAssumption DEF UploadAssumption, Init, UploadInit, Whole
<1>3. Direct \in Videos
  BY DEF Videos
<1> QED
  BY <1>1, <1>2, <1>3 DEF Init, DirectInv, ObjectIsWhole, CallersFindTheJob, AcceptedIsWhole,
     CompletionIsIdempotent, AlreadyAccepted

\* What is whole stays whole.
LEMMA WholeIsFinal ==
    ASSUME UploadTypeOK, UploadNext \/ UNCHANGED uploadVars, Whole
    PROVE  Whole'
<1>1. ~Commit
  BY DEF UploadTypeOK, Commit, Whole
<1>2. CASE UNCHANGED committed
  BY <1>2 DEF Whole
<1>3. UNCHANGED committed
  BY <1>1 DEF UploadNext, Step, uploadVars, storeVars, clientVars, Open, Put, Accepted, Continue,
              Interrupted, Recover, RecoveryInterrupted, RecoveryExhausted, Rejected, Close,
              Finish, Resume
<1> QED
  BY <1>2, <1>3

\* The steps that look after the row and the job of another video, or that
\* leave the direct upload's object, job and callers as they are.
Untouched ==
    /\ UNCHANGED <<committed, caller, whole>>
    /\ job'[Direct] = job[Direct] \/ (job[Direct] # "absent" /\ job'[Direct] # "absent")
    /\ status'[Direct] = status[Direct] \/ (job[Direct] # "absent" /\ status'[Direct] # "absent")
    /\ Direct \in temporary' <=> Direct \in temporary

LEMMA UntouchedStep ==
    ASSUME DirectInv, RowTypes', Untouched
    PROVE  DirectInv'
BY DEF DirectInv, ObjectIsWhole, CallersFindTheJob, AcceptedIsWhole, CompletionIsIdempotent,
       AlreadyAccepted, Whole, Untouched

LEMMA RowTypesStep ==
    ASSUME RowTypes, [Next]_vars
    PROVE  RowTypes'
<1> USE DEF RowTypes, Answers, Reply, SetStatus
<1>1. CASE UNCHANGED <<status, temporary, caller, whole>>
  BY <1>1
<1>2. CASE Initiate
  BY <1>2 DEF Initiate
<1>3. CASE StoreCommits
  BY <1>3 DEF StoreCommits, Videos, rowVars
<1>4. ASSUME NEW c \in Callers, BeginComplete(c)
      PROVE  RowTypes'
  <2>1. whole' \in [Callers -> BOOLEAN]
    <3>1. Whole \in BOOLEAN
      BY DEF Whole
    <3> QED
      BY <1>4, <3>1 DEF BeginComplete
  <2>2. UNCHANGED <<status, temporary>>
    BY <1>4 DEF BeginComplete, rowVars
  <2>3. caller' \in [Callers -> {"idle", "loaded", "verified", "missing"} \cup Answers]
    BY <1>4 DEF BeginComplete
  <2> QED
    BY <2>1, <2>2, <2>3
<1>5. ASSUME NEW c \in Callers, Verify(c) \/ LoadAgain(c) \/ EnqueueDirect(c)
      PROVE  RowTypes'
  BY <1>5 DEF Verify, LoadAgain, EnqueueDirect, rowVars
<1>6. ASSUME NEW v \in Videos, Receive(v) \/ LookBeforeAccepting(v) \/ Accept(v)
      PROVE  RowTypes'
  BY <1>6 DEF Receive, LookBeforeAccepting, Accept, InsertRow, Goto, rowVars
<1>7. ASSUME NEW v \in Videos,
             RecordChecksum(v) \/ PublishOriginal(v) \/ CommitReady(v) \/ Leave(v) \/ Fail(v)
      PROVE  RowTypes'
  BY <1>7 DEF RecordChecksum, PublishOriginal, CommitReady, Leave, Fail, Goto, rowVars
<1>8. ASSUME NEW v \in Videos,
             Start(v) \/ LookBeforeHashing(v) \/ Break(v) \/ Complete(v) \/ Die(v)
      PROVE  RowTypes'
  BY <1>8, <1>1 DEF Start, LookBeforeHashing, Break, Complete, Die, Goto, rowVars
<1>9. CASE BrowserSteps \/ UNCHANGED vars
  BY <1>9, <1>1 DEF BrowserSteps, intakeVars, rowVars, vars
<1> QED
  BY <1>2, <1>3, <1>4, <1>5, <1>6, <1>7, <1>8, <1>9 DEF Next

LEMMA OtherSteps ==
    ASSUME StageInv, StageInv', RowTypes, [Next]_vars,
           ~Initiate, ~StoreCommits,
           \A c \in Callers : ~BeginComplete(c) /\ ~Verify(c) /\ ~LoadAgain(c) /\ ~EnqueueDirect(c)
    PROVE  Untouched \/ \E v \in Videos : Leave(v)
<1> USE DEF Untouched, StageInv, StageTypes, StageFitsJob, RowTypes, Handlers, SetStatus,
            uploadVars, storeVars, rowVars, Move, Goto
<1>0. Direct \in Videos
  BY DEF Videos
<1>1. ASSUME NEW v \in Videos, Receive(v) \/ LookBeforeAccepting(v) \/ Accept(v)
      PROVE  Untouched
  <2>1. v # Direct
    BY <1>1, IntakeAssumption DEF IntakeAssumption, Receive, LookBeforeAccepting, Accept, InsertRow
  <2> QED
    BY <1>0, <1>1, <2>1 DEF Receive, LookBeforeAccepting, Accept, InsertRow, Queue!Request
<1>2. ASSUME NEW v \in Videos, Start(v)
      PROVE  Untouched
  BY <1>0, <1>2 DEF Start, Queue!Start
<1>3. ASSUME NEW v \in Videos,
             LookBeforeHashing(v) \/ RecordChecksum(v) \/ PublishOriginal(v) \/ CommitReady(v)
      PROVE  Untouched
  BY <1>0, <1>3 DEF LookBeforeHashing, RecordChecksum, PublishOriginal, CommitReady
<1>4. ASSUME NEW v \in Videos, Break(v) \/ Die(v)
      PROVE  Untouched
  BY <1>4 DEF Break, Die
<1>5. ASSUME NEW v \in Videos, Complete(v)
      PROVE  Untouched
  BY <1>0, <1>5 DEF Complete, Queue!Complete
<1>6. ASSUME NEW v \in Videos, Fail(v)
      PROVE  Untouched
  BY <1>0, <1>6 DEF Fail, Queue!Unfinished
<1>7. CASE BrowserSteps
  BY <1>7 DEF BrowserSteps, intakeVars, Step, Close, Put, Accepted, Continue, Interrupted, Recover,
              RecoveryInterrupted, RecoveryExhausted, Rejected, Finish, Resume
<1>8. CASE UNCHANGED vars
  BY <1>8 DEF vars, intakeVars
<1> QED
  BY <1>1, <1>2, <1>3, <1>4, <1>5, <1>6, <1>7, <1>8 DEF Next

LEMMA DirectStep ==
    ASSUME UploadInv, StageInv, StageInv', DirectInv, [Next]_vars
    PROVE  DirectInv'
<1> USE DEF DirectInv, ObjectIsWhole, CallersFindTheJob, AcceptedIsWhole, CompletionIsIdempotent,
            AlreadyAccepted
<1>0. RowTypes' /\ (Whole => Whole') /\ Direct \in Videos
  BY RowTypesStep, WholeIsFinal, IntakeStepsUpload DEF UploadInv, Videos
<1>1. CASE Initiate
  BY <1>0, <1>1 DEF Initiate, Open, Whole, storeVars, SetStatus, RowTypes
<1>2. CASE StoreCommits
  BY <1>0, <1>2 DEF StoreCommits, rowVars
<1>3. ASSUME NEW c \in Callers, BeginComplete(c)
      PROVE  DirectInv'
  <2>1. UNCHANGED <<committed, status, temporary, job>>
    BY <1>3 DEF BeginComplete, uploadVars, storeVars, rowVars
  <2>2. /\ status[Direct] # "absent" /\ caller[c] = "idle"
        /\ \A b \in Callers \ {c} : caller'[b] = caller[b] /\ whole'[b] = whole[b]
        /\ caller'[c] \in {"accepted", "loaded"}
        /\ whole'[c] = Whole
    BY <1>3 DEF BeginComplete, Reply, RowTypes
  <2> QED
    BY <1>0, <2>1, <2>2 DEF Whole
<1>4. ASSUME NEW c \in Callers, Verify(c)
      PROVE  DirectInv'
  <2>1. UNCHANGED <<committed, status, temporary, job, whole>>
    BY <1>4 DEF Verify, uploadVars, storeVars, rowVars
  <2>2. /\ caller[c] = "loaded"
        /\ \A b \in Callers \ {c} : caller'[b] = caller[b]
        /\ caller'[c] = IF Direct \in temporary THEN "verified" ELSE "missing"
    BY <1>4 DEF Verify, Reply, RowTypes
  <2> QED
    BY <1>0, <2>1, <2>2 DEF Whole
<1>5. ASSUME NEW c \in Callers, LoadAgain(c)
      PROVE  DirectInv'
  <2>1. UNCHANGED <<committed, status, temporary, job, whole>>
    BY <1>5 DEF LoadAgain, uploadVars, storeVars, rowVars
  <2>2. /\ caller[c] = "missing"
        /\ \A b \in Callers \ {c} : caller'[b] = caller[b]
        /\ caller'[c] = IF AlreadyAccepted THEN "accepted" ELSE "incomplete"
    BY <1>5 DEF LoadAgain, Reply, RowTypes
  <2> QED
    BY <1>0, <2>1, <2>2 DEF Whole
<1>6. ASSUME NEW c \in Callers, EnqueueDirect(c)
      PROVE  DirectInv'
  <2>1. UNCHANGED <<committed, temporary, whole>> /\ caller[c] = "verified"
    BY <1>6 DEF EnqueueDirect, uploadVars, storeVars, Reply
  <2>2. AlreadyAccepted \/ status[Direct] = "UPLOADING"
    BY <2>1
  <2>3. /\ caller'[c] = "accepted"
        /\ \A b \in Callers \ {c} : caller'[b] = caller[b]
    BY <1>6, <2>2 DEF EnqueueDirect, Reply, RowTypes
  <2>4. AlreadyAccepted'
    BY <1>0, <1>6, <2>2 DEF EnqueueDirect, Queue!Request, StageInv, StageTypes
  <2>5. status'[Direct] # "absent"
    BY <1>0, <1>6, <2>1, <2>2 DEF EnqueueDirect, SetStatus, RowTypes
  <2> QED
    BY <1>0, <2>1, <2>3, <2>4, <2>5 DEF Whole
<1>7. ASSUME NEW v \in Videos, Leave(v)
      PROVE  DirectInv'
  <2>1. UNCHANGED <<committed, status, caller, whole, job>> /\ temporary' = temporary \ {v}
    BY <1>7 DEF Leave, uploadVars, storeVars, rowVars
  <2>2. job[v] # "absent"
    BY <1>7 DEF Leave, Move, StageInv, StageFitsJob, Handlers
  <2> QED
    BY <1>0, <2>1, <2>2 DEF Whole
<1>8. CASE Untouched
  BY <1>0, <1>8, UntouchedStep
<1> QED
  BY <1>1, <1>2, <1>3, <1>4, <1>5, <1>6, <1>7, <1>8, OtherSteps

(***************************************************************************)
(* However often and by however many a completion is asked for, a caller   *)
(* past a stage finds the rows and the object that stage left              *)
(* (uploads.py:152-186, ingest.py:101-183).                                *)
(***************************************************************************)
THEOREM IntakeInvariant == Spec => [](UploadInv /\ StageInv /\ DirectInv)
<1>1. Init => UploadInv /\ StageInv /\ DirectInv
  BY UploadStarts, StageStarts, DirectStarts
<1>2. UploadInv /\ StageInv /\ DirectInv /\ [Next]_vars => (UploadInv /\ StageInv /\ DirectInv)'
  BY UploadStep, IntakeStepsUpload, StageStep, DirectStep
<1> QED
  BY <1>1, <1>2, PTL DEF Spec

(***************************************************************************)
(* A video is ingested only when every byte of it is in the store, for     *)
(* files of any size and any number of completions: AcceptedIsWhole.       *)
(***************************************************************************)
THEOREM OnlyWholeIsAccepted == Spec => []AcceptedIsWhole
BY IntakeInvariant, PTL DEF DirectInv, ObjectIsWhole

(***************************************************************************)
(* Whoever asks for the completion of a whole upload, and how often, is    *)
(* never told that it is incomplete: CompletionIsIdempotent.               *)
(***************************************************************************)
THEOREM CompletionCanBeRepeated == Spec => []CompletionIsIdempotent
BY IntakeInvariant, PTL DEF DirectInv, CallersFindTheJob

-----------------------------------------------------------------------------
(* Checksums and originals.                                                *)

ChecksumTypes ==
    /\ content \in [Videos -> Contents]
    /\ sha \in [Videos -> Contents \cup {NoSha}]
    /\ original \in SUBSET Videos

ChecksumInv ==
    /\ ChecksumTypes
    /\ \A v \in Videos : sha[v] \in {NoSha, content[v]}
    /\ \A v, w \in Videos : v # w /\ sha[v] # NoSha => sha[v] # sha[w]
    /\ \A v \in Videos : stage[v] \in {"hashed", "published", "ready"} => sha[v] # NoSha
    /\ \A v \in Others : job[v] # "absent" => sha[v] # NoSha
    /\ \A v \in original : sha[v] # NoSha

LEMMA ChecksumStarts == Init => ChecksumInv
BY DEF Init, ChecksumInv, ChecksumTypes, Videos

\* Recording a checksum that nobody else has keeps all of it.
LEMMA FreshChecksum ==
    ASSUME StageInv, ChecksumInv, NEW v \in Videos, ~Duplicate(v),
           UNCHANGED <<content, original>>,
           sha' = [sha EXCEPT ![v] = content[v]],
           \A w \in Videos \ {v} : stage'[w] = stage[w] /\ job'[w] = job[w]
    PROVE  ChecksumInv'
<1>1. content[v] # NoSha /\ content[v] \in Contents
  BY IntakeAssumption DEF IntakeAssumption, ChecksumInv, ChecksumTypes
<1>2. sha'[v] = content[v] /\ \A w \in Videos \ {v} : sha'[w] = sha[w]
  BY DEF ChecksumInv, ChecksumTypes
<1>3. ChecksumTypes'
  BY <1>1 DEF ChecksumInv, ChecksumTypes
<1>4. \A w \in Videos \ {v} : sha[w] # content[v]
  BY DEF Duplicate
<1> QED
  BY <1>1, <1>2, <1>3, <1>4 DEF ChecksumInv, ChecksumTypes, Videos

LEMMA ChecksumStep ==
    ASSUME StageInv, ChecksumInv, [Next]_vars
    PROVE  ChecksumInv'
<1> USE DEF StageInv, StageTypes, StageFitsJob
<1>1. CASE UNCHANGED <<content, sha, original, job, stage>>
  BY <1>1 DEF ChecksumInv, ChecksumTypes
<1>2. ASSUME UNCHANGED <<content, sha, original>>, NEW v \in Videos,
             \A w \in Videos \ {v} : stage'[w] = stage[w] /\ job'[w] = job[w],
             stage'[v] \in {"hashed", "published", "ready"} => sha[v] # NoSha,
             v \in Others /\ job'[v] # "absent" => sha[v] # NoSha
      PROVE  ChecksumInv'
  BY <1>2 DEF ChecksumInv, ChecksumTypes, Videos
<1>3. ASSUME NEW v \in Videos, Accept(v)
      PROVE  ChecksumInv'
  <2>1. CASE Duplicate(v)
    BY <1>2, <1>3, <2>1 DEF Accept, Goto, Move, rowVars, ChecksumInv
  <2>2. CASE ~Duplicate(v)
    BY <1>3, <2>2, FreshChecksum DEF Accept, InsertRow, Move, Queue!Request
  <2> QED
    BY <2>1, <2>2
<1>4. ASSUME NEW v \in Videos, RecordChecksum(v)
      PROVE  ChecksumInv'
  <2>1. CASE Duplicate(v)
    BY <1>2, <1>4, <2>1 DEF RecordChecksum, Goto, Move, rowVars, ChecksumInv, Handlers
  <2>2. CASE ~Duplicate(v)
    BY <1>4, <2>2, FreshChecksum DEF RecordChecksum, Move
  <2> QED
    BY <2>1, <2>2
<1>5. ASSUME NEW v \in Videos, PublishOriginal(v)
      PROVE  ChecksumInv'
  <2>1. /\ stage[v] = "hashed" /\ stage'[v] = "published"
        /\ \A w \in Videos \ {v} : stage'[w] = stage[w]
        /\ original' = original \cup {v}
        /\ UNCHANGED <<content, sha, job>>
    BY <1>5 DEF PublishOriginal, Move
  <2> QED
    BY <2>1 DEF ChecksumInv, ChecksumTypes
<1>6. ASSUME NEW v \in Videos, Start(v)
      PROVE  ChecksumInv'
  <2>1. job[v] = "queued" /\ (v = Direct \/ v \in Others)
    BY <1>6 DEF Start, Queue!Start, Videos
  <2>2. /\ UNCHANGED <<content, sha, original>>
        /\ \A w \in Videos \ {v} : stage'[w] = stage[w] /\ job'[w] = job[w]
        /\ stage'[v] = IF v = Direct THEN "begun" ELSE "hashed"
    BY <1>6 DEF Start, Queue!Start, rowVars
  <2> QED
    BY <1>2, <2>1, <2>2 DEF ChecksumInv
<1>7. ASSUME NEW v \in Videos, Receive(v)
      PROVE  ChecksumInv'
  BY <1>2, <1>7 DEF Receive, Move, rowVars, ChecksumInv
<1>8. ASSUME NEW v \in Videos, LookBeforeAccepting(v)
      PROVE  ChecksumInv'
  BY <1>2, <1>8 DEF LookBeforeAccepting, Goto, Move, rowVars, ChecksumInv
<1>9. ASSUME NEW v \in Videos, LookBeforeHashing(v) \/ CommitReady(v)
      PROVE  ChecksumInv'
  BY <1>2, <1>9 DEF LookBeforeHashing, CommitReady, Goto, Move, rowVars, ChecksumInv, Handlers
<1>10. ASSUME NEW v \in Videos, Break(v) \/ Leave(v) \/ Die(v)
       PROVE  ChecksumInv'
  BY <1>2, <1>10 DEF Break, Leave, Die, Goto, Move, rowVars, ChecksumInv, Handlers
<1>11. ASSUME NEW v \in Videos, Complete(v) \/ Fail(v)
       PROVE  ChecksumInv'
  <2>1. /\ job[v] # "absent"
        /\ \A w \in Videos \ {v} : job'[w] = job[w]
        /\ UNCHANGED <<content, sha, original, stage>>
    BY <1>11 DEF Complete, Fail, Queue!Complete, Queue!Unfinished, rowVars
  <2> QED
    BY <1>2, <2>1 DEF ChecksumInv
<1>12. ASSUME NEW c \in Callers, EnqueueDirect(c)
       PROVE  ChecksumInv'
  <2>1. /\ UNCHANGED <<content, sha, original, stage>>
        /\ \A w \in Videos \ {Direct} : job'[w] = job[w]
        /\ Direct \in Videos /\ Direct \notin Others
    BY <1>12, IntakeAssumption DEF IntakeAssumption, EnqueueDirect, Queue!Request, Videos
  <2> QED
    BY <1>2, <2>1 DEF ChecksumInv
<1>13. CASE \/ Initiate \/ StoreCommits \/ BrowserSteps \/ UNCHANGED vars
            \/ \E c \in Callers : BeginComplete(c) \/ Verify(c) \/ LoadAgain(c)
  BY <1>1, <1>13 DEF Initiate, StoreCommits, BrowserSteps, BeginComplete, Verify, LoadAgain,
                     rowVars, intakeVars, vars
<1> QED
  BY <1>3, <1>4, <1>5, <1>6, <1>7, <1>8, <1>9, <1>10, <1>11, <1>12, <1>13 DEF Next

(***************************************************************************)
(* No two rows have one checksum, and no handler past hashing is without   *)
(* one (ingest.py:101-183; the unique constraint on the column).           *)
(***************************************************************************)
THEOREM ChecksumInvariant == Spec => [](StageInv /\ ChecksumInv)
<1>1. Init => StageInv /\ ChecksumInv
  BY StageStarts, ChecksumStarts
<1>2. StageInv /\ ChecksumInv /\ [Next]_vars => (StageInv /\ ChecksumInv)'
  BY StageStep, ChecksumStep
<1> QED
  BY <1>1, <1>2, PTL DEF Spec

(***************************************************************************)
(* However uploads of one content race, one of them at most becomes an     *)
(* original: ContentStoredOnce.                                            *)
(***************************************************************************)
THEOREM OriginalsDiffer == Spec => []ContentStoredOnce
<1>1. ChecksumInv => ContentStoredOnce
  BY DEF ChecksumInv, ChecksumTypes, ContentStoredOnce
<1> QED
  BY <1>1, ChecksumInvariant, PTL

-----------------------------------------------------------------------------
(* Temporary uploads.                                                      *)

\* From the moment it is stored an upload is there until its last reader is
\* done, also between the accepting request and the start of its job.
TemporaryInv ==
    /\ TemporaryHasAUser
    /\ \A v \in Videos : stage[v] \in {"received", "looked"} => v \in temporary

FullInv == UploadInv /\ StageInv /\ DirectInv /\ ChecksumInv /\ TemporaryInv

LEMMA TemporaryStarts == Init => TemporaryInv
BY DEF Init, TemporaryInv, TemporaryHasAUser, Handlers

LEMMA TemporaryStep ==
    ASSUME FullInv, [Next]_vars
    PROVE  TemporaryInv'
<1> USE DEF TemporaryInv, TemporaryHasAUser, StageInv, StageTypes, StageFitsJob, Handlers, Move, Goto
<1>0. StageInv /\ TemporaryInv
  BY DEF FullInv
<1>1. CASE UNCHANGED <<temporary, job, stage>>
  BY <1>0, <1>1
<1>2. CASE StoreCommits
  <2>1. CASE temporary' = temporary
    BY <1>1, <1>2, <2>1 DEF StoreCommits
  <2>2. CASE Whole' /\ temporary' = temporary \cup {Direct}
    <3>1. UNCHANGED <<job, stage>>
      BY <1>2 DEF StoreCommits
    <3>2. job[Direct] = "absent"
      BY <1>2 DEF FullInv, UploadInv, UploadTypeOK, StoreCommits, Commit, DirectInv,
                  ObjectIsWhole, AcceptedIsWhole, Whole
    <3>3. stage[Direct] \notin {"duplicate", "returned", "raised"}
      BY <1>0, <3>2 DEF Videos
    <3> QED
      BY <1>0, <2>2, <3>1, <3>3
  <2> QED
    BY <1>2, <2>1, <2>2 DEF StoreCommits
<1>3. ASSUME NEW c \in Callers, EnqueueDirect(c)
      PROVE  TemporaryInv'
  <2>1. CASE UNCHANGED job
    BY <1>1, <1>3, <2>1 DEF EnqueueDirect
  <2>2. CASE job[Direct] = "absent" /\ job' = [job EXCEPT ![Direct] = "queued"]
    <3>1. UNCHANGED <<temporary, stage>> /\ Direct \in Videos
      BY <1>3 DEF EnqueueDirect, Videos
    <3>2. Direct \in temporary
      BY <1>3, <2>2 DEF EnqueueDirect, Reply, FullInv, DirectInv, ObjectIsWhole, AlreadyAccepted
    <3> QED
      BY <1>0, <2>2, <3>1, <3>2
  <2> QED
    BY <1>3, <2>1, <2>2 DEF EnqueueDirect, Queue!Request
<1>4. ASSUME NEW v \in Videos, Receive(v)
      PROVE  TemporaryInv'
  BY <1>0, <1>4 DEF Receive
<1>5. ASSUME NEW v \in Videos, LookBeforeAccepting(v)
      PROVE  TemporaryInv'
  BY <1>0, <1>5 DEF LookBeforeAccepting
<1>6. ASSUME NEW v \in Videos, Accept(v)
      PROVE  TemporaryInv'
  <2>1. CASE Goto(v, "looked", "escaped")
    BY <1>0, <2>1
  <2>2. CASE InsertRow(v)
    BY <1>0, <2>2 DEF InsertRow, Queue!Request
  <2> QED
    BY <1>6, <2>1, <2>2 DEF Accept
<1>7. ASSUME NEW v \in Videos, Start(v)
      PROVE  TemporaryInv'
  BY <1>0, <1>7 DEF Start, Queue!Start
<1>8. ASSUME NEW v \in Videos,
             LookBeforeHashing(v) \/ RecordChecksum(v) \/ PublishOriginal(v) \/ CommitReady(v)
      PROVE  TemporaryInv'
  BY <1>0, <1>8 DEF LookBeforeHashing, RecordChecksum, PublishOriginal, CommitReady
<1>9. ASSUME NEW v \in Videos, Break(v) \/ Die(v)
      PROVE  TemporaryInv'
  BY <1>0, <1>9 DEF Break, Die
<1>10. ASSUME NEW v \in Videos, Leave(v)
       PROVE  TemporaryInv'
  BY <1>0, <1>10 DEF Leave
<1>11. ASSUME NEW v \in Videos, Complete(v) \/ Fail(v)
       PROVE  TemporaryInv'
  BY <1>0, <1>11 DEF Complete, Fail, Queue!Complete, Queue!Unfinished
<1>12. CASE \/ Initiate \/ BrowserSteps \/ UNCHANGED vars
            \/ \E c \in Callers : BeginComplete(c) \/ Verify(c) \/ LoadAgain(c)
  BY <1>1, <1>12 DEF Initiate, BrowserSteps, BeginComplete, Verify, LoadAgain, intakeVars, vars
<1> QED
  BY <1>2, <1>3, <1>4, <1>5, <1>6, <1>7, <1>8, <1>9, <1>10, <1>11, <1>12 DEF Next

(***************************************************************************)
(* Types, and the life of a temporary upload: it is there until its last   *)
(* reader is done, and gone afterwards -- but for the requests that lose   *)
(* the race for a checksum, the jobs that never start and the processes    *)
(* that die (ingest.py:101-183, 331-366): IntakeIsConsistent.              *)
(***************************************************************************)
THEOREM IntakeConsistent == Spec => []IntakeIsConsistent
<1>1. Init => FullInv
  BY UploadStarts, StageStarts, DirectStarts, ChecksumStarts, TemporaryStarts DEF FullInv
<1>2. FullInv /\ [Next]_vars => FullInv'
  <2>1. ASSUME FullInv, [Next]_vars
        PROVE  UploadInv' /\ StageInv' /\ ChecksumInv'
    BY <2>1, UploadStep, IntakeStepsUpload, StageStep, ChecksumStep DEF FullInv
  <2>2. ASSUME FullInv, [Next]_vars
        PROVE  DirectInv' /\ TemporaryInv'
    BY <2>1, <2>2, DirectStep, TemporaryStep DEF FullInv
  <2> QED
    BY <2>1, <2>2 DEF FullInv
<1>3. FullInv => IntakeIsConsistent
  BY DEF FullInv, UploadInv, StageInv, StageTypes, DirectInv, RowTypes, ChecksumInv,
         ChecksumTypes, TemporaryInv, IntakeIsConsistent, TypeOK
<1> QED
  BY <1>1, <1>2, <1>3, PTL DEF Spec

=============================================================================
