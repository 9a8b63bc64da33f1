-------------------------- MODULE ProxyRepairProofs --------------------------
(***************************************************************************)
(* Theorems about module ProxyRepair, for any number of repair jobs and    *)
(* of crashes.                                                             *)
(***************************************************************************)
EXTENDS ProxyRepair, TLAPS

(***************************************************************************)
(* The inductive invariant.  Only startup records a blocked repair, and    *)
(* only when nothing runs; from then on nothing can start, because the     *)
(* proxy and the tracks that block it stay.                                *)
(***************************************************************************)
OnlyServedJobsRun == api # "serving" => \A r \in Repairs : pc[r] = "none"

DecisionIsCurrent == api = "deciding" => assessed = proxy

PublishedIsCurrent == \A r \in Repairs : pc[r] = "published" => proxy = "current"

BlockedForGood ==
    /\ note = "blocked" => \A r \in Repairs : pc[r] = "none"
    /\ blocked = IF note = "blocked" THEN 1 ELSE 0
    /\ note = "blocked" => \A r \in Repairs : ~Unfinished(r)

\* A repair that goes on has found no tracks that it would displace, and none
\* can come without a detection running beside it.
ClearedToReplace ==
    \A r \in Repairs :
        /\ pc[r] \in {"cleared", "generated"} =>
               overlapped \/ tracks = {} \/ proxy # "mistimed"
        /\ pc[r] # "none" /\ detection \in Timelines => overlapped

DetectionReadsProxy ==
    detection \in Timelines => overlapped \/ detection = Timeline(proxy)

RepairInv ==
    /\ TypeOK
    /\ NotesAreTrue
    /\ OnlyServedJobsRun
    /\ DecisionIsCurrent
    /\ PublishedIsCurrent
    /\ BlockedForGood
    /\ ClearedToReplace
    /\ DetectionReadsProxy
    /\ TracksKeepTheirTimeline

LEMMA RepairStarts == Init => RepairInv
<1> SUFFICES ASSUME Init PROVE RepairInv
  OBVIOUS
<1>1. TypeOK
  BY DEF Init, TypeOK, Assessments, Timelines, Timeline, Queue!States
<1> QED
  BY <1>1 DEF Init, RepairInv, NotesAreTrue, OnlyServedJobsRun, DecisionIsCurrent,
     PublishedIsCurrent, BlockedForGood, ClearedToReplace, DetectionReadsProxy, Timelines,
     TracksKeepTheirTimeline

-----------------------------------------------------------------------------
(* Types.                                                                  *)

\* The flags, apart from the rest: they are or'ed with conditions.
Flags == ready \in BOOLEAN /\ profiled \in BOOLEAN /\ overlapped \in BOOLEAN

LEMMA FlagStep ==
    ASSUME Flags, [Next]_vars
    PROVE  Flags'
<1> USE DEF Flags, Detect, Advance, RecordCurrent
<1>1. CASE Crash \/ Recover \/ Assess \/ Skip \/ Decide \/ UNCHANGED vars
  BY <1>1 DEF Crash, Recover, Assess, Skip, Decide, vars
<1>2. CASE RequestDetection \/ OpenProxy \/ StoreTracks \/ FailDetection
  BY <1>2 DEF RequestDetection, OpenProxy, StoreTracks, FailDetection
<1>3. ASSUME NEW r \in Repairs,
             \/ Begin(r) \/ Clear(r) \/ Generate(r) \/ Publish(r) \/ Activate(r)
             \/ Break(r) \/ End(r)
      PROVE  Flags'
  BY <1>3 DEF Begin, Clear, Generate, Publish, Replace, Activate, Break, End
<1> QED
  BY <1>1, <1>2, <1>3 DEF Next

\* The rest.  The disjunctions that update the flags are left folded.
Types ==
    /\ api \in {"down", "assessing", "deciding", "serving"}
    /\ assessed \in Assessments
    /\ proxy \in Assessments
    /\ candidate \in {"none", "current", "wrong"}
    /\ tracks \in SUBSET Timelines
    /\ detection \in {"none", "queued"} \cup Timelines
    /\ job \in [Repairs -> Queue!States]
    /\ pc \in [Repairs -> {"none", "begun", "cleared", "generated", "published", "returned", "raised"}]
    /\ note \in {"none", "queued", "running", "complete", "failed", "blocked"}
    /\ blocked \in Nat

LEMMA AdvanceTypes ==
    ASSUME Types, NEW r \in Repairs, NEW from,
           NEW to \in {"none", "begun", "cleared", "generated", "published", "returned", "raised"},
           Advance(r, from, to)
    PROVE  /\ pc' \in [Repairs -> {"none", "begun", "cleared", "generated", "published",
                                    "returned", "raised"}]
           /\ UNCHANGED <<api, assessed, tracks, detection, blocked>>
  BY DEF Types, Advance

LEMMA QueueTypes ==
    ASSUME Types, NEW r \in Repairs,
           Queue!Request(r) \/ Queue!Start(r) \/ Queue!Complete(r) \/ Queue!GiveUp({r})
    PROVE  job' \in [Repairs -> Queue!States]
  BY DEF Types, Queue!States, Queue!Request, Queue!Start, Queue!Complete, Queue!GiveUp

LEMMA TypesStep ==
    ASSUME Types, [Next]_vars
    PROVE  Types'
<1> USE DEF Assessments, Timelines, Timeline
<1>1. CASE Crash
  BY <1>1 DEF Types, Crash
<1>2. CASE Recover
  <2>1. /\ api' = "assessing" /\ detection' = "none"
        /\ job' = [r \in Repairs |-> IF Unfinished(r) THEN "failed" ELSE job[r]]
        /\ UNCHANGED <<assessed, proxy, candidate, tracks, pc, note, blocked>>
    BY <1>2 DEF Recover
  <2> QED
    BY <2>1 DEF Types, Queue!States
<1>3. CASE Assess \/ Skip
  BY <1>3 DEF Types, Assess, Skip
<1>4. CASE Decide
  <2>1. /\ api' = "serving"
        /\ \/ UNCHANGED <<job, note, blocked>>
           \/ RecordBlocked /\ UNCHANGED job
           \/ Schedule
        /\ UNCHANGED <<assessed, proxy, candidate, tracks, detection, pc>>
    BY <1>4 DEF Decide
  <2>2. CASE UNCHANGED <<job, note, blocked>>
    BY <2>1, <2>2 DEF Types
  <2>3. CASE RecordBlocked /\ UNCHANGED job
    BY <2>1, <2>3 DEF Types, RecordBlocked
  <2>4. CASE Schedule
    <3>1. job' \in [Repairs -> Queue!States]
      BY <2>4, QueueTypes DEF Schedule
    <3> QED
      BY <2>1, <2>4, <3>1 DEF Types, Schedule
  <2> QED
    BY <2>1, <2>2, <2>3, <2>4
<1>5. CASE RequestDetection \/ OpenProxy \/ StoreTracks \/ FailDetection
  <2>1. /\ detection' \in {"none", "queued"} \cup Timelines
        /\ tracks' \in SUBSET Timelines
        /\ UNCHANGED <<api, assessed, proxy, candidate, job, pc, note, blocked>>
    BY <1>5 DEF Types, RequestDetection, OpenProxy, StoreTracks, FailDetection, Detect
  <2>2. /\ api' \in {"down", "assessing", "deciding", "serving"}
        /\ assessed' \in Assessments /\ proxy' \in Assessments
        /\ candidate' \in {"none", "current", "wrong"} /\ blocked' \in Nat
        /\ note' \in {"none", "queued", "running", "complete", "failed", "blocked"}
    BY <2>1 DEF Types
  <2>3. /\ job' \in [Repairs -> Queue!States]
        /\ pc' \in [Repairs -> {"none", "begun", "cleared", "generated", "published",
                                 "returned", "raised"}]
    BY <2>1 DEF Types
  <2> QED
    BY <2>1, <2>2, <2>3 DEF Types
<1>6. ASSUME NEW r \in Repairs, Begin(r)
      PROVE  Types'
  <2>1. job' \in [Repairs -> Queue!States]
    BY <1>6, QueueTypes DEF Begin
  <2>2. Advance(r, "none", "begun") /\ note' = "running" /\ UNCHANGED <<proxy, candidate>>
    BY <1>6 DEF Begin
  <2> QED
    BY <2>1, <2>2, AdvanceTypes DEF Types
<1>7. ASSUME NEW r \in Repairs, Clear(r)
      PROVE  Types'
  <2>1. PICK to \in {"returned", "cleared"} : Advance(r, "begun", to)
    BY <1>7 DEF Clear
  <2>2. note' \in {note, "complete"} /\ UNCHANGED <<proxy, candidate, job>>
    BY <1>7 DEF Clear, RecordCurrent
  <2>3. /\ pc' \in [Repairs -> {"none", "begun", "cleared", "generated", "published",
                                 "returned", "raised"}]
        /\ UNCHANGED <<api, assessed, tracks, detection, blocked>>
    BY <2>1, AdvanceTypes
  <2> QED
    BY <2>2, <2>3 DEF Types
<1>8. ASSUME NEW r \in Repairs, Generate(r)
      PROVE  Types'
  <2>1. /\ Advance(r, "cleared", "generated")
        /\ candidate' \in {"current", "wrong"} /\ UNCHANGED <<proxy, job, note>>
    BY <1>8 DEF Generate
  <2> QED
    BY <2>1, AdvanceTypes DEF Types
<1>9. ASSUME NEW r \in Repairs, Publish(r)
      PROVE  Types'
  <2>1. /\ Advance(r, "generated", "published")
        /\ proxy' = "current" /\ candidate' = "none" /\ UNCHANGED <<job, note>>
    BY <1>9 DEF Publish, Replace
  <2> QED
    BY <2>1, AdvanceTypes DEF Types
<1>10. ASSUME NEW r \in Repairs, Activate(r)
       PROVE  Types'
  <2>1. /\ Advance(r, "published", "returned")
        /\ note' = "complete" /\ UNCHANGED <<proxy, candidate, job>>
    BY <1>10 DEF Activate, RecordCurrent
  <2> QED
    BY <2>1, AdvanceTypes DEF Types
<1>11. ASSUME NEW r \in Repairs, Break(r)
       PROVE  Types'
  <2>1. PICK from : Advance(r, from, "raised")
    BY <1>11 DEF Break
  <2>2. candidate' = "none" /\ note' = "failed" /\ UNCHANGED <<proxy, job>>
    BY <1>11 DEF Break
  <2>3. /\ pc' \in [Repairs -> {"none", "begun", "cleared", "generated", "published",
                                 "returned", "raised"}]
        /\ UNCHANGED <<api, assessed, tracks, detection, blocked>>
    BY <2>1, AdvanceTypes
  <2> QED
    BY <2>2, <2>3 DEF Types
<1>12. ASSUME NEW r \in Repairs, End(r)
       PROVE  Types'
  <2>1. PICK from : Advance(r, from, "none")
    BY <1>12 DEF End
  <2>2. job' \in [Repairs -> Queue!States]
    BY <1>12, QueueTypes DEF End
  <2>3. UNCHANGED <<proxy, candidate, note>>
    BY <1>12 DEF End
  <2>4. /\ pc' \in [Repairs -> {"none", "begun", "cleared", "generated", "published",
                                 "returned", "raised"}]
        /\ UNCHANGED <<api, assessed, tracks, detection, blocked>>
    BY <2>1, AdvanceTypes
  <2> QED
    BY <2>2, <2>3, <2>4 DEF Types
<1>13. CASE UNCHANGED vars
  BY <1>13 DEF vars, Types
<1> QED
  BY <1>1, <1>2, <1>3, <1>4, <1>5, <1>6, <1>7, <1>8, <1>9, <1>10, <1>11, <1>12, <1>13 DEF Next

LEMMA TypeStep ==
    ASSUME TypeOK, [Next]_vars
    PROVE  TypeOK'
<1>1. Flags /\ Types
  BY DEF TypeOK, Flags, Types
<1>2. Flags' /\ Types'
  BY <1>1, FlagStep, TypesStep
<1> QED
  BY <1>2 DEF TypeOK, Flags, Types

-----------------------------------------------------------------------------
(* Notes, tracks and what they rest on.                                    *)

LEMMA RepairStep ==
    ASSUME RepairInv, [Next]_vars
    PROVE  RepairInv'
<1> USE DEF NotesAreTrue, OnlyServedJobsRun, DecisionIsCurrent, PublishedIsCurrent, BlockedForGood,
            ClearedToReplace, DetectionReadsProxy, TracksKeepTheirTimeline
<1>0. TypeOK /\ TypeOK'
  BY TypeStep DEF RepairInv
<1>1. CASE Crash
  BY <1>0, <1>1 DEF RepairInv, Crash, Unfinished, TypeOK
<1>2. CASE Recover
  BY <1>0, <1>2 DEF RepairInv, Recover, Unfinished, Queue!Unfinished, Timelines, TypeOK
<1>3. CASE Assess \/ Skip
  BY <1>0, <1>3 DEF RepairInv, Assess, Skip, Unfinished, TypeOK
<1>4. CASE Decide
  <2>1. /\ api = "deciding" /\ api' = "serving" /\ assessed = proxy
        /\ profiled' = (profiled \/ assessed = "current")
        /\ UNCHANGED <<assessed, proxy, candidate, tracks, ready, detection, pc, overlapped>>
        /\ \A r \in Repairs : pc[r] = "none"
    BY <1>4 DEF RepairInv, Decide
  <2>2. CASE UNCHANGED <<job, note, blocked>>
    BY <1>0, <2>1, <2>2 DEF RepairInv, Unfinished, TypeOK
  <2>3. CASE /\ tracks # {} /\ assessed = "mistimed" /\ RecordBlocked /\ UNCHANGED job
             /\ \A r \in Repairs : ~Unfinished(r)
    BY <1>0, <2>1, <2>3 DEF RepairInv, RecordBlocked, Unfinished, TypeOK
  <2>4. CASE ~(tracks # {} /\ assessed = "mistimed") /\ Schedule
    BY <1>0, <2>1, <2>4 DEF RepairInv, Schedule, TypeOK
  <2> QED
    BY <1>4, <2>2, <2>3, <2>4 DEF Decide
<1>5. CASE RequestDetection
  BY <1>0, <1>5 DEF RepairInv, RequestDetection, Detect, Unfinished, Timelines, TypeOK
<1>6. CASE OpenProxy
  BY <1>0, <1>6 DEF RepairInv, OpenProxy, Detect, Unfinished, Timelines, Timeline, TypeOK
<1>7. CASE StoreTracks
  BY <1>0, <1>7 DEF RepairInv, StoreTracks, Detect, Unfinished, Timelines, TypeOK
<1>8. CASE FailDetection
  BY <1>0, <1>8 DEF RepairInv, FailDetection, Detect, Unfinished, Timelines, TypeOK
<1>9. ASSUME NEW r \in Repairs, Begin(r)
      PROVE  RepairInv'
  <2>1. job[r] = "queued" /\ note # "blocked"
    BY <1>9 DEF RepairInv, Begin, Queue!Start, Unfinished, Queue!Unfinished
  <2> QED
    BY <1>0, <1>9, <2>1 DEF RepairInv, Begin, Advance, TypeOK
<1>10. ASSUME NEW r \in Repairs, Clear(r)
       PROVE  RepairInv'
  <2>1. note # "blocked"
    BY <1>10 DEF RepairInv, Clear, Advance
  <2> QED
    BY <1>0, <1>10, <2>1 DEF RepairInv, Clear, RecordCurrent, Advance, TypeOK
<1>11. ASSUME NEW r \in Repairs, Generate(r)
       PROVE  RepairInv'
  <2>1. note # "blocked"
    BY <1>11 DEF RepairInv, Generate, Advance
  <2> QED
    BY <1>0, <1>11, <2>1 DEF RepairInv, Generate, Advance, TypeOK
<1>12. ASSUME NEW r \in Repairs, Publish(r)
       PROVE  RepairInv'
  <2>1. note # "blocked"
    BY <1>12 DEF RepairInv, Publish, Replace, Advance
  <2>2. proxy' = "current"
    BY <1>12 DEF Publish, Replace
  <2> QED
    BY <1>0, <1>12, <2>1, <2>2 DEF RepairInv, Publish, Replace, Advance, Timelines, Timeline,
       Assessments, TypeOK
<1>13. ASSUME NEW r \in Repairs, Activate(r)
       PROVE  RepairInv'
  <2>1. note # "blocked"
    BY <1>13 DEF RepairInv, Activate, Advance
  <2> QED
    BY <1>0, <1>13, <2>1 DEF RepairInv, Activate, RecordCurrent, Advance, TypeOK
<1>14. ASSUME NEW r \in Repairs, Break(r)
       PROVE  RepairInv'
  <2>1. note # "blocked"
    BY <1>14 DEF RepairInv, Break, Advance
  <2> QED
    BY <1>0, <1>14, <2>1 DEF RepairInv, Break, Advance, TypeOK
<1>15. ASSUME NEW r \in Repairs, End(r)
       PROVE  RepairInv'
  <2>1. note # "blocked"
    BY <1>15 DEF RepairInv, End, Advance
  <2> QED
    BY <1>0, <1>15, <2>1 DEF RepairInv, End, Advance, TypeOK
<1>16. CASE UNCHANGED vars
  BY <1>0, <1>16 DEF RepairInv, vars, Unfinished
<1> QED
  BY <1>1, <1>2, <1>3, <1>4, <1>5, <1>6, <1>7, <1>8, <1>9, <1>10, <1>11, <1>12, <1>13, <1>14,
     <1>15, <1>16 DEF Next

(***************************************************************************)
(* Whatever crashes, repairs and detections do, the proxy, its notes and   *)
(* the jobs stay in the states that startup, repairs and detection rely on *)
(* (proxy.py:120-400, main.py:31-45).                                      *)
(***************************************************************************)
THEOREM RepairInvariant == Spec => []RepairInv
BY RepairStarts, RepairStep, PTL DEF Spec

(***************************************************************************)
(* After any number of crashes and repairs the note on a repair tells the  *)
(* truth, and a blocked repair is recorded once: RepairIsConsistent.       *)
(***************************************************************************)
THEOREM NotesCanBeTrusted == Spec => []RepairIsConsistent
<1>1. RepairInv => RepairIsConsistent
  BY DEF RepairInv, BlockedForGood, RepairIsConsistent
<1> QED
  BY <1>1, RepairInvariant, PTL

(***************************************************************************)
(* No repair moves the timeline of tracks it did not share the time with:  *)
(* TracksKeepTheirTimeline.                                                *)
(***************************************************************************)
THEOREM TimelineIsKept == Spec => []TracksKeepTheirTimeline
BY RepairInvariant, PTL DEF RepairInv

(***************************************************************************)
(* A proxy is replaced by a validated one only:                            *)
(* ReplacedOnlyAfterValidation.                                            *)
(***************************************************************************)
THEOREM OnlyValidatedReplaces == Spec => ReplacedOnlyAfterValidation
<1>1. ASSUME [Next]_vars, proxy' # proxy
      PROVE  proxy' = "current"
  <2>1. \E r \in Repairs : Publish(r)
    BY <1>1 DEF Next, vars, Crash, Recover, Assess, Skip, Decide, RequestDetection, OpenProxy,
                StoreTracks, FailDetection, Detect, Begin, Clear, Generate, Activate, Break, End
  <2> QED
    BY <2>1 DEF Publish, Replace
<1>2. [Next]_vars => [proxy' # proxy => proxy' = "current"]_vars
  BY <1>1
<1> QED
  BY <1>2, PTL DEF Spec, ReplacedOnlyAfterValidation

=============================================================================
