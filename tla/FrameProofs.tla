----------------------------- MODULE FrameProofs -----------------------------
(***************************************************************************)
(* Theorems about the way of frames from detection to export (module       *)
(* RedactionFlow), for any detectors with pools of any size, any sampling, *)
(* clips of any length, any detections, any review and any encoders.       *)
(***************************************************************************)
EXTENDS RedactionFlow, RenderingProofs, TLAPS

(***************************************************************************)
(* The inductive invariant of the sampling loop.                           *)
(***************************************************************************)
TaskStates == {"none", "queued", "running", "done", "error", "cancelled"}

PipelineType ==
    /\ phase \in PipelinePhases
    /\ clip \in Clips
    /\ decoded \in 0..Length
    /\ pending \in Seq(Frames)
    /\ task \in [Detectors -> [Frames -> TaskStates]]
    /\ analysed \subseteq Frames
    /\ raised \in BOOLEAN /\ cut \in BOOLEAN

InFlight == {pending[i] : i \in 1..Len(pending)}

\* What was read and is due was analysed, or is in flight; of a frame that was
\* grabbed and not retrieved nothing is said.
NothingPassedOver ==
    ~cut => \A f \in 0..(decoded - 1) : Sampled(f) => f \in analysed \cup InFlight

\* Without an exception the loop is left at the end, with nothing in flight.
LeftAtTheEnd ==
    /\ phase # "decoding" /\ ~raised /\ ~cut => decoded = Length
    /\ phase \in {"closing", "joining", "linking"} /\ ~raised => pending = <<>>
    /\ phase = "linking" => ~raised
    /\ phase \in {"decoding", "draining"} => ~raised

\* Cancelling leaves no task queued, joining none running.
PoolsAreEmptied ==
    /\ phase \in {"joining", "failed", "linking"} =>
           \A d \in Detectors, f \in Frames : task[d][f] # "queued"
    /\ phase \in {"failed", "linking"} =>
           \A d \in Detectors, f \in Frames : task[d][f] # "running"

PipelineInv == PipelineType /\ NothingPassedOver /\ LeftAtTheEnd /\ PoolsAreEmptied

-----------------------------------------------------------------------------
(* The sampling loop.                                                      *)

\* What is decoded is a prefix of the frames the model counts.
LEMMA ClipType ==
    ASSUME clip \in Clips
    PROVE  Length \in 0..(LastFrame + 1) /\ Estimated \in Nat \ {0} /\ LastFrame \in Nat
BY PipelineAssumption DEF Length, Estimated

\* A multiple of k lies among any k numbers.
LEMMA MultipleWithin ==
    ASSUME NEW f \in Nat, NEW k \in Nat \ {0}
    PROVE  \E g \in 0..f : g % k = 0 /\ f - k + 1 <= g
<1> DEFINE q == f \div k
           g == k * q
<1>1. q \in Nat /\ k * q <= f /\ f < k * q + k
  OBVIOUS
<1>2. (k * q) % k = 0
  <2> HIDE DEF q
  <2> QED
    BY <1>1
<1> HIDE DEF q
<1>3. g \in Nat /\ g <= f /\ f < g + k /\ g % k = 0
  BY <1>1, <1>2
<1> HIDE DEF g
<1>4. g \in 0..f /\ f - k + 1 <= g
  BY <1>3
<1> QED
  BY <1>3, <1>4

\* The loop starts with nothing read.
LEMMA PipelineStarts == PipelineInit => PipelineInv
<1> SUFFICES ASSUME PipelineInit PROVE PipelineInv
  OBVIOUS
<1> USE DEF PipelineInit
<1>1. PipelineType
  <2>1. decoded \in 0..Length /\ clip \in Clips
    BY ClipType
  <2>2. pending \in Seq(Frames)
    OBVIOUS
  <2>3. task \in [Detectors -> [Frames -> TaskStates]]
    BY DEF TaskStates
  <2> QED
    BY <2>1, <2>2, <2>3 DEF PipelineType, PipelinePhases
<1>2. NothingPassedOver
  BY DEF NothingPassedOver
<1>3. LeftAtTheEnd /\ PoolsAreEmptied
  BY DEF LeftAtTheEnd, PoolsAreEmptied
<1> QED
  BY <1>1, <1>2, <1>3 DEF PipelineInv

\* A frame that is due is read and given to the pools.
LEMMA SubmitStep ==
    ASSUME PipelineInv, SubmitFrame
    PROVE  PipelineInv'
<1> USE DEF SubmitFrame, Grab, PipelineInv
<1>1. decoded \in Frames /\ decoded + 1 \in 0..Length /\ Length' = Length
  BY ClipType DEF PipelineType, Frames, Length
<1>2. pending' \in Seq(Frames) /\ Len(pending') = Len(pending) + 1
      /\ pending'[Len(pending) + 1] = decoded
      /\ (\A i \in 1..Len(pending) : pending'[i] = pending[i])
      /\ Len(pending) \in Nat
  BY <1>1 DEF PipelineType
<1>3. task' \in [Detectors -> [Frames -> TaskStates]]
  BY <1>1 DEF PipelineType, TaskStates
<1>4. PipelineType'
  BY <1>1, <1>2, <1>3 DEF PipelineType
<1>5. NothingPassedOver'
  <2>1. InFlight \cup {decoded} \subseteq InFlight'
    BY <1>2 DEF InFlight
  <2> SUFFICES ASSUME ~cut, NEW f \in 0..decoded, Sampled(f)
               PROVE  f \in analysed \cup InFlight'
    BY <1>1 DEF NothingPassedOver, Sampled, Estimated, PipelineType
  <2>2. CASE f = decoded
    BY <2>1, <2>2
  <2>3. CASE f # decoded
    <3>1. f \in 0..(decoded - 1)
      BY <1>1, <2>3 DEF Frames
    <3> QED
      BY <2>1, <3>1 DEF NothingPassedOver
  <2> QED
    BY <2>2, <2>3
<1>6. LeftAtTheEnd' /\ PoolsAreEmptied'
  BY DEF LeftAtTheEnd, PoolsAreEmptied
<1> QED
  BY <1>4, <1>5, <1>6

\* Among the first k pools one is largest.
HasLargest(k) ==
    \E n \in 1..k : \A d \in 1..k : Concurrency[d] <= Concurrency[n]

\* By a least number of pools without: the library's induction takes an operator.
LEMMA LargestPool == MaxInFlight \in Nat \ {0}
<1> DEFINE T == {k \in 1..Len(Concurrency) : ~HasLargest(k)}
<1>1. Concurrency \in Seq(Nat \ {0}) /\ Len(Concurrency) \in Nat \ {0}
      /\ Detectors = 1..Len(Concurrency)
      /\ \A d \in 1..Len(Concurrency) : Concurrency[d] \in Nat \ {0}
  BY PipelineAssumption DEF Detectors
<1>2. T = {}
  <2> SUFFICES ASSUME T # {} PROVE FALSE
    OBVIOUS
  <2>1. T \in SUBSET Nat
    OBVIOUS
  <2> HIDE DEF T
  <2>2. PICK k \in T : \A j \in T : k <= j
    BY <2>1, LeastNatural
  <2> USE DEF T
  <2>3. k \in 1..Len(Concurrency) /\ ~HasLargest(k)
    BY <2>2
  <2>4. CASE k = 1
    BY <1>1, <2>3, <2>4 DEF HasLargest
  <2>5. CASE k # 1
    <3>1. k - 1 \in 1..Len(Concurrency) /\ HasLargest(k - 1)
      <4>1. k - 1 \in 1..Len(Concurrency) /\ ~(k <= k - 1)
        BY <1>1, <2>3, <2>5
      <4>2. k - 1 \notin T
        <5> HIDE DEF T
        <5> QED
          BY <2>2, <4>1
      <4> QED
        BY <4>1, <4>2
    <3>2. PICK n \in 1..(k - 1) : \A d \in 1..(k - 1) : Concurrency[d] <= Concurrency[n]
      BY <3>1 DEF HasLargest
    <3>3. CASE Concurrency[k] <= Concurrency[n]
      <4>1. n \in 1..k /\ \A d \in 1..k : Concurrency[d] <= Concurrency[n]
        <5> SUFFICES ASSUME NEW d \in 1..k PROVE Concurrency[d] <= Concurrency[n]
          BY <2>3, <3>2
        <5>1. d = k \/ d \in 1..(k - 1)
          BY <2>3
        <5> QED
          BY <3>2, <3>3, <5>1
      <4> QED
        BY <4>1 DEF HasLargest
    <3>4. CASE ~(Concurrency[k] <= Concurrency[n])
      <4>1. \A d \in 1..k : Concurrency[d] <= Concurrency[k]
        <5> SUFFICES ASSUME NEW d \in 1..k PROVE Concurrency[d] <= Concurrency[k]
          OBVIOUS
        <5>1. d = k \/ d \in 1..(k - 1)
          BY <2>3
        <5>2. k \in 1..Len(Concurrency) /\ n \in 1..Len(Concurrency) /\ d \in 1..Len(Concurrency)
          BY <1>1, <2>3, <3>2
        <5>3. Concurrency[k] \in Nat /\ Concurrency[n] \in Nat /\ Concurrency[d] \in Nat
          BY <1>1, <5>2
        <5> QED
          BY <3>2, <3>4, <5>1, <5>3
      <4> QED
        BY <2>3, <4>1 DEF HasLargest
    <3> QED
      BY <3>3, <3>4
  <2> QED
    BY <2>4, <2>5
<1>3. HasLargest(Len(Concurrency))
  BY <1>1, <1>2
<1>4. \E n \in {Concurrency[d] : d \in Detectors} : \A d \in Detectors : Concurrency[d] <= n
  BY <1>1, <1>3 DEF HasLargest
<1>5. MaxInFlight \in {Concurrency[d] : d \in Detectors}
  BY <1>4 DEF MaxInFlight
<1> QED
  BY <1>1, <1>5

\* The oldest frame in flight is awaited and analysed.
LEMMA ConsumeStep ==
    ASSUME PipelineInv, Consume
    PROVE  PipelineInv'
<1> USE DEF Consume, PipelineInv
<1>1. pending \in Seq(Frames) /\ pending # <<>> /\ Len(pending) \in Nat \ {0}
  BY LargestPool DEF Turn, PipelineType
<1>2. /\ Head(pending) = pending[1] /\ Head(pending) \in Frames
      /\ Tail(pending) \in Seq(Frames) /\ Len(Tail(pending)) = Len(pending) - 1
      /\ \A i \in 1..(Len(pending) - 1) : Tail(pending)[i] = pending[i + 1]
  BY <1>1
<1>3. PipelineType'
  BY <1>2 DEF PipelineType, Length
<1>4. InFlight \subseteq {Head(pending)} \cup InFlight'
  <2> SUFFICES ASSUME NEW i \in 1..Len(pending)
               PROVE  pending[i] \in {Head(pending)} \cup InFlight'
    BY DEF InFlight
  <2>1. CASE i = 1
    BY <1>2, <2>1
  <2>2. CASE i # 1
    <3>1. i - 1 \in 1..Len(pending') /\ pending'[i - 1] = pending[i]
      BY <1>1, <1>2, <2>2
    <3> QED
      BY <3>1 DEF InFlight
  <2> QED
    BY <2>1, <2>2
<1>5. NothingPassedOver'
  BY <1>4 DEF NothingPassedOver, Sampled, Estimated
<1>6. LeftAtTheEnd' /\ PoolsAreEmptied'
  BY <1>1, <1>2 DEF LeftAtTheEnd, PoolsAreEmptied, Turn, Length
<1> QED
  BY <1>3, <1>5, <1>6

\* The steps of the loop's thread that give nothing in and take nothing out.
LEMMA OtherLoopSteps ==
    ASSUME PipelineInv,
           PassFrame \/ StopDecoding \/ ConsumeRaises \/ Drained \/ Cancel \/ Join
    PROVE  PipelineInv'
<1> USE DEF PipelineInv, Grab, Leave
<1>1. Length' = Length /\ InFlight' = InFlight /\ \A f : Sampled(f)' <=> Sampled(f)
  BY DEF PassFrame, StopDecoding, ConsumeRaises, Drained, Cancel, Join,
         Length, InFlight, Sampled, Estimated
<1>2. CASE PassFrame
  <2> USE <1>2 DEF PassFrame
  <2>1. decoded \in Nat /\ Length \in Nat
    BY ClipType DEF PipelineType
  <2>2. PipelineType'
    BY <1>1, <2>1 DEF PipelineType
  <2>3. NothingPassedOver'
    <3> SUFFICES ASSUME ~cut, NEW f \in 0..decoded, Sampled(f)
                 PROVE  f \in analysed \cup InFlight
      BY <1>1, <2>1 DEF NothingPassedOver
    <3>1. f \in 0..(decoded - 1)
      BY <2>1
    <3> QED
      BY <3>1 DEF NothingPassedOver
  <2>4. LeftAtTheEnd' /\ PoolsAreEmptied'
    BY <1>1 DEF LeftAtTheEnd, PoolsAreEmptied
  <2> QED
    BY <2>2, <2>3, <2>4
<1>3. CASE StopDecoding
  <2> USE <1>3 DEF StopDecoding
  <2>1. decoded \in Nat /\ Length \in Nat
    BY ClipType DEF PipelineType
  <2>2. decoded' \in 0..Length /\ cut' \in BOOLEAN /\ phase' = "draining"
    <3>1. CASE decoded = Length /\ UNCHANGED <<decoded, cut>>
      BY <3>1 DEF PipelineType
    <3>2. CASE decoded < Length /\ decoded' = decoded + 1 /\ cut' = TRUE
      BY <2>1, <3>2
    <3> QED
      BY <3>1, <3>2
  <2>3. PipelineType'
    BY <1>1, <2>2 DEF PipelineType, PipelinePhases
  <2>4. NothingPassedOver' /\ LeftAtTheEnd' /\ PoolsAreEmptied'
    BY <1>1, <2>1 DEF NothingPassedOver, LeftAtTheEnd, PoolsAreEmptied
  <2> QED
    BY <2>3, <2>4
<1>4. CASE ConsumeRaises \/ Drained
  <2> USE <1>4 DEF ConsumeRaises, Drained
  <2>1. PipelineType'
    BY <1>1 DEF PipelineType, PipelinePhases
  <2>2. NothingPassedOver' /\ LeftAtTheEnd' /\ PoolsAreEmptied'
    BY <1>1 DEF NothingPassedOver, LeftAtTheEnd, PoolsAreEmptied, Turn
  <2> QED
    BY <2>1, <2>2
<1>5. CASE Cancel
  <2> USE <1>5 DEF Cancel
  <2>1. PipelineType'
    BY <1>1 DEF PipelineType, PipelinePhases, TaskStates
  <2>2. NothingPassedOver' /\ LeftAtTheEnd'
    BY <1>1 DEF NothingPassedOver, LeftAtTheEnd
  <2>3. PoolsAreEmptied'
    BY DEF PoolsAreEmptied, PipelineType
  <2> QED
    BY <2>1, <2>2, <2>3
<1>6. CASE Join
  <2> USE <1>6 DEF Join, AfterPools
  <2>1. PipelineType'
    BY <1>1 DEF PipelineType, PipelinePhases
  <2>2. NothingPassedOver' /\ LeftAtTheEnd' /\ PoolsAreEmptied'
    BY <1>1 DEF NothingPassedOver, LeftAtTheEnd, PoolsAreEmptied
  <2> QED
    BY <2>1, <2>2
<1> QED
  BY <1>2, <1>3, <1>4, <1>5, <1>6

\* A pool begins or ends a task.
LEMMA PoolSteps ==
    ASSUME PipelineInv, Pools
    PROVE  PipelineInv'
<1> USE DEF PipelineInv
<1>1. PICK d \in Detectors, f \in Frames : RunTask(d, f) \/ EndTask(d, f)
  BY DEF Pools
<1>2. UNCHANGED <<phase, clip, decoded, pending, analysed, raised, cut>>
  BY <1>1 DEF RunTask, EndTask
<1>3. NothingPassedOver' /\ LeftAtTheEnd'
  BY <1>2 DEF NothingPassedOver, LeftAtTheEnd, InFlight, Sampled, Estimated, Length
<1>4. CASE RunTask(d, f)
  <2>1. /\ task[d][f] = "queued"
        /\ task' = [task EXCEPT ![d][f] = "running"]
    BY <1>4 DEF RunTask
  <2>2. PipelineType'
    BY <1>2, <2>1 DEF PipelineType, TaskStates, Length
  <2>3. PoolsAreEmptied'
    BY <1>2, <2>1 DEF PoolsAreEmptied, PipelineType
  <2> QED
    BY <1>3, <2>2, <2>3
<1>5. CASE EndTask(d, f)
  <2>1. PICK outcome \in {"done", "error"} : task' = [task EXCEPT ![d][f] = outcome]
    BY <1>5 DEF EndTask
  <2>2. PipelineType'
    BY <1>2, <2>1 DEF PipelineType, TaskStates, Length
  <2>3. PoolsAreEmptied'
    <3> SUFFICES ASSUME NEW c \in Detectors, NEW g \in Frames
                 PROVE  task'[c][g] = task[c][g] \/ task'[c][g] \in {"done", "error"}
      BY <1>2 DEF PoolsAreEmptied
    <3> QED
      BY <2>1 DEF PipelineType
  <2> QED
    BY <1>3, <2>2, <2>3
<1> QED
  BY <1>1, <1>4, <1>5

\* Nor do the other steps of the flow touch it.
LEMMA PipelineRests ==
    ASSUME PipelineInv, UNCHANGED pipelineVars
    PROVE  PipelineInv'
BY DEF pipelineVars, PipelineInv, PipelineType, NothingPassedOver, LeftAtTheEnd,
       PoolsAreEmptied, InFlight, Sampled, Estimated, Length

(***************************************************************************)
(* The sampling loop keeps its invariant whatever the pools and the rest   *)
(* of the flow do.                                                         *)
(***************************************************************************)
THEOREM PipelineInvariant == Spec => []PipelineInv
<1>1. Init => PipelineInv
  BY PipelineStarts DEF Init
<1>2. PipelineInv /\ [Next]_vars => PipelineInv'
  <2> SUFFICES ASSUME PipelineInv, [Next]_vars PROVE PipelineInv'
    OBVIOUS
  <2>1. CASE Detect
    BY <2>1, SubmitStep, ConsumeStep, OtherLoopSteps, PoolSteps DEF Detect, Loop
  <2>2. CASE UNCHANGED pipelineVars
    BY <2>2, PipelineRests
  <2>3. Detect \/ UNCHANGED pipelineVars
    BY DEF vars, Next, Link, Store, Review, Edit, Trim, Extend, Move, BeginExport, Export
  <2> QED
    BY <2>1, <2>2, <2>3
<1> QED
  BY <1>1, <1>2, PTL DEF Spec

(***************************************************************************)
(* Once the loop was left no detector runs or will, so the proxy may be    *)
(* closed and replaced.                                                    *)
(***************************************************************************)
THEOREM DetectorsEndWithTheLoop == Spec => []NoDetectorOutlivesTheLoop
<1>1. PipelineInv => NoDetectorOutlivesTheLoop
  BY DEF PipelineInv, PipelineType, PipelinePhases, PoolsAreEmptied,
         NoDetectorOutlivesTheLoop, Waiting
<1> QED
  BY <1>1, PipelineInvariant, PTL

(***************************************************************************)
(* Never as many frames in a row as the sampling leaves between two are    *)
(* passed over, and the last frame is analysed unless the header promised  *)
(* more.                                                                   *)
(***************************************************************************)
THEOREM NoTailIsSkipped == Spec => []TheTailIsAnalysed
<1>1. PipelineInv => TheTailIsAnalysed
  <2> SUFFICES ASSUME PipelineInv, phase = "linking", ~cut
               PROVE  /\ \A f \in 0..(Length - 1) : \E g \in analysed : g \in (f - SampleEvery + 1)..f
                      /\ Estimated <= Length => Length - 1 \in analysed
    BY DEF TheTailIsAnalysed, PipelineInv, PipelineType
  <2>1. decoded = Length /\ pending = <<>> /\ InFlight = {}
    BY DEF PipelineInv, LeftAtTheEnd, InFlight
  <2>2. Length \in Nat /\ Estimated \in Nat \ {0} /\ SampleEvery \in Nat \ {0}
    BY ClipType, PipelineAssumption DEF PipelineInv, PipelineType
  <2>3. \A g \in 0..(Length - 1) : Sampled(g) => g \in analysed
    BY <2>1 DEF PipelineInv, NothingPassedOver
  <2>4. ASSUME NEW f \in 0..(Length - 1)
        PROVE  \E g \in analysed : g \in (f - SampleEvery + 1)..f
    <3>1. PICK g \in 0..f : g % SampleEvery = 0 /\ f - SampleEvery + 1 <= g
      <4>1. f \in Nat
        BY <2>2
      <4> QED
        BY <2>2, <4>1, MultipleWithin
    <3>2. g \in analysed
      BY <2>2, <2>3, <3>1 DEF Sampled
    <3> QED
      BY <2>2, <3>1, <3>2
  <2>5. Estimated <= Length => Length - 1 \in analysed
    BY <2>2, <2>3 DEF Sampled
  <2> QED
    BY <2>4, <2>5
<1> QED
  BY <1>1, PipelineInvariant, PTL

-----------------------------------------------------------------------------
(* Sums and means, by the function with which the library folds a set.     *)

\* The function by which the library sums the places of the points in a set.
IsSum(iter, points, S) ==
    iter = [s \in SUBSET S |->
               IF s = {} THEN 0
               ELSE points[CHOOSE x \in s : TRUE].at + iter[s \ {CHOOSE x \in s : TRUE}]]

\* It is defined on the subsets of at most k members.
SumsUpTo(g, points, S, k) ==
    \A s \in SUBSET S : Cardinality(s) <= k =>
        g[s] = IF s = {} THEN 0
               ELSE points[CHOOSE x \in s : TRUE].at + g[s \ {CHOOSE x \in s : TRUE}]

\* A set without the member chosen from it.
LEMMA OneLess ==
    ASSUME NEW S, IsFiniteSet(S), NEW s \in SUBSET S, s # {},
           NEW r, r = s \ {CHOOSE x \in s : TRUE}
    PROVE  /\ r \in SUBSET S /\ Cardinality(s) \in Nat \ {0}
           /\ Cardinality(r) = Cardinality(s) - 1
           /\ (CHOOSE x \in s : TRUE) \in s
<1>1. IsFiniteSet(s)
  BY FS_Subset
<1>2. (CHOOSE x \in s : TRUE) \in s
  OBVIOUS
<1> DEFINE c == CHOOSE x \in s : TRUE
<1> HIDE DEF c
<1>3. Cardinality(s \ {c}) = Cardinality(s) - 1
  <2>1. c \in s
    BY <1>2 DEF c
  <2> QED
    BY <1>1, <2>1, FS_RemoveElement
<1>4. Cardinality(s) \in Nat \ {0}
  BY <1>1, FS_CardinalityType, FS_EmptySet
<1> QED
  BY <1>2, <1>3, <1>4 DEF c

\* By a least number of members up to which no function adds.
LEMMA SumIsDefined ==
    ASSUME NEW points, NEW S, IsFiniteSet(S)
    PROVE  \E iter : IsSum(iter, points, S)
<1> DEFINE Defined(k) == \E g : SumsUpTo(g, points, S, k)
           T == {k \in Nat : ~Defined(k)}
           At(s) == points[CHOOSE x \in s : TRUE].at
           Less(s) == s \ {CHOOSE x \in s : TRUE}
<1>1. \A s \in SUBSET S : Cardinality(s) \in Nat /\ Cardinality(s) <= Cardinality(S)
  <2> TAKE s \in SUBSET S
  <2> QED
    BY FS_Subset, FS_CardinalityType
<1>2. T = {}
  <2> SUFFICES ASSUME T # {} PROVE FALSE
    OBVIOUS
  <2>1. PICK k \in T : \A j \in T : k <= j
    <3>1. T \in SUBSET Nat
      OBVIOUS
    <3> HIDE DEF T
    <3> QED
      BY <3>1, LeastNatural
  <2>2. k \in Nat /\ ~Defined(k)
    BY <2>1
  <2>3. CASE k = 0
    <3> DEFINE g == [s \in SUBSET S |-> 0]
    <3>1. ASSUME NEW s \in SUBSET S, Cardinality(s) <= 0 PROVE g[s] = 0 /\ s = {}
      <4>1. IsFiniteSet(s)
        BY FS_Subset
      <4> QED
        BY <1>1, <3>1, <4>1, FS_EmptySet
    <3>2. SumsUpTo(g, points, S, 0)
      BY <3>1 DEF SumsUpTo
    <3> QED
      BY <2>2, <2>3, <3>2
  <2>4. CASE k # 0
    <3>1. k - 1 \in Nat /\ ~(k <= k - 1)
      BY <2>2, <2>4
    <3>2. Defined(k - 1)
      <4>1. k - 1 \notin T
        <5> HIDE DEF T
        <5> QED
          BY <2>1, <3>1
      <4> HIDE DEF Defined
      <4> QED
        BY <3>1, <4>1
    <3>3. PICK g : SumsUpTo(g, points, S, k - 1)
      BY <3>2
    <3> DEFINE h == [s \in SUBSET S |-> IF s = {} THEN 0 ELSE At(s) + g[Less(s)]]
    <3>4. \A s \in SUBSET S : Cardinality(s) <= k - 1 => h[s] = g[s]
      BY <3>3 DEF SumsUpTo
    <3>5. \A s \in SUBSET S : Cardinality(s) <= k /\ s # {} => h[Less(s)] = g[Less(s)]
      <4> SUFFICES ASSUME NEW s \in SUBSET S, Cardinality(s) <= k, s # {}
                   PROVE  h[Less(s)] = g[Less(s)]
        OBVIOUS
      <4>1. Less(s) \in SUBSET S /\ Cardinality(Less(s)) = Cardinality(s) - 1
        BY OneLess
      <4>2. Cardinality(Less(s)) <= k - 1
        <5> HIDE DEF Less
        <5> QED
          BY <1>1, <2>2, <4>1
      <4> HIDE DEF h, Less
      <4> QED
        BY <3>4, <4>1, <4>2
    <3>6. \A s \in SUBSET S : Cardinality(s) <= k =>
              h[s] = IF s = {} THEN 0 ELSE At(s) + h[Less(s)]
      <4>1. \A s \in SUBSET S : h[s] = IF s = {} THEN 0 ELSE At(s) + g[Less(s)]
        OBVIOUS
      <4> HIDE DEF h, Less, At
      <4> QED
        BY <3>5, <4>1
    <3>7. SumsUpTo(h, points, S, k)
      <4> HIDE DEF h
      <4> QED
        BY <3>6 DEF SumsUpTo
    <3> QED
      BY <2>2, <3>7
  <2> QED
    BY <2>3, <2>4
<1>3. PICK g : SumsUpTo(g, points, S, Cardinality(S))
  <2>1. Cardinality(S) \in Nat
    BY FS_CardinalityType
  <2>2. Defined(Cardinality(S))
    <3> HIDE DEF Defined
    <3> QED
      BY <1>2, <2>1
  <2> QED
    BY <2>2
<1> DEFINE iter == [s \in SUBSET S |-> g[s]]
<1>4. \A s \in SUBSET S : iter[s] = IF s = {} THEN 0 ELSE At(s) + iter[Less(s)]
  <2> TAKE s \in SUBSET S
  <2>1. g[s] = IF s = {} THEN 0 ELSE At(s) + g[Less(s)]
    BY <1>1, <1>3 DEF SumsUpTo
  <2> QED
    BY <2>1
<1>5. iter = [s \in SUBSET S |-> IF s = {} THEN 0 ELSE At(s) + iter[Less(s)]]
  <2>1. iter = [s \in SUBSET S |-> iter[s]]
    OBVIOUS
  <2> HIDE DEF iter, At, Less
  <2> QED
    BY <1>4, <2>1
<1> QED
  BY <1>5 DEF IsSum

\* The sum of the places of the points in S, as in Mean.
Total(points, S) == MapThenSumSet(LAMBDA j : points[j].at, S)

\* The library's sum is the value of that function.
LEMMA SumUnfolds ==
    ASSUME NEW points, NEW S, IsFiniteSet(S)
    PROVE  \E iter : IsSum(iter, points, S) /\ Total(points, S) = iter[S]
<1> DEFINE iter == CHOOSE g : g = [s \in SUBSET S |->
                       IF s = {} THEN 0
                       ELSE points[CHOOSE x \in s : TRUE].at + g[s \ {CHOOSE x \in s : TRUE}]]
<1>1. Total(points, S) = iter[S]
  BY DEF Total, MapThenSumSet, MapThenFoldSet
<1>2. \E g : IsSum(g, points, S)
  BY SumIsDefined
<1>3. IsSum(iter, points, S)
  BY <1>2 DEF IsSum
<1> QED
  BY <1>1, <1>3

\* The sum of numbers between two bounds.
LEMMA SumWithin ==
    ASSUME NEW points, NEW S, IsFiniteSet(S), NEW lo \in Int, NEW hi \in Int,
           \A j \in S : points[j].at \in Int /\ lo <= points[j].at /\ points[j].at <= hi,
           NEW sum, sum = Total(points, S)
    PROVE  sum \in Int /\ Cardinality(S) * lo <= sum /\ sum <= Cardinality(S) * hi
<1>1. PICK iter : IsSum(iter, points, S) /\ sum = iter[S]
  BY SumUnfolds
<1> DEFINE Within(s) == iter[s] \in Int /\ Cardinality(s) * lo <= iter[s] /\ iter[s] <= Cardinality(s) * hi
           T == {Cardinality(s) : s \in {r \in SUBSET S : ~Within(r)}}
<1>2. T = {}
  <2> SUFFICES ASSUME T # {} PROVE FALSE
    OBVIOUS
  <2>1. T \in SUBSET Nat
    <3>1. \A s \in SUBSET S : Cardinality(s) \in Nat
      BY FS_Subset, FS_CardinalityType
    <3> HIDE DEF Within
    <3> QED
      BY <3>1
  <2>2. PICK n \in T : \A k \in T : n <= k
    <3> HIDE DEF T
    <3> QED
      BY <2>1, LeastNatural
  <2>3. PICK s \in SUBSET S : Cardinality(s) = n /\ ~Within(s)
    BY <2>2
  <2>4. CASE s = {}
    <3>1. iter[s] = 0 /\ Cardinality(s) = 0
      BY <1>1, <2>4, FS_EmptySet DEF IsSum
    <3> QED
      BY <2>3, <3>1
  <2>5. CASE s # {}
    <3> DEFINE c == CHOOSE x \in s : TRUE
               r == s \ {CHOOSE x \in s : TRUE}
               m == Cardinality(s)
    <3>1. /\ r \in SUBSET S /\ m \in Nat \ {0} /\ Cardinality(r) = m - 1 /\ c \in s
      <4>1. /\ r \in SUBSET S /\ Cardinality(s) \in Nat \ {0}
            /\ Cardinality(r) = Cardinality(s) - 1 /\ c \in s
        <5> HIDE DEF Within
        <5> QED
          BY <2>5, OneLess
      <4> QED
        BY <4>1
    <3>2. iter[s] = points[c].at + iter[r]
      BY <1>1, <2>5 DEF IsSum
    <3>3. points[c].at \in Int /\ lo <= points[c].at /\ points[c].at <= hi
      BY <3>1
    <3> HIDE DEF c, r
    <3>4. Within(r)
      <4> SUFFICES ASSUME ~Within(r) PROVE FALSE
        OBVIOUS
      <4>1. Cardinality(r) \in T
        BY <3>1
      <4> HIDE DEF T
      <4> QED
        BY <2>1, <2>2, <2>3, <3>1, <4>1
    <3> DEFINE here == points[c].at
               rest == iter[r]
               low == (m - 1) * lo
               high == (m - 1) * hi
    <3>5. rest \in Int /\ low <= rest /\ rest <= high
      BY <3>1, <3>4
    <3> HIDE DEF m
    <3>6. m * lo = low + lo /\ m * hi = high + hi /\ low \in Int /\ high \in Int
      <4>1. \A x \in Int, k \in Nat : k * x = (k - 1) * x + x /\ (k - 1) * x \in Int
        OBVIOUS
      <4> QED
        BY <3>1, <4>1
    <3> HIDE DEF low, high, rest, here
    <3>7. here + rest \in Int /\ low + lo <= here + rest /\ here + rest <= high + hi
      BY <3>3, <3>5, <3>6 DEF here
    <3>8. Within(s)
      BY <3>2, <3>6, <3>7 DEF m, here, rest
    <3> QED
      BY <2>3, <3>8
  <2> QED
    BY <2>4, <2>5
<1>3. Within(S)
  <2> SUFFICES ASSUME ~Within(S) PROVE FALSE
    OBVIOUS
  <2>1. Cardinality(S) \in T
    OBVIOUS
  <2> HIDE DEF T
  <2> QED
    BY <1>2, <2>1
<1> QED
  BY <1>1, <1>3

\* A mean lies between the bounds of what it is taken of.
LEMMA MeanWithin ==
    ASSUME NEW points, NEW S, IsFiniteSet(S), S # {}, NEW lo \in Int, NEW hi \in Int,
           \A j \in S : points[j].at \in Int /\ lo <= points[j].at /\ points[j].at <= hi
    PROVE  Mean(points, S) \in Int /\ lo <= Mean(points, S) /\ Mean(points, S) <= hi
<1> DEFINE sum == Total(points, S)
           n == Cardinality(S)
           q == sum \div n
<1>1. n \in Nat \ {0}
  BY FS_CardinalityType, FS_EmptySet
<1>2. sum \in Int /\ n * lo <= sum /\ sum <= n * hi
  BY SumWithin
<1>3. Mean(points, S) = q
  BY DEF Mean, Total
<1> HIDE DEF sum, n
<1>4. q \in Int /\ n * q <= sum /\ sum < n * q + n
  BY <1>1, <1>2
<1> HIDE DEF q
<1>5. ~(q < lo)
  <2> SUFFICES ASSUME q + 1 <= lo PROVE FALSE
    BY <1>4
  <2>1. n * (q + 1) <= n * lo
    BY <1>1, <1>4
  <2>2. n * (q + 1) = n * q + n /\ n * lo \in Int /\ n * q \in Int
    BY <1>1, <1>4
  <2> DEFINE a == n * q
             b == n * lo
             c == n * (q + 1)
  <2> HIDE DEF a, b, c
  <2>3. c <= b /\ c = a + n /\ a \in Int /\ b \in Int /\ b <= sum /\ sum < a + n
    BY <1>2, <1>4, <2>1, <2>2 DEF a, b, c
  <2> QED
    BY <1>1, <1>2, <2>3
<1>6. ~(hi < q)
  <2> SUFFICES ASSUME hi + 1 <= q PROVE FALSE
    BY <1>4
  <2>1. n * (hi + 1) <= n * q
    BY <1>1, <1>4
  <2>2. n * (hi + 1) = n * hi + n /\ n * hi \in Int /\ n * q \in Int
    BY <1>1, <1>4
  <2> DEFINE a == n * q
             b == n * hi
             c == n * (hi + 1)
  <2> HIDE DEF a, b, c
  <2>3. c <= a /\ c = b + n /\ a \in Int /\ b \in Int /\ sum <= b /\ a <= sum
    BY <1>2, <1>4, <2>1, <2>2 DEF a, b, c
  <2> QED
    BY <1>1, <1>2, <2>3
<1> QED
  BY <1>3, <1>4, <1>5, <1>6

-----------------------------------------------------------------------------
(* The points of a track, and its keyframes.                               *)

TrackPoints == [frame : Frames, at : Leftmost..Rightmost]

\* The observations of a track: one or more, in the order of their frames.
Advances(points) == points \in Seq(TrackPoints) /\ points # <<>> /\ Rising(points)

\* What a track's points are.
LEMMA PointTypes ==
    ASSUME NEW points, Advances(points)
    PROVE  /\ Len(points) \in Nat \ {0} /\ Last(points) = points[Len(points)]
           /\ \A k \in 1..Len(points) :
                  /\ points[k] \in TrackPoints
                  /\ points[k].frame \in Nat /\ points[k].frame \in Frames
                  /\ points[k].at \in Leftmost..Rightmost /\ points[k].at \in Nat
<1>1. Len(points) \in Nat \ {0} /\ \A k \in 1..Len(points) : points[k] \in TrackPoints
  BY DEF Advances
<1>2. Frames \subseteq Nat /\ Leftmost..Rightmost \subseteq Nat
  BY PipelineAssumption, TrackerAssumption DEF Frames
<1> QED
  BY <1>1, <1>2 DEF TrackPoints, Last

\* A point is in its window, and the window within the track.
LEMMA WindowAround ==
    ASSUME NEW points, Len(points) \in Nat, NEW j \in 1..Len(points)
    PROVE  /\ j \in Window(points, j) /\ Window(points, j) \subseteq 1..Len(points)
           /\ IsFiniteSet(Window(points, j))
<1> DEFINE n == Len(points)
           low == Max({1, j - 2})
           high == Min({n, j + 2})
<1>1. low \in 1..j
  <2>1. \E x \in {1, j - 2} : \A y \in {1, j - 2} : x >= y
    OBVIOUS
  <2>2. low \in {1, j - 2} /\ low >= 1 /\ low >= j - 2
    BY <2>1 DEF Max
  <2> HIDE DEF low
  <2> QED
    BY <2>2
<1>2. high \in j..n
  <2>1. \E x \in {n, j + 2} : \A y \in {n, j + 2} : x <= y
    OBVIOUS
  <2>2. high \in {n, j + 2} /\ high <= n /\ high <= j + 2
    BY <2>1 DEF Min
  <2> HIDE DEF high
  <2> QED
    BY <2>2
<1> HIDE DEF low, high
<1>3. low \in Int /\ high \in Int /\ j \in low..high /\ low..high \subseteq 1..n
  BY <1>1, <1>2
<1>4. IsFiniteSet(low..high)
  BY <1>3, FS_Interval
<1> QED
  BY <1>3, <1>4 DEF Window, low, high

\* Smoothing leaves the frames of the points alone, and a point within any
\* bounds of its window.
IsSmoothing(keys, points) ==
    /\ keys \in Seq(TrackPoints) /\ Len(keys) = Len(points)
    /\ \A j \in 1..Len(points) :
           /\ keys[j].frame = points[j].frame
           /\ \A lo, hi \in Int :
                 (\A k \in Window(points, j) : lo <= points[k].at /\ points[k].at <= hi)
                     => lo <= keys[j].at /\ keys[j].at <= hi

\* By the bounds of a mean; fewer than three points are not smoothed.
LEMMA SmoothedWithin ==
    ASSUME NEW points, Advances(points), NEW keys, keys = Smoothed(points)
    PROVE  IsSmoothing(keys, points)
<1> DEFINE n == Len(points)
<1>1. /\ n \in Nat \ {0} /\ DOMAIN points = 1..n
      /\ \A k \in 1..n : /\ points[k] \in TrackPoints /\ points[k].at \in Int
                         /\ points[k].at \in Leftmost..Rightmost
  BY PointTypes DEF Advances
<1>2. CASE n < 3
  <2>1. keys = points
    BY <1>2 DEF Smoothed
  <2>2. \A j \in 1..n : j \in Window(points, j)
    BY <1>1, WindowAround
  <2> QED
    BY <2>1, <2>2 DEF Advances, IsSmoothing
<1>3. CASE ~(n < 3)
  <2> DEFINE mean(j) == Mean(points, Window(points, j))
  <2>1. keys = [j \in 1..n |-> [points[j] EXCEPT !.at = mean(j)]]
    BY <1>1, <1>3 DEF Smoothed
  <2>2. \A j \in 1..n : \A lo, hi \in Int :
            (\A k \in Window(points, j) : lo <= points[k].at /\ points[k].at <= hi)
                => mean(j) \in Int /\ lo <= mean(j) /\ mean(j) <= hi
    <3> SUFFICES ASSUME NEW j \in 1..n, NEW lo \in Int, NEW hi \in Int,
                        \A k \in Window(points, j) : lo <= points[k].at /\ points[k].at <= hi
                 PROVE  mean(j) \in Int /\ lo <= mean(j) /\ mean(j) <= hi
      OBVIOUS
    <3>1. /\ Window(points, j) # {} /\ IsFiniteSet(Window(points, j))
          /\ \A k \in Window(points, j) : points[k].at \in Int
      BY <1>1, WindowAround
    <3> QED
      BY <3>1, MeanWithin
  <2>3. \A j \in 1..n : mean(j) \in Leftmost..Rightmost
    <3> TAKE j \in 1..n
    <3>1. Leftmost \in Int /\ Rightmost \in Int
      BY TrackerAssumption
    <3>2. \A k \in Window(points, j) : Leftmost <= points[k].at /\ points[k].at <= Rightmost
      BY <1>1, WindowAround
    <3>3. mean(j) \in Int /\ Leftmost <= mean(j) /\ mean(j) <= Rightmost
      BY <2>2, <3>1, <3>2
    <3> HIDE DEF mean
    <3> QED
      BY <3>1, <3>3
  <2> HIDE DEF mean
  <2>4. \A j \in 1..n : /\ keys[j] \in TrackPoints
                        /\ keys[j].frame = points[j].frame /\ keys[j].at = mean(j)
    <3> TAKE j \in 1..n
    <3>1. points[j] \in TrackPoints /\ mean(j) \in Leftmost..Rightmost
          /\ keys[j] = [points[j] EXCEPT !.at = mean(j)]
      BY <1>1, <2>1, <2>3
    <3> QED
      BY <3>1 DEF TrackPoints
  <2>5. keys \in Seq(TrackPoints) /\ Len(keys) = n
    <3> DEFINE key(j) == [points[j] EXCEPT !.at = mean(j)]
    <3>1. n \in Nat /\ keys = [j \in 1..n |-> key(j)] /\ \A j \in 1..n : keys[j] \in TrackPoints
      BY <1>1, <2>1, <2>4
    <3> HIDE DEF key, n
    <3> QED
      BY <3>1
  <2> QED
    BY <2>2, <2>4, <2>5 DEF IsSmoothing
<1> QED
  BY <1>1, <1>2, <1>3

\* A track is stored well formed, on from its first observation to its last.
LEMMA StoredIsWellFormed ==
    ASSUME NEW t, t.class \in STRING, Advances(t.points), NEW s, s = Stored(t)
    PROVE  /\ WellFormed(s) /\ s.first \in Frames /\ s.last \in Frames
           /\ s.first = t.points[1].frame /\ s.last = Last(t.points).frame
           /\ s.class = t.class /\ Shown(s)
           /\ s.keys = Smoothed(t.points) /\ Len(s.keys) = Len(t.points)
<1> DEFINE points == t.points
           n == Len(points)
           keys == Smoothed(points)
<1>1. /\ n \in Nat \ {0} /\ Last(points) = points[n] /\ Frames \subseteq Nat
      /\ \A k \in 1..n : points[k].frame \in Nat /\ points[k].frame \in Frames
  BY PointTypes, PipelineAssumption DEF Frames
<1>2. /\ keys \in Seq(TrackPoints) /\ Len(keys) = n
      /\ \A j \in 1..n : keys[j].frame = points[j].frame
  BY SmoothedWithin DEF IsSmoothing
<1>3. TrackPoints \subseteq Keyframes
  BY PipelineAssumption, TrackerAssumption DEF TrackPoints, Keyframes, Frames
<1>4. keys \in Seq(Keyframes) /\ keys # <<>>
  BY <1>1, <1>2, <1>3
<1>5. \A j, k \in 1..n : j < k => points[j].frame < points[k].frame
  BY DEF Advances, Rising
<1>6. \A k \in 1..n : points[1].frame <= points[k].frame /\ points[k].frame <= points[n].frame
  <2> TAKE k \in 1..n
  <2>1. 1 \in 1..n /\ n \in 1..n /\ (k = 1 \/ 1 < k) /\ (k = n \/ k < n)
    BY <1>1
  <2> HIDE DEF points, n
  <2> QED
    BY <1>1, <1>5, <2>1
<1>7. s = [class |-> t.class, first |-> points[1].frame, last |-> points[n].frame,
           active |-> TRUE, redacted |-> TRUE, keys |-> keys]
  BY <1>1 DEF Stored
<1> HIDE DEF points, keys, n
<1>8. 1 \in 1..n /\ n \in 1..n
  BY <1>1
<1>9. s \in TrackRecords
  BY <1>1, <1>4, <1>7, <1>8 DEF TrackRecords
<1>10. Rising(keys)
  BY <1>2, <1>5 DEF Rising
<1>11. WellFormed(s)
  BY <1>1, <1>2, <1>4, <1>6, <1>7, <1>8, <1>9, <1>10 DEF WellFormed
<1> QED
  BY <1>1, <1>2, <1>7, <1>8, <1>11 DEF Shown, points, keys, n

-----------------------------------------------------------------------------
(* Lists.                                                                  *)

\* A listing of a finite set has each member once.
LEMMA ListingOfSet ==
    ASSUME NEW S, IsFiniteSet(S), NEW s, s = SetToSeq(S)
    PROVE  /\ s \in Seq(S)
           /\ \A i, j \in 1..Len(s) : s[i] = s[j] => i = j
           /\ \A x \in S : \E i \in 1..Len(s) : s[i] = x
<1> DEFINE n == Cardinality(S)
<1>1. n \in Nat /\ ExistsBijection(1..n, S)
  BY FS_CardinalityType
<1>2. PICK b \in [1..n -> S] : b \in Injection(1..n, S)
  BY <1>1 DEF ExistsBijection, Bijection, Injection
<1>3. IsInjective(b)
  BY <1>2 DEF Injection, IsInjective
<1>4. s \in [1..n -> S] /\ IsInjective(s)
  BY <1>2, <1>3 DEF SetToSeq
<1>5. s \in Injection(1..n, S)
  BY <1>4 DEF Injection, IsInjective
<1>6. IsFiniteSet(1..n) /\ Cardinality(1..n) = n
  BY <1>1, FS_Interval
<1>7. s \in Surjection(1..n, S)
  BY <1>5, <1>6, FS_Injection
<1> HIDE DEF n
<1>8. s \in Seq(S) /\ Len(s) = n
  BY <1>1, <1>4
<1> QED
  BY <1>4, <1>7, <1>8 DEF Surjection, IsInjective

\* A concatenation has the members of both.
LEMMA Concatenation ==
    ASSUME NEW E, NEW s \in Seq(E), NEW t \in Seq(E)
    PROVE  /\ s \o t \in Seq(E) /\ Len(s \o t) = Len(s) + Len(t)
           /\ \A i \in 1..Len(s) : (s \o t)[i] = s[i]
           /\ \A i \in 1..Len(t) : (s \o t)[Len(s) + i] = t[i]
<1>1. s \o t \in Seq(E) /\ Len(s \o t) = Len(s) + Len(t)
  OBVIOUS
<1>2. \A i \in 1..Len(s) : (s \o t)[i] = s[i]
  OBVIOUS
<1>3. ASSUME NEW i \in 1..Len(t) PROVE (s \o t)[Len(s) + i] = t[i]
  <2>1. Len(s) \in Nat /\ Len(t) \in Nat /\ i \in Nat
    OBVIOUS
  <2> DEFINE k == Len(s) + i
  <2>2. k \in 1..(Len(s) + Len(t)) /\ ~(k <= Len(s)) /\ k - Len(s) = i
    BY <2>1
  <2>3. (s \o t)[k] = t[k - Len(s)]
    BY <2>2
  <2> QED
    BY <2>2, <2>3
<1> QED
  BY <1>1, <1>2, <1>3

-----------------------------------------------------------------------------
(* One frame of the tracker.                                               *)

\* What a detector reports, and what the tracker keeps of it.
Detections == [class : STRING, at : Leftmost..Rightmost, sure : BOOLEAN]

Tracks == [class : STRING, points : Seq(TrackPoints)]

\* The confident detections that no track was given.
Fresh(kept, m) == {d \in kept : d.sure /\ \A p \in m : p[2] # d}

\* The track that begins with d.
Begun(d, f) == [class |-> d.class, points |-> <<Point(d, f)>>]

\* What an association is, whatever the costs were.
LEMMA AssociationIsOneToOne ==
    ASSUME NEW found, NEW kept, NEW f, NEW m \in Associations(found, kept, f)
    PROVE  /\ \A p \in m : /\ p = <<p[1], p[2]>> /\ p[1] \in Active(found, f) /\ p[2] \in kept
                           /\ Candidate(found[p[1]], p[2], f)
           /\ \A p, q \in m : p[1] = q[1] \/ p[2] = q[2] => p = q
           /\ \A i \in Active(found, f), d \in kept :
                  d.sure /\ Candidate(found[i], d, f) /\ (\A p \in m : p[2] # d)
                      => \E p \in m : p[1] = i /\ p[2].sure
<1> DEFINE sure == {d \in kept : d.sure}
           active == Active(found, f)
           firsts(a) == {p[1] : p \in a}
<1>1. PICK a \in Matchings(found, active, sure, f) :
          \E b \in Matchings(found, active \ firsts(a), kept \ sure, f) : m = a \cup b
  BY DEF Associations
<1>2. PICK b \in Matchings(found, active \ firsts(a), kept \ sure, f) : m = a \cup b
  BY <1>1
<1>3. \A p \in a : p = <<p[1], p[2]>> /\ p[1] \in active /\ p[2] \in sure /\ Candidate(found[p[1]], p[2], f)
  BY DEF Matchings
<1>4. \A p \in b : /\ p = <<p[1], p[2]>> /\ p[1] \in active \ firsts(a) /\ p[2] \in kept \ sure
                   /\ Candidate(found[p[1]], p[2], f)
  BY DEF Matchings
<1>5. \A p, q \in a : p[1] = q[1] \/ p[2] = q[2] => p = q
  BY DEF Matchings
<1>6. \A p, q \in b : p[1] = q[1] \/ p[2] = q[2] => p = q
  BY DEF Matchings
<1>7. ASSUME NEW i \in active, NEW d \in kept, d.sure, Candidate(found[i], d, f),
             \A p \in m : p[2] # d
      PROVE  \E p \in m : p[1] = i /\ p[2].sure
  <2>1. <<i, d>> \in {p \in active \X sure : Candidate(found[p[1]], p[2], f)} \ a
    BY <1>2, <1>7
  <2>2. PICK q \in a : q[1] = i \/ q[2] = d
    BY <2>1 DEF Matchings
  <2> QED
    BY <1>2, <1>3, <1>7, <2>2
<1> HIDE DEF sure, active
<1>8. \A p \in a, q \in b : p[1] # q[1] /\ p[2] # q[2]
  BY <1>3, <1>4
<1> QED
  BY <1>2, <1>3, <1>4, <1>5, <1>6, <1>7, <1>8 DEF sure, active

\* The tracks after a frame: the first n, some a point longer, then those that
\* begin.
IsUpdate(new, found, n, kept, m, f) ==
    /\ Len(new) \in Nat /\ n <= Len(new) /\ new = [i \in 1..Len(new) |-> new[i]]
    /\ \A p \in m : p[1] \in 1..n =>
           new[p[1]] = [found[p[1]] EXCEPT !.points = Append(@, Point(p[2], f))]
    /\ \A i \in 1..n : (\A p \in m : p[1] # i) => new[i] = found[i]
    /\ \A i \in (n + 1)..Len(new) : \E d \in Fresh(kept, m) : new[i] = Begun(d, f)
    /\ \A d \in Fresh(kept, m) : \E i \in (n + 1)..Len(new) : new[i] = Begun(d, f)
    /\ \A i, j \in (n + 1)..Len(new) : new[i] = new[j] => i = j

\* From the definition of Updated, for any choice m of the association.
LEMMA UpdatedHas ==
    ASSUME NEW found, NEW n \in Nat, n = Len(found), DOMAIN found = 1..n,
           NEW kept, IsFiniteSet(kept), NEW m, NEW f,
           \A p, q \in m : p[1] = q[1] => p = q,
           NEW new, new = Updated(found, kept, m, f)
    PROVE  IsUpdate(new, found, n, kept, m, f)
<1> DEFINE Grown(i) == IF \E p \in m : p[1] = i
                       THEN [found[i] EXCEPT !.points =
                                Append(@, Point((CHOOSE p \in m : p[1] = i)[2], f))]
                       ELSE found[i]
           old == [i \in 1..n |-> Grown(i)]
           born == {Begun(d, f) : d \in Fresh(kept, m)}
           rest == SetToSeq(born)
<1>1. new = old \o rest
  BY DEF Updated, Begun, Fresh
<1>2. IsFiniteSet(born)
  <2>1. IsFiniteSet(Fresh(kept, m))
    BY FS_Subset DEF Fresh
  <2> DEFINE start == [d \in Fresh(kept, m) |-> Begun(d, f)]
  <2>2. start \in Surjection(Fresh(kept, m), born)
    BY DEF Surjection
  <2> QED
    BY <2>1, <2>2, FS_Surjection
<1> HIDE DEF born
<1>3. /\ rest \in Seq(born)
      /\ \A i, j \in 1..Len(rest) : rest[i] = rest[j] => i = j
      /\ \A x \in born : \E i \in 1..Len(rest) : rest[i] = x
  BY <1>2, ListingOfSet
<1> HIDE DEF rest
<1>4. Len(rest) \in Nat /\ \A i \in 1..Len(rest) : rest[i] \in born
  BY <1>3
<1>5. /\ Len(new) = n + Len(rest) /\ new = [i \in 1..Len(new) |-> new[i]]
      /\ \A i \in 1..n : new[i] = Grown(i)
      /\ \A i \in 1..Len(rest) : new[n + i] = rest[i]
  <2> DEFINE all == {Grown(i) : i \in 1..n} \cup born
  <2> HIDE DEF Grown
  <2>1. old \in Seq(all) /\ Len(old) = n /\ \A i \in 1..n : old[i] = Grown(i)
    OBVIOUS
  <2>2. rest \in Seq(all)
    BY <1>3
  <2> HIDE DEF old, all
  <2>3. /\ new \in Seq(all) /\ Len(new) = Len(old) + Len(rest)
        /\ \A i \in 1..Len(old) : new[i] = old[i]
        /\ \A i \in 1..Len(rest) : new[Len(old) + i] = rest[i]
    <3>1. old \in Seq(all) /\ rest \in Seq(all)
      BY <2>1, <2>2
    <3>2. /\ old \o rest \in Seq(all) /\ Len(old \o rest) = Len(old) + Len(rest)
          /\ \A i \in 1..Len(old) : (old \o rest)[i] = old[i]
          /\ \A i \in 1..Len(rest) : (old \o rest)[Len(old) + i] = rest[i]
      BY <3>1, Concatenation
    <3> QED
      BY <1>1, <3>2
  <2> QED
    BY <2>1, <2>3
<1>6. \A i \in (n + 1)..Len(new) : i - n \in 1..Len(rest) /\ new[i] = rest[i - n]
  <2> TAKE i \in (n + 1)..Len(new)
  <2>1. i - n \in 1..Len(rest) /\ n + (i - n) = i
    BY <1>4, <1>5
  <2> QED
    BY <1>5, <2>1
<1>7. ASSUME NEW p \in m, p[1] \in 1..n
      PROVE  new[p[1]] = [found[p[1]] EXCEPT !.points = Append(@, Point(p[2], f))]
  <2>1. (CHOOSE q \in m : q[1] = p[1]) = p
    OBVIOUS
  <2> QED
    BY <1>5, <1>7, <2>1
<1>8. \A i \in 1..n : (\A p \in m : p[1] # i) => new[i] = found[i]
  BY <1>5
<1> HIDE DEF Grown, old
<1>9. \A i \in (n + 1)..Len(new) : \E d \in Fresh(kept, m) : new[i] = Begun(d, f)
  BY <1>4, <1>6 DEF born
<1>10. ASSUME NEW d \in Fresh(kept, m)
       PROVE  \E i \in (n + 1)..Len(new) : new[i] = Begun(d, f)
  <2>1. PICK k \in 1..Len(rest) : rest[k] = Begun(d, f)
    BY <1>3 DEF born
  <2>2. n + k \in (n + 1)..Len(new) /\ new[n + k] = rest[k]
    BY <1>4, <1>5
  <2> QED
    BY <2>1, <2>2
<1>11. ASSUME NEW i \in (n + 1)..Len(new), NEW j \in (n + 1)..Len(new), new[i] = new[j]
       PROVE  i = j
  <2> DEFINE k == i - n
             l == j - n
  <2>1. k = l
    <3>1. k \in 1..Len(rest) /\ l \in 1..Len(rest) /\ new[i] = rest[k] /\ new[j] = rest[l]
      BY <1>6
    <3> HIDE DEF k, l
    <3> QED
      BY <1>3, <1>11, <3>1, ZenonT(30)
  <2> QED
    BY <1>4, <1>5, <2>1
<1>12. Len(new) \in Nat /\ n <= Len(new)
  BY <1>4, <1>5
<1> QED
  BY <1>5, <1>7, <1>8, <1>9, <1>10, <1>11, <1>12 DEF IsUpdate

-----------------------------------------------------------------------------
(***************************************************************************)
(* The inductive invariant of the tracker, while it takes the analysed     *)
(* frames one by one.  It says more than TracksOweToDetections: that       *)
(* frames are taken in order and no track reaches beyond the last one,     *)
(* without which a point appended could be earlier than the one before it  *)
(* or in a frame that was seen already; and it speaks of tracks by index,  *)
(* since that no two tracks have an observation in common is what keeps    *)
(* the tracks distinct at all.                                             *)
(***************************************************************************)

\* Frames are taken in order, once all were analysed.
LinkedInOrder ==
    /\ linked \subseteq analysed /\ (linked # {} => phase = "linking")
    /\ \A g \in linked, f \in analysed \ linked : g < f

\* A track has points, in frames that were taken, in their order.
TracksAdvance ==
    /\ tracks \in Seq(Tracks)
    /\ \A i \in 1..Len(tracks) :
           /\ Advances(tracks[i].points)
           /\ \A k \in 1..Len(tracks[i].points) : tracks[i].points[k].frame \in linked

\* The track has a point where and when d was seen.
Observes(t, d) ==
    /\ t.class = d.class
    /\ \E k \in 1..Len(t.points) : t.points[k] = [frame |-> d.frame, at |-> d.at]

\* A sure detection that was kept is a point of exactly one track.
OneTrackEach ==
    \A d \in owed :
        /\ d.frame \in linked
        /\ \E i \in 1..Len(tracks) : Observes(tracks[i], d)
        /\ \A i, j \in 1..Len(tracks) : Observes(tracks[i], d) /\ Observes(tracks[j], d) => i = j

\* Every track begins with one.
BegunSure ==
    \A i \in 1..Len(tracks) : \E d \in owed :
        /\ d.class = tracks[i].class
        /\ d.frame = tracks[i].points[1].frame /\ d.at = tracks[i].points[1].at

\* Between two points of a track are at most MaxGap frames.
NeverLost ==
    \A i \in 1..Len(tracks) : \A k \in 1..(Len(tracks[i].points) - 1) :
        tracks[i].points[k + 1].frame - tracks[i].points[k].frame - 1 <= MaxGap

\* The track as it was before its n-th point.
Until(t, n) == [t EXCEPT !.points = SubSeq(@, 1, n - 1)]

\* No track goes on with a doubtful detection in a frame where one begins that
\* could have continued it.
DoubtsYield ==
    \A i, j \in 1..Len(tracks) : \A n \in 2..Len(tracks[i].points) :
        LET t == tracks[i]
            u == tracks[j]
            point == t.points[n]
        IN  /\ [class |-> t.class, frame |-> point.frame, at |-> point.at] \notin owed
            /\ u.points[1].frame = point.frame
            => ~Candidate(Until(t, n), [class |-> u.class, at |-> u.points[1].at, sure |-> TRUE], point.frame)

TrackerInv == LinkedInOrder /\ TracksAdvance /\ OneTrackEach /\ BegunSure /\ NeverLost /\ DoubtsYield

\* What the tracker does with a frame, once its detections are known.
Taken(f, kept, m) ==
    /\ f \in analysed \ linked /\ (\A g \in linked : g < f) /\ (\A g \in analysed \ linked : f <= g)
    /\ kept \subseteq Detections /\ IsFiniteSet(kept)
    /\ \A d, e \in kept : Duplicates(d, e) => d = e
    /\ m \in Associations(tracks, kept, f)
    /\ tracks' = Updated(tracks, kept, m, f)
    /\ linked' = linked \cup {f}
    /\ owed' = owed \cup {[frame |-> f, class |-> d.class, at |-> d.at] : d \in {e \in kept : e.sure}}

\* The tracker's step, as the lemmas below speak of it.
LEMMA LinkTakes ==
    ASSUME LinkedInOrder, analysed \subseteq Frames, Link
    PROVE  \E f, kept, m : Taken(f, kept, m)
<1> DEFINE f == Min(analysed \ linked)
<1>1. f \in analysed \ linked /\ \A g \in analysed \ linked : f <= g
  <2>1. linked \subseteq analysed /\ linked # analysed
    BY DEF Link, LinkedInOrder
  <2>2. analysed \ linked # {}
    BY <2>1
  <2>3. analysed \ linked \in SUBSET Nat
    <3>1. Frames \subseteq Nat
      BY PipelineAssumption DEF Frames
    <3> QED
      BY <3>1
  <2> QED
    BY <2>2, <2>3, MinIsLeast
<1>2. PICK found \in Sightings[f] : \E kept \in Suppressed(found) :
          \E m \in Associations(tracks, kept, f) :
              /\ tracks' = Updated(tracks, kept, m, f)
              /\ linked' = linked \cup {f}
              /\ owed' = owed \cup {[frame |-> f, class |-> d.class, at |-> d.at] :
                                       d \in {e \in kept : e.sure}}
  BY DEF Link
<1>3. PICK kept \in Suppressed(found) :
          \E m \in Associations(tracks, kept, f) :
              /\ tracks' = Updated(tracks, kept, m, f)
              /\ linked' = linked \cup {f}
              /\ owed' = owed \cup {[frame |-> f, class |-> d.class, at |-> d.at] :
                                       d \in {e \in kept : e.sure}}
  BY <1>2
<1> HIDE DEF f
<1>4. found \subseteq Detections /\ IsFiniteSet(found)
  <2>1. f \in Frames
    BY <1>1
  <2>2. Sightings[f] \in SUBSET SUBSET Detections /\ IsFiniteSet(found)
    BY <2>1, FlowAssumption DEF Detections
  <2> QED
    BY <2>2
<1>5. kept \subseteq found /\ \A d, e \in kept : Duplicates(d, e) => d = e
  BY DEF Suppressed
<1>6. IsFiniteSet(kept)
  BY <1>4, <1>5, FS_Subset
<1>7. \A g \in linked : g < f
  BY <1>1 DEF LinkedInOrder
<1> QED
  BY <1>1, <1>3, <1>4, <1>5, <1>6, <1>7 DEF Taken

\* Two confident detections of a class are not at one place.
LEMMA KeptApart ==
    ASSUME NEW kept, kept \subseteq Detections, \A d, e \in kept : Duplicates(d, e) => d = e,
           NEW d \in kept, NEW e \in kept, d.class = e.class, d.at = e.at
    PROVE  d = e
<1>1. d.at \in Nat /\ Duplicate \in Nat \ {0}
  BY TrackerAssumption DEF Detections
<1>2. Distance(d.at, e.at) < Duplicate
  BY <1>1 DEF Distance
<1> QED
  BY <1>2 DEF Duplicates

\* The frame taken is the first that was left.
LEMMA OrderKept ==
    ASSUME LinkedInOrder, NEW f, NEW kept, NEW m, Taken(f, kept, m), phase = "linking",
           analysed \subseteq Frames, UNCHANGED <<phase, analysed>>
    PROVE  LinkedInOrder'
<1>1. analysed \subseteq Int
  BY PipelineAssumption DEF Frames
<1>2. \A g \in analysed \ linked : g # f => f < g
  BY <1>1 DEF Taken
<1> QED
  BY <1>2 DEF LinkedInOrder, Taken

\* A track goes on with an observation in a later frame.
IsLonger(longer, points, x) ==
    LET n == Len(points)
    IN  /\ Advances(longer) /\ n \in Nat \ {0} /\ Len(longer) = n + 1
        /\ longer = Append(points, x)
        /\ longer[n + 1] = x /\ \A k \in 1..n : longer[k] = points[k]

\* An observation in a later frame may be appended.
LEMMA AppendAdvances ==
    ASSUME NEW points, Advances(points), NEW x \in TrackPoints,
           \A k \in 1..Len(points) : points[k].frame < x.frame,
           NEW longer, longer = Append(points, x)
    PROVE  IsLonger(longer, points, x)
<1> DEFINE n == Len(points)
<1>1. points \in Seq(TrackPoints) /\ n \in Nat \ {0} /\ \A k \in 1..n : points[k].frame \in Nat
  BY PointTypes DEF Advances
<1>2. /\ longer \in Seq(TrackPoints) /\ Len(longer) = n + 1 /\ longer # <<>>
      /\ longer[n + 1] = x /\ \A k \in 1..n : longer[k] = points[k]
  BY <1>1
<1> HIDE DEF n
<1>3. ASSUME NEW j \in 1..(n + 1), NEW k \in 1..(n + 1), j < k
      PROVE  longer[j].frame < longer[k].frame
  <2>1. j \in 1..n
    BY <1>1, <1>3
  <2>2. CASE k = n + 1
    BY <1>2, <2>1, <2>2 DEF n
  <2>3. CASE k # n + 1
    <3>1. k \in 1..n
      BY <1>1, <2>3
    <3> QED
      BY <1>2, <1>3, <2>1, <3>1 DEF n, Advances, Rising
  <2> QED
    BY <2>2, <2>3
<1>4. Rising(longer)
  BY <1>2, <1>3 DEF Rising
<1> QED
  BY <1>1, <1>2, <1>4 DEF Advances, IsLonger, n

\* So the tracker lengthens a track.
LEMMA LongerTrack ==
    ASSUME TracksAdvance, NEW f \in Frames, \A g \in linked : g < f,
           NEW i \in 1..Len(tracks), NEW d \in Detections,
           NEW t, t = [tracks[i] EXCEPT !.points = Append(@, Point(d, f))]
    PROVE  /\ t \in Tracks /\ t.class = tracks[i].class
           /\ IsLonger(t.points, tracks[i].points, Point(d, f))
<1> DEFINE points == tracks[i].points
           x == Point(d, f)
           longer == Append(points, x)
<1>1. /\ tracks[i] \in Tracks /\ Advances(points) /\ points \in Seq(TrackPoints)
      /\ \A l \in 1..Len(points) : points[l].frame \in linked
  BY DEF TracksAdvance, Advances
<1>2. x \in TrackPoints /\ x.frame = f
  BY DEF Detections, Point, TrackPoints
<1>3. \A l \in 1..Len(points) : points[l].frame < x.frame
  BY <1>1, <1>2
<1>4. longer \in Seq(TrackPoints)
  BY <1>1, <1>2
<1>5. t \in Tracks /\ t.class = tracks[i].class /\ t.points = longer
  <2> HIDE DEF longer
  <2>1. t = [tracks[i] EXCEPT !.points = longer]
    BY DEF longer
  <2> HIDE DEF points
  <2> QED
    BY <1>1, <1>4, <2>1 DEF Tracks
<1> HIDE DEF points, x
<1>6. longer = Append(points, x)
  OBVIOUS
<1> HIDE DEF longer
<1>7. IsLonger(longer, points, x)
  BY <1>1, <1>2, <1>3, <1>6, AppendAdvances
<1> QED
  BY <1>5, <1>7 DEF points, x

\* A track of one point.
IsBegun(t, d, f) ==
    /\ t \in Tracks /\ t.class = d.class /\ Advances(t.points)
    /\ Len(t.points) = 1 /\ t.points[1] = [frame |-> f, at |-> d.at]

\* So it begins one.
LEMMA BegunTrack ==
    ASSUME NEW f \in Frames, NEW d \in Detections, NEW t, t = Begun(d, f)
    PROVE  IsBegun(t, d, f)
<1>1. Point(d, f) \in TrackPoints /\ d.class \in STRING
  BY DEF Detections, Point, TrackPoints
<1> HIDE DEF Point
<1>2. /\ t = [class |-> d.class, points |-> <<Point(d, f)>>]
      /\ <<Point(d, f)>> \in Seq(TrackPoints)
  BY <1>1 DEF Begun
<1>3. Rising(t.points)
  BY <1>2 DEF Rising
<1> QED
  BY <1>1, <1>2, <1>3 DEF IsBegun, Tracks, Advances, Point

\* The i-th track has gone on with d.
GrownBy(i, d, f) ==
    /\ tracks'[i] \in Tracks /\ tracks'[i].class = tracks[i].class /\ d.class = tracks[i].class
    /\ tracks'[i] = [tracks[i] EXCEPT !.points = Append(@, Point(d, f))]
    /\ IsLonger(tracks'[i].points, tracks[i].points, Point(d, f))

\* What becomes of the tracks: the first n stay or are a point longer, the others
\* begin, one for each sure detection that no track was given.
Grow(n, f, kept, m) ==
    /\ n \in Nat /\ n = Len(tracks)
    /\ Len(tracks') \in Nat /\ n <= Len(tracks') /\ tracks' = [i \in 1..Len(tracks') |-> tracks'[i]]
    /\ \A i \in 1..n :
           \/ tracks'[i] = tracks[i]
           \/ \E d \in kept : <<i, d>> \in m /\ i \in Active(tracks, f) /\ GrownBy(i, d, f)
    /\ \A p \in m : p = <<p[1], p[2]>> /\ p[1] \in 1..n /\ p[2] \in kept /\ GrownBy(p[1], p[2], f)
    /\ \A p, q \in m : p[1] = q[1] \/ p[2] = q[2] => p = q
    /\ \A i \in (n + 1)..Len(tracks') : \E d \in Fresh(kept, m) :
           tracks'[i] = Begun(d, f) /\ IsBegun(tracks'[i], d, f)
    /\ \A d \in Fresh(kept, m) : \E i \in (n + 1)..Len(tracks') : tracks'[i] = Begun(d, f)
    /\ \A i, j \in (n + 1)..Len(tracks') : tracks'[i] = tracks'[j] => i = j

\* That is what the tracker's step does, whatever association was chosen.
LEMMA TracksGrow ==
    ASSUME TracksAdvance, analysed \subseteq Frames,
           NEW f, NEW kept, NEW m, Taken(f, kept, m)
    PROVE  \E n : Grow(n, f, kept, m)
<1> DEFINE n == Len(tracks)
<1>1. n \in Nat /\ n = Len(tracks) /\ DOMAIN tracks = 1..n
  BY DEF TracksAdvance
<1> HIDE DEF n
<1>2. /\ \A p \in m : /\ p = <<p[1], p[2]>> /\ p[1] \in Active(tracks, f) /\ p[2] \in kept
                      /\ Candidate(tracks[p[1]], p[2], f)
      /\ \A p, q \in m : p[1] = q[1] \/ p[2] = q[2] => p = q
  BY AssociationIsOneToOne DEF Taken
<1>3. IsUpdate(tracks', tracks, n, kept, m, f)
  <2> DEFINE new == tracks'
  <2>1. IsFiniteSet(kept) /\ new = Updated(tracks, kept, m, f) /\ \A p, q \in m : p[1] = q[1] => p = q
    BY <1>2 DEF Taken
  <2> HIDE DEF new
  <2>2. IsUpdate(new, tracks, n, kept, m, f)
    BY <1>1, <2>1, UpdatedHas
  <2> QED
    BY <2>2 DEF new
<1>4. ASSUME NEW p \in m PROVE p[1] \in 1..n /\ GrownBy(p[1], p[2], f)
  <2> DEFINE i == p[1]
             d == p[2]
             t == tracks'[i]
  <2>1. i \in 1..n /\ i \in 1..Len(tracks) /\ d \in kept /\ d.class = tracks[i].class
    BY <1>1, <1>2 DEF Active, Candidate
  <2>2. t = [tracks[i] EXCEPT !.points = Append(@, Point(d, f))]
    BY <1>3, <2>1 DEF IsUpdate
  <2> HIDE DEF i, d, t
  <2>3. t \in Tracks /\ t.class = tracks[i].class /\ IsLonger(t.points, tracks[i].points, Point(d, f))
    <3>1. f \in Frames /\ (\A g \in linked : g < f) /\ d \in Detections
      BY <2>1 DEF Taken
    <3> QED
      BY <2>1, <2>2, <3>1, LongerTrack, ZenonT(30)
  <2> QED
    BY <2>1, <2>2, <2>3 DEF GrownBy, i, d, t
<1>5. ASSUME NEW i \in 1..n
      PROVE  \/ tracks'[i] = tracks[i]
             \/ \E d \in kept : <<i, d>> \in m /\ i \in Active(tracks, f) /\ GrownBy(i, d, f)
  <2>1. CASE \A p \in m : p[1] # i
    BY <1>3, <2>1 DEF IsUpdate
  <2>2. CASE \E p \in m : p[1] = i
    <3>1. PICK p \in m : p[1] = i
      BY <2>2
    <3> DEFINE d == p[2]
    <3>2. d \in kept /\ <<i, d>> \in m /\ i \in Active(tracks, f) /\ GrownBy(i, d, f)
      BY <1>2, <1>4, <3>1
    <3> HIDE DEF d
    <3> QED
      BY <3>2
  <2> QED
    BY <2>1, <2>2
<1>6. ASSUME NEW i \in (n + 1)..Len(tracks')
      PROVE  \E d \in Fresh(kept, m) : tracks'[i] = Begun(d, f) /\ IsBegun(tracks'[i], d, f)
  <2>1. PICK d \in Fresh(kept, m) : tracks'[i] = Begun(d, f)
    BY <1>3 DEF IsUpdate
  <2>2. d \in Detections /\ f \in Frames
    BY DEF Taken, Fresh
  <2> DEFINE t == tracks'[i]
  <2>3. t = Begun(d, f)
    BY <2>1
  <2> HIDE DEF t
  <2>4. IsBegun(t, d, f)
    BY <2>2, <2>3, BegunTrack
  <2> QED
    BY <2>1, <2>4 DEF t
<1>7. Grow(n, f, kept, m)
  BY <1>1, <1>2, <1>3, <1>4, <1>5, <1>6 DEF Grow, IsUpdate
<1> QED
  BY <1>7

\* The tracks advance, by a point in the frame taken or from it on.
LEMMA AdvanceKept ==
    ASSUME TracksAdvance, NEW f, NEW kept, NEW m, Taken(f, kept, m),
           NEW n, Grow(n, f, kept, m)
    PROVE  TracksAdvance'
<1>1. linked' = linked \cup {f}
  BY DEF Taken
<1>2. ASSUME NEW i \in 1..Len(tracks')
      PROVE  /\ tracks'[i] \in Tracks /\ Advances(tracks'[i].points)
             /\ \A k \in 1..Len(tracks'[i].points) : tracks'[i].points[k].frame \in linked'
  <2>1. CASE i \in 1..n /\ tracks'[i] = tracks[i]
    BY <1>1, <2>1 DEF TracksAdvance, Grow
  <2>2. CASE i \in 1..n /\ tracks'[i] # tracks[i]
    <3>1. PICK d \in kept : GrownBy(i, d, f)
      BY <2>2 DEF Grow
    <3> DEFINE k == Len(tracks[i].points)
               points == tracks'[i].points
    <3>2. i \in 1..Len(tracks)
      BY <2>2 DEF Grow
    <3>3. /\ tracks'[i] \in Tracks /\ Advances(points) /\ k \in Nat \ {0} /\ Len(points) = k + 1
          /\ points[k + 1].frame = f /\ \A l \in 1..k : points[l] = tracks[i].points[l]
      BY <3>1 DEF GrownBy, IsLonger, Point
    <3>4. \A l \in 1..k : tracks[i].points[l].frame \in linked
      BY <3>2 DEF TracksAdvance
    <3> HIDE DEF points, k
    <3>5. ASSUME NEW l \in 1..Len(points) PROVE points[l].frame \in linked'
      <4>1. l \in 1..k \/ l = k + 1
        BY <3>3
      <4> QED
        BY <1>1, <3>3, <3>4, <4>1
    <3> QED
      BY <3>3, <3>5 DEF points
  <2>3. CASE i \notin 1..n
    <3>1. i \in (n + 1)..Len(tracks')
      BY <2>3 DEF Grow
    <3>2. PICK d \in Fresh(kept, m) : IsBegun(tracks'[i], d, f)
      BY <3>1 DEF Grow
    <3> QED
      BY <1>1, <3>2 DEF IsBegun
  <2> QED
    BY <2>1, <2>2, <2>3
<1>3. tracks' \in Seq(Tracks)
  <2>1. tracks' = [i \in 1..Len(tracks') |-> tracks'[i]] /\ Len(tracks') \in Nat
    BY DEF Grow
  <2> DEFINE n1 == Len(tracks')
             At(i) == tracks'[i]
  <2>2. \A i \in 1..n1 : At(i) \in Tracks
    BY <1>2
  <2>3. tracks' = [i \in 1..n1 |-> At(i)] /\ n1 \in Nat
    BY <2>1
  <2> HIDE DEF n1, At
  <2>4. [i \in 1..n1 |-> At(i)] \in Seq(Tracks)
    BY <2>2, <2>3
  <2> QED
    BY <2>3, <2>4
<1> QED
  BY <1>2, <1>3 DEF TracksAdvance

\* What a track has observed after a frame: what it had, and what was taken now.
LEMMA ObservedBefore ==
    ASSUME TracksAdvance, NEW f, NEW kept, NEW m, Taken(f, kept, m),
           NEW n, Grow(n, f, kept, m), NEW d, d.frame \in linked, NEW i \in 1..Len(tracks')
    PROVE  Observes(tracks'[i], d) <=> i \in 1..n /\ Observes(tracks[i], d)
<1>1. d.frame # f
  BY DEF Taken
<1>2. CASE i \in 1..n /\ tracks'[i] = tracks[i]
  BY <1>2
<1>3. CASE i \in 1..n /\ tracks'[i] # tracks[i]
  <2>1. PICK e \in kept : GrownBy(i, e, f)
    BY <1>3 DEF Grow
  <2> DEFINE k == Len(tracks[i].points)
             new == tracks'[i].points
             old == tracks[i].points
  <2>2. /\ k \in Nat \ {0} /\ Len(new) = k + 1 /\ new[k + 1] = [frame |-> f, at |-> e.at]
        /\ \A l \in 1..k : new[l] = old[l]
        /\ tracks'[i].class = tracks[i].class
    BY <2>1 DEF GrownBy, IsLonger, Point
  <2> HIDE DEF k, new, old
  <2>3. new[k + 1] # [frame |-> d.frame, at |-> d.at]
    BY <1>1, <2>2
  <2>4. (\E l \in 1..(k + 1) : new[l] = [frame |-> d.frame, at |-> d.at])
            <=> (\E l \in 1..k : old[l] = [frame |-> d.frame, at |-> d.at])
    <3>1. \A l \in 1..(k + 1) : l \in 1..k \/ l = k + 1
      BY <2>2
    <3>2. \A l \in 1..k : l \in 1..(k + 1)
      BY <2>2
    <3> QED
      BY <2>2, <2>3, <3>1, <3>2
  <2> QED
    BY <1>3, <2>2, <2>4 DEF Observes, k, new, old
<1>4. CASE i \notin 1..n
  <2>1. i \in (n + 1)..Len(tracks')
    BY <1>4 DEF Grow
  <2>2. PICK e \in Fresh(kept, m) : IsBegun(tracks'[i], e, f)
    BY <2>1 DEF Grow
  <2> QED
    BY <1>1, <1>4, <2>2 DEF IsBegun, Observes
<1> QED
  BY <1>2, <1>3, <1>4

\* A detection of the frame taken is a point of the track it was given, or of the
\* one it began: duplicates were suppressed, so no other is at its place.
LEMMA ObservedNow ==
    ASSUME TracksAdvance, NEW f, NEW kept, NEW m, Taken(f, kept, m),
           NEW n, Grow(n, f, kept, m), NEW e \in kept,
           NEW d, d = [frame |-> f, class |-> e.class, at |-> e.at], NEW i \in 1..Len(tracks')
    PROVE  Observes(tracks'[i], d) <=> \/ i \in 1..n /\ <<i, e>> \in m
                                       \/ i \notin 1..n /\ e \in Fresh(kept, m) /\ tracks'[i] = Begun(e, f)
<1>1. f \notin linked /\ d.frame = f /\ d.class = e.class /\ d.at = e.at
  BY DEF Taken
<1>2. \A c \in kept : c.class = e.class /\ c.at = e.at => c = e
  <2>1. kept \subseteq Detections /\ \A c, b \in kept : Duplicates(c, b) => c = b
    BY DEF Taken
  <2> QED
    BY <2>1, KeptApart
<1>3. \A p, q \in m : p[1] = q[1] => p = q
  BY DEF Grow
<1>4. CASE i \in 1..n
  <2>1. i \in 1..Len(tracks)
    BY <1>4 DEF Grow
  <2>2. \A l \in 1..Len(tracks[i].points) : tracks[i].points[l].frame # f
    BY <1>1, <2>1 DEF TracksAdvance
  <2>3. CASE tracks'[i] = tracks[i]
    <3>1. ~Observes(tracks'[i], d)
      BY <1>1, <2>2, <2>3 DEF Observes
    <3>2. <<i, e>> \notin m
      <4> SUFFICES ASSUME <<i, e>> \in m PROVE FALSE
        OBVIOUS
      <4> DEFINE p == <<i, e>>
      <4>1. GrownBy(p[1], p[2], f)
        BY DEF Grow
      <4>2. GrownBy(i, e, f)
        BY <4>1
      <4>3. Len(tracks'[i].points) = Len(tracks[i].points) + 1 /\ Len(tracks[i].points) \in Nat
        BY <4>2 DEF GrownBy, IsLonger
      <4> QED
        BY <2>3, <4>3
    <3> QED
      BY <1>4, <3>1, <3>2
  <2>4. CASE tracks'[i] # tracks[i]
    <3>1. PICK c \in kept : <<i, c>> \in m /\ GrownBy(i, c, f)
      BY <1>4, <2>4 DEF Grow
    <3> DEFINE k == Len(tracks[i].points)
               new == tracks'[i].points
               old == tracks[i].points
    <3>2. /\ k \in Nat \ {0} /\ Len(new) = k + 1 /\ new[k + 1] = [frame |-> f, at |-> c.at]
          /\ \A l \in 1..k : new[l] = old[l]
          /\ tracks'[i].class = tracks[i].class /\ c.class = tracks[i].class
      BY <3>1 DEF GrownBy, IsLonger, Point
    <3> HIDE DEF k, new
    <3>3. \A l \in 1..k : new[l].frame # f
      BY <2>2, <3>2 DEF k
    <3>4. (\E l \in 1..(k + 1) : new[l] = [frame |-> f, at |-> e.at]) <=> c.at = e.at
      <4>1. \A l \in 1..(k + 1) : l \in 1..k \/ l = k + 1
        BY <3>2
      <4>2. k + 1 \in 1..(k + 1)
        BY <3>2
      <4> QED
        BY <3>2, <3>3, <4>1, <4>2
    <3>5. Observes(tracks'[i], d) <=> c = e
      BY <1>1, <1>2, <3>2, <3>4 DEF Observes, new
    <3>6. <<i, e>> \in m <=> c = e
      <4>1. ASSUME <<i, e>> \in m PROVE c = e
        <5> DEFINE p == <<i, e>>
                   q == <<i, c>>
        <5>1. p[1] = i /\ q[1] = i /\ p[2] = e /\ q[2] = c /\ p \in m /\ q \in m
          BY <3>1, <4>1
        <5> HIDE DEF p, q
        <5> QED
          BY <1>3, <5>1
      <4> QED
        BY <3>1, <4>1
    <3> QED
      BY <1>4, <3>5, <3>6
  <2> QED
    BY <2>3, <2>4
<1>5. CASE i \notin 1..n
  <2>1. i \in (n + 1)..Len(tracks')
    BY <1>5 DEF Grow
  <2>2. PICK c \in Fresh(kept, m) : tracks'[i] = Begun(c, f) /\ IsBegun(tracks'[i], c, f)
    BY <2>1 DEF Grow
  <2>3. Observes(tracks'[i], d) <=> c.class = e.class /\ c.at = e.at
    BY <1>1, <2>2 DEF IsBegun, Observes
  <2>4. c \in kept
    BY DEF Fresh
  <2>5. tracks'[i] = Begun(e, f) => c.class = e.class /\ c.at = e.at
    BY <2>2 DEF Begun, Point
  <2> QED
    BY <1>2, <1>5, <2>2, <2>3, <2>4, <2>5
<1> QED
  BY <1>4, <1>5

\* Who was observed before stays with the one track, who is observed now has one.
LEMMA OneTrackKept ==
    ASSUME TracksAdvance, OneTrackEach, NEW f, NEW kept, NEW m, Taken(f, kept, m),
           NEW n, Grow(n, f, kept, m)
    PROVE  OneTrackEach'
<1> DEFINE Seen(e) == [frame |-> f, class |-> e.class, at |-> e.at]
<1>1. linked' = linked \cup {f} /\ owed' = owed \cup {Seen(e) : e \in {c \in kept : c.sure}}
  BY DEF Taken
<1>2. n = Len(tracks) /\ 1..n \subseteq 1..Len(tracks')
  BY DEF Grow
<1>3. ASSUME NEW d \in owed
      PROVE  /\ d.frame \in linked'
             /\ \E i \in 1..Len(tracks') : Observes(tracks'[i], d)
             /\ \A i, j \in 1..Len(tracks') :
                    Observes(tracks'[i], d) /\ Observes(tracks'[j], d) => i = j
  <2>1. /\ d.frame \in linked /\ \E i \in 1..n : Observes(tracks[i], d)
        /\ \A i, j \in 1..n : Observes(tracks[i], d) /\ Observes(tracks[j], d) => i = j
    BY <1>2 DEF OneTrackEach
  <2>2. \A i \in 1..Len(tracks') : Observes(tracks'[i], d) <=> i \in 1..n /\ Observes(tracks[i], d)
    BY <2>1, ObservedBefore
  <2> QED
    BY <1>1, <1>2, <2>1, <2>2
<1>4. ASSUME NEW e \in kept, e.sure, NEW d, d = Seen(e)
      PROVE  /\ d.frame \in linked'
             /\ \E i \in 1..Len(tracks') : Observes(tracks'[i], d)
             /\ \A i, j \in 1..Len(tracks') :
                    Observes(tracks'[i], d) /\ Observes(tracks'[j], d) => i = j
  <2>1. \A i \in 1..Len(tracks') :
            Observes(tracks'[i], d) <=>
                \/ i \in 1..n /\ <<i, e>> \in m
                \/ i \notin 1..n /\ e \in Fresh(kept, m) /\ tracks'[i] = Begun(e, f)
    BY <1>4, ObservedNow
  <2>2. \A i \in 1..Len(tracks') : i \notin 1..n => i \in (n + 1)..Len(tracks')
    BY DEF Grow
  <2>3. CASE e \in Fresh(kept, m)
    <3>1. \A i \in 1..n : <<i, e>> \notin m
      <4> SUFFICES ASSUME NEW i \in 1..n, <<i, e>> \in m PROVE FALSE
        OBVIOUS
      <4> DEFINE p == <<i, e>>
      <4>1. p \in m /\ p[2] = e
        OBVIOUS
      <4> HIDE DEF p
      <4> QED
        BY <2>3, <4>1 DEF Fresh
    <3>2. PICK i \in (n + 1)..Len(tracks') : tracks'[i] = Begun(e, f)
      BY <2>3 DEF Grow
    <3>3. i \in 1..Len(tracks') /\ i \notin 1..n
      BY DEF Grow
    <3>4. \A j, k \in (n + 1)..Len(tracks') : tracks'[j] = tracks'[k] => j = k
      BY DEF Grow
    <3> QED
      BY <1>1, <1>4, <2>1, <2>2, <2>3, <3>1, <3>2, <3>3, <3>4
  <2>4. CASE e \notin Fresh(kept, m)
    <3>1. PICK p \in m : p[2] = e
      BY <1>4, <2>4 DEF Fresh
    <3>2. p[1] \in 1..n /\ <<p[1], e>> \in m
      BY <3>1 DEF Grow
    <3>3. ASSUME NEW i, NEW j, <<i, e>> \in m, <<j, e>> \in m PROVE i = j
      <4> DEFINE q == <<i, e>>
                 r == <<j, e>>
      <4>1. q \in m /\ r \in m /\ q[2] = r[2] /\ q[1] = i /\ r[1] = j
        BY <3>3
      <4> HIDE DEF q, r
      <4> QED
        BY <4>1 DEF Grow
    <3> QED
      BY <1>1, <1>2, <1>4, <2>1, <2>4, <3>2, <3>3
  <2> QED
    BY <2>3, <2>4
<1>5. ASSUME NEW d \in owed'
      PROVE  /\ d.frame \in linked'
             /\ \E i \in 1..Len(tracks') : Observes(tracks'[i], d)
             /\ \A i, j \in 1..Len(tracks') :
                    Observes(tracks'[i], d) /\ Observes(tracks'[j], d) => i = j
  <2>1. d \in owed \/ \E e \in kept : e.sure /\ d = Seen(e)
    BY <1>1
  <2> HIDE DEF Seen
  <2> QED
    BY <1>3, <1>4, <2>1
<1> QED
  BY <1>5 DEF OneTrackEach, Observes

\* A track's first observation stays what it was.
LEMMA FirstPointStays ==
    ASSUME TracksAdvance, NEW f, NEW kept, NEW m, NEW n, Grow(n, f, kept, m), NEW i \in 1..n
    PROVE  tracks'[i].points[1] = tracks[i].points[1] /\ tracks'[i].class = tracks[i].class
<1>1. CASE tracks'[i] # tracks[i]
  <2>1. PICK d \in kept : GrownBy(i, d, f)
    BY <1>1 DEF Grow
  <2> QED
    BY <2>1 DEF GrownBy, IsLonger
<1> QED
  BY <1>1

\* What begins, begins with a sure detection.
LEMMA BegunSureKept ==
    ASSUME TracksAdvance, BegunSure, NEW f, NEW kept, NEW m, Taken(f, kept, m),
           NEW n, Grow(n, f, kept, m)
    PROVE  BegunSure'
<1>1. owed' = owed \cup {[frame |-> f, class |-> e.class, at |-> e.at] : e \in {c \in kept : c.sure}}
  BY DEF Taken
<1>2. ASSUME NEW i \in 1..Len(tracks')
      PROVE  \E d \in owed' : /\ d.class = tracks'[i].class
                              /\ d.frame = tracks'[i].points[1].frame
                              /\ d.at = tracks'[i].points[1].at
  <2>1. CASE i \in 1..n
    <3>1. PICK d \in owed : /\ d.class = tracks[i].class
                            /\ d.frame = tracks[i].points[1].frame
                            /\ d.at = tracks[i].points[1].at
      BY <2>1 DEF BegunSure, Grow
    <3> QED
      BY <1>1, <2>1, <3>1, FirstPointStays
  <2>2. CASE i \notin 1..n
    <3>1. i \in (n + 1)..Len(tracks')
      BY <2>2 DEF Grow
    <3>2. PICK e \in Fresh(kept, m) : IsBegun(tracks'[i], e, f)
      BY <3>1 DEF Grow
    <3> DEFINE d == [frame |-> f, class |-> e.class, at |-> e.at]
    <3>3. d \in owed'
      BY <1>1 DEF Fresh
    <3> QED
      BY <3>2, <3>3 DEF IsBegun
  <2> QED
    BY <2>1, <2>2
<1> QED
  BY <1>2 DEF BegunSure

\* Only active tracks go on.
LEMMA NeverLostKept ==
    ASSUME TracksAdvance, NeverLost, NEW f, NEW kept, NEW m, Taken(f, kept, m),
           NEW n, Grow(n, f, kept, m)
    PROVE  NeverLost'
<1>1. ASSUME NEW i \in 1..Len(tracks'), NEW k \in 1..(Len(tracks'[i].points) - 1)
      PROVE  tracks'[i].points[k + 1].frame - tracks'[i].points[k].frame - 1 <= MaxGap
  <2>1. CASE i \in 1..n /\ tracks'[i] = tracks[i]
    BY <2>1 DEF NeverLost, Grow
  <2>2. CASE i \in 1..n /\ tracks'[i] # tracks[i]
    <3>1. PICK d \in kept : i \in Active(tracks, f) /\ GrownBy(i, d, f)
      BY <2>2 DEF Grow
    <3> DEFINE l == Len(tracks[i].points)
               new == tracks'[i].points
               old == tracks[i].points
    <3>2. /\ l \in Nat \ {0} /\ Len(new) = l + 1 /\ new[l + 1].frame = f
          /\ \A j \in 1..l : new[j] = old[j]
      BY <3>1 DEF GrownBy, IsLonger, Point
    <3>3. f - old[l].frame - 1 <= MaxGap
      BY <3>1 DEF Active, Last
    <3>4. \A j \in 1..(l - 1) : old[j + 1].frame - old[j].frame - 1 <= MaxGap
      BY <2>2 DEF NeverLost, Grow
    <3>5. k \in 1..(Len(new) - 1)
      OBVIOUS
    <3> HIDE DEF l, new, old
    <3>6. new[k + 1].frame - new[k].frame - 1 <= MaxGap
      <4>1. CASE k = l
        BY <3>2, <3>3, <4>1
      <4>2. CASE k # l
        <5>1. k \in 1..(l - 1) /\ k \in 1..l /\ k + 1 \in 1..l
          BY <3>2, <3>5, <4>2
        <5> QED
          BY <3>2, <3>4, <5>1
      <4> QED
        BY <4>1, <4>2
    <3> QED
      BY <3>6 DEF new
  <2>3. CASE i \notin 1..n
    <3>1. i \in (n + 1)..Len(tracks')
      BY <2>3 DEF Grow
    <3>2. PICK e \in Fresh(kept, m) : IsBegun(tracks'[i], e, f)
      BY <3>1 DEF Grow
    <3> QED
      BY <3>2 DEF IsBegun
  <2> QED
    BY <2>1, <2>2, <2>3
<1> QED
  BY <1>1 DEF NeverLost

\* A track is, up to a point it had, what it was.
LEMMA UntilStays ==
    ASSUME TracksAdvance, NEW f, NEW i \in 1..Len(tracks), NEW d, GrownBy(i, d, f),
           NEW l \in 2..(Len(tracks[i].points) + 1)
    PROVE  /\ l <= Len(tracks[i].points) => Until(tracks'[i], l) = Until(tracks[i], l)
           /\ l = Len(tracks[i].points) + 1 => Until(tracks'[i], l) = tracks[i]
<1> DEFINE old == tracks[i].points
           new == tracks'[i].points
           k == Len(old)
           c == tracks[i].class
<1>1. /\ tracks[i] \in Tracks /\ tracks'[i] \in Tracks /\ tracks'[i].class = c
      /\ k \in Nat \ {0} /\ Len(new) = k + 1 /\ \A j \in 1..k : new[j] = old[j]
      /\ old \in Seq(TrackPoints) /\ new \in Seq(TrackPoints)
  BY DEF TracksAdvance, GrownBy, IsLonger, Advances
<1>2. tracks[i] = [class |-> c, points |-> old] /\ tracks'[i] = [class |-> c, points |-> new]
  BY <1>1 DEF Tracks
<1> HIDE DEF old, new, c
<1>3. /\ Until(tracks[i], l) = [class |-> c, points |-> SubSeq(old, 1, l - 1)]
      /\ Until(tracks'[i], l) = [class |-> c, points |-> SubSeq(new, 1, l - 1)]
  <2> DEFINE p == SubSeq(old, 1, l - 1)
             q == SubSeq(new, 1, l - 1)
  <2>1. Until(tracks[i], l) = [tracks[i] EXCEPT !.points = p]
    BY DEF Until, old
  <2>2. Until(tracks'[i], l) = [tracks'[i] EXCEPT !.points = q]
    BY DEF Until, new
  <2> HIDE DEF p, q
  <2>3. [tracks[i] EXCEPT !.points = p] = [class |-> c, points |-> p]
    BY <1>2
  <2>4. [tracks'[i] EXCEPT !.points = q] = [class |-> c, points |-> q]
    BY <1>2
  <2> QED
    BY <2>1, <2>2, <2>3, <2>4 DEF p, q
<1> HIDE DEF k
<1>4. SubSeq(new, 1, l - 1) = SubSeq(old, 1, l - 1)
  <2>1. l - 1 \in 1..k
    BY <1>1 DEF old, k
  <2>2. \A j \in 1..(l - 1) : new[j] = old[j]
    BY <1>1, <2>1
  <2> DEFINE h == l - 1
  <2>3. h \in Nat /\ h <= Len(new) /\ h <= Len(old) /\ \A j \in 1..h : new[j] = old[j]
    BY <1>1, <2>1, <2>2 DEF k
  <2> HIDE DEF h
  <2>4. SubSeq(new, 1, h) = [j \in 1..h |-> new[j]] /\ SubSeq(old, 1, h) = [j \in 1..h |-> old[j]]
    BY <1>1, <2>3
  <2> QED
    BY <2>3, <2>4 DEF h
<1>5. l = k + 1 => SubSeq(old, 1, l - 1) = old
  BY <1>1 DEF k
<1> QED
  BY <1>2, <1>3, <1>4, <1>5 DEF k, old

\* Confident detections choose first: one that begins a track was a candidate for
\* none that a doubtful one continued.
LEMMA DoubtsYieldKept ==
    ASSUME TracksAdvance, DoubtsYield, NEW f, NEW kept, NEW m, Taken(f, kept, m),
           NEW n, Grow(n, f, kept, m)
    PROVE  DoubtsYield'
<1>1. /\ f \notin linked /\ kept \subseteq Detections /\ owed \subseteq owed'
      /\ owed' = owed \cup {[frame |-> f, class |-> e.class, at |-> e.at] : e \in {c \in kept : c.sure}}
  BY DEF Taken
<1>2. /\ n \in Nat /\ n = Len(tracks)
      /\ \A i \in 1..Len(tracks') : i \notin 1..n =>
             \E e \in Fresh(kept, m) : IsBegun(tracks'[i], e, f)
  BY DEF Grow
<1>3. \A i \in 1..n : /\ tracks[i] \in Tracks /\ Len(tracks[i].points) \in Nat \ {0}
                      /\ \A l \in 1..Len(tracks[i].points) : tracks[i].points[l].frame \in linked
  BY <1>2, PointTypes DEF TracksAdvance
<1>4. ASSUME NEW i \in 1..n, NEW j \in 1..Len(tracks'), NEW l \in 2..Len(tracks[i].points),
             NEW t, t = tracks'[i], NEW u, u = tracks'[j], NEW point, point = t.points[l],
             point = tracks[i].points[l], t.class = tracks[i].class,
             Until(t, l) = Until(tracks[i], l),
             [class |-> t.class, frame |-> point.frame, at |-> point.at] \notin owed',
             u.points[1].frame = point.frame
      PROVE  ~Candidate(Until(t, l), [class |-> u.class, at |-> u.points[1].at, sure |-> TRUE], point.frame)
  <2>1. point.frame \in linked
    BY <1>3, <1>4
  <2>2. j \in 1..n
    <3> SUFFICES ASSUME j \notin 1..n PROVE FALSE
      OBVIOUS
    <3>1. PICK e \in Fresh(kept, m) : IsBegun(u, e, f)
      BY <1>2, <1>4
    <3>2. u.points[1].frame = f
      BY <3>1 DEF IsBegun
    <3> QED
      BY <1>1, <1>4, <2>1, <3>2
  <2>3. u.points[1] = tracks[j].points[1] /\ u.class = tracks[j].class
    BY <1>4, <2>2, FirstPointStays
  <2>4. i \in 1..Len(tracks) /\ j \in 1..Len(tracks) /\ l \in 2..Len(tracks[i].points)
    BY <1>2, <2>2
  <2>5. [class |-> tracks[i].class, frame |-> tracks[i].points[l].frame, at |-> tracks[i].points[l].at] \notin owed
    BY <1>1, <1>4
  <2>6. tracks[j].points[1].frame = tracks[i].points[l].frame
    BY <1>4, <2>3
  <2>7. ~Candidate(Until(tracks[i], l),
                   [class |-> tracks[j].class, at |-> tracks[j].points[1].at, sure |-> TRUE],
                   tracks[i].points[l].frame)
    BY <2>4, <2>5, <2>6 DEF DoubtsYield
  <2> QED
    BY <1>4, <2>3, <2>7
<1>5. ASSUME NEW i \in 1..n, NEW d \in kept, <<i, d>> \in m, i \in Active(tracks, f), ~d.sure,
             NEW e \in Fresh(kept, m)
      PROVE  ~Candidate(tracks[i], e, f)
  <2> SUFFICES ASSUME Candidate(tracks[i], e, f) PROVE FALSE
    OBVIOUS
  <2>1. e \in kept /\ e.sure /\ \A p \in m : p[2] # e
    BY DEF Fresh
  <2>2. m \in Associations(tracks, kept, f)
    BY DEF Taken
  <2>3. PICK p \in m : p[1] = i /\ p[2].sure
    BY <1>5, <2>1, <2>2, AssociationIsOneToOne
  <2> DEFINE q == <<i, d>>
  <2>4. q \in m /\ q[1] = p[1] /\ q[2] = d
    BY <1>5, <2>3
  <2> HIDE DEF q
  <2>5. p = q
    BY <2>4 DEF Grow
  <2> QED
    BY <1>5, <2>3, <2>4, <2>5
<1>6. ASSUME NEW i \in 1..Len(tracks'), NEW j \in 1..Len(tracks'), NEW l \in 2..Len(tracks'[i].points),
             NEW t, t = tracks'[i], NEW u, u = tracks'[j], NEW point, point = t.points[l],
             [class |-> t.class, frame |-> point.frame, at |-> point.at] \notin owed',
             u.points[1].frame = point.frame
      PROVE  ~Candidate(Until(t, l), [class |-> u.class, at |-> u.points[1].at, sure |-> TRUE], point.frame)
  <2>1. CASE i \in 1..n /\ tracks'[i] = tracks[i]
    BY <1>4, <1>6, <2>1
  <2>2. CASE i \in 1..n /\ tracks'[i] # tracks[i]
    <3>1. PICK d \in kept : <<i, d>> \in m /\ i \in Active(tracks, f) /\ GrownBy(i, d, f)
      BY <2>2 DEF Grow
    <3> DEFINE k == Len(tracks[i].points)
    <3>2. /\ k \in Nat \ {0} /\ Len(t.points) = k + 1 /\ t.points[k + 1] = [frame |-> f, at |-> d.at]
          /\ (\A h \in 1..k : t.points[h] = tracks[i].points[h])
          /\ t.class = tracks[i].class /\ d.class = t.class
      BY <1>6, <3>1 DEF GrownBy, IsLonger, Point
    <3>3. i \in 1..Len(tracks) /\ l \in 2..(k + 1)
      BY <1>2, <1>6, <2>2, <3>2
    <3>4. CASE l <= k
      <4>1. Until(t, l) = Until(tracks[i], l)
        BY <1>6, <3>1, <3>3, <3>4, UntilStays
      <4>2. l \in 2..k /\ point = tracks[i].points[l]
        BY <1>6, <3>2, <3>3, <3>4
      <4> QED
        BY <1>4, <1>6, <2>2, <3>2, <4>1, <4>2
    <3>5. CASE ~(l <= k)
      <4>1. l = k + 1
        BY <3>2, <3>3, <3>5
      <4>2. Until(t, l) = tracks[i]
        BY <1>6, <3>1, <3>3, <4>1, UntilStays
      <4>3. point = [frame |-> f, at |-> d.at]
        BY <1>6, <3>2, <4>1
      <4>4. ~d.sure
        BY <1>1, <1>6, <3>2, <4>3
      <4>5. j \notin 1..n
        <5> SUFFICES ASSUME j \in 1..n PROVE FALSE
          OBVIOUS
        <5>1. u.points[1] = tracks[j].points[1] /\ tracks[j].points[1].frame \in linked
          BY <1>3, <1>6, FirstPointStays
        <5> QED
          BY <1>1, <1>6, <4>3, <5>1
      <4>6. PICK e \in Fresh(kept, m) : IsBegun(u, e, f)
        BY <1>2, <1>6, <4>5
      <4>7. e = [class |-> u.class, at |-> u.points[1].at, sure |-> TRUE]
        <5>1. e \in Detections /\ e.sure
          BY <1>1 DEF Fresh
        <5>2. u.class = e.class /\ u.points[1].at = e.at
          BY <4>6 DEF IsBegun
        <5> QED
          BY <5>1, <5>2 DEF Detections
      <4>8. ~Candidate(tracks[i], e, f)
        BY <1>5, <2>2, <3>1, <4>4
      <4> QED
        BY <4>2, <4>3, <4>7, <4>8
    <3> QED
      BY <3>4, <3>5
  <2>3. CASE i \notin 1..n
    <3>1. Len(t.points) = 1
      BY <1>2, <1>6, <2>3 DEF IsBegun
    <3> QED
      BY <1>6, <3>1
  <2> QED
    BY <2>1, <2>2, <2>3
<1> QED
  BY <1>6 DEF DoubtsYield, Until

-----------------------------------------------------------------------------
(***************************************************************************)
(* The inductive invariant of the flow from detection to export: the       *)
(* invariants of its parts, and that the reviewed tracks, but for those a  *)
(* reviewer has touched, are what the tracker found.                       *)
(***************************************************************************)

\* No edit takes a track beyond the video.
SpansInVideo == \A i \in 1..Len(snapshot) : snapshot[i].first \in Frames /\ snapshot[i].last \in Frames

\* A track that no reviewer has edited is as it was stored.
UntouchedAsStored ==
    /\ Len(snapshot) = Len(tracks)
    /\ \A i \in 1..Len(tracks) : i \notin touched => snapshot[i] = Stored(tracks[i])

\* Review begins when every analysed frame was taken; only then is there anything
\* to render.
Stages ==
    /\ stage \in {"detecting", "reviewing", "exporting"}
    /\ stage = "detecting" => snapshot = <<>>
    /\ stage # "detecting" => phase = "linking" /\ linked = analysed /\ UntouchedAsStored
    /\ stage = "exporting" <=> step # "idle"
    /\ touched \subseteq 1..Len(snapshot)

FlowInv == PipelineInv /\ TrackerInv /\ RenderInv(clip) /\ SpansInVideo /\ Stages

\* At first nothing is detected, reviewed or rendered.
LEMMA FlowStarts == Init => FlowInv
<1> SUFFICES ASSUME Init PROVE FlowInv
  OBVIOUS
<1> USE DEF Init
<1>1. TrackerInv
  BY DEF TrackerInv, LinkedInOrder, TracksAdvance, OneTrackEach, BegunSure, NeverLost, DoubtsYield,
         PipelineInit
<1>2. SpansInVideo /\ Stages
  BY DEF SpansInVideo, Stages, RenderInit
<1> QED
  BY <1>1, <1>2, PipelineStarts, RenderStarts DEF FlowInv

\* The tracker's part does not depend on what it leaves alone.
LEMMA TrackerRests ==
    ASSUME TrackerInv, UNCHANGED <<linked, tracks, owed>>,
           linked # {} => UNCHANGED <<phase, analysed>>
    PROVE  TrackerInv'
<1>1. LinkedInOrder'
  BY DEF TrackerInv, LinkedInOrder
<1>2. TracksAdvance'
  BY DEF TrackerInv, TracksAdvance
<1>3. OneTrackEach'
  <2>1. OneTrackEach /\ tracks' = tracks /\ owed' = owed /\ linked' = linked
    BY DEF TrackerInv
  <2> QED
    BY <2>1, Zenon DEF OneTrackEach
<1>4. BegunSure' /\ NeverLost'
  BY DEF TrackerInv, BegunSure, NeverLost
<1>5. DoubtsYield'
  <2>1. DoubtsYield /\ tracks' = tracks /\ owed' = owed
    BY DEF TrackerInv
  <2> QED
    BY <2>1, Zenon DEF DoubtsYield
<1> QED
  BY <1>1, <1>2, <1>3, <1>4, <1>5 DEF TrackerInv

\* Nor does the part of the rendering.
LEMMA RenderRests ==
    ASSUME RenderInv(clip), UNCHANGED <<clip, renderVars>>
    PROVE  RenderInv(clip)'
BY DEF RenderInv, ShowsReview, ShownFrames, renderVars

\* One lemma per action of the flow: the sampling loop and its pools,
LEMMA DetectKeeps ==
    ASSUME FlowInv, Detect
    PROVE  FlowInv'
<1>1. PipelineInv'
  BY SubmitStep, ConsumeStep, OtherLoopSteps, PoolSteps DEF Detect, Loop, FlowInv
<1>2. UNCHANGED <<clip, renderVars, flowVars>>
  BY DEF Detect, Loop, Pools, PassFrame, SubmitFrame, StopDecoding, Consume, ConsumeRaises, Drained,
         Leave, Cancel, Join, RunTask, EndTask
<1>3. phase = "linking" => UNCHANGED <<phase, analysed>>
  BY DEF Detect, Loop, Pools, PassFrame, SubmitFrame, StopDecoding, Consume, ConsumeRaises, Drained,
         Grab, Turn, Leave, Cancel, Join, RunTask, EndTask
<1>4. TrackerInv'
  BY <1>2, <1>3, TrackerRests DEF FlowInv, TrackerInv, LinkedInOrder, flowVars
<1>5. RenderInv(clip)'
  BY <1>2, RenderRests DEF FlowInv
<1>6. stage = "detecting"
  BY DEF Detect
<1>7. SpansInVideo' /\ Stages'
  BY <1>2, <1>6 DEF FlowInv, SpansInVideo, Stages, flowVars, renderVars
<1> QED
  BY <1>1, <1>4, <1>5, <1>7 DEF FlowInv

\* the tracker,
LEMMA LinkKeeps ==
    ASSUME FlowInv, Link
    PROVE  FlowInv'
<1>1. /\ UNCHANGED <<pipelineVars, renderVars, stage, edits, touched>>
      /\ stage = "detecting" /\ phase = "linking" /\ analysed \subseteq Frames
  BY DEF Link, FlowInv, PipelineInv, PipelineType
<1>2. PipelineInv' /\ RenderInv(clip)'
  BY <1>1, PipelineRests, RenderRests DEF FlowInv, pipelineVars
<1>3. SpansInVideo' /\ Stages'
  BY <1>1 DEF FlowInv, SpansInVideo, Stages, renderVars
<1>4. TrackerInv'
  <2> USE DEF FlowInv, TrackerInv
  <2>1. PICK f, kept, m : Taken(f, kept, m)
    BY <1>1, LinkTakes
  <2>2. PICK n : Grow(n, f, kept, m)
    BY <1>1, <2>1, TracksGrow
  <2>3. LinkedInOrder'
    BY <1>1, <2>1, OrderKept DEF pipelineVars
  <2> QED
    BY <2>1, <2>2, <2>3, AdvanceKept, OneTrackKept, BegunSureKept, NeverLostKept, DoubtsYieldKept
<1> QED
  BY <1>2, <1>3, <1>4 DEF FlowInv

\* the storing of its tracks,
LEMMA StoreKeeps ==
    ASSUME FlowInv, Store
    PROVE  FlowInv'
<1>1. /\ stage = "detecting" /\ stage' = "reviewing" /\ phase = "linking" /\ linked = analysed
      /\ snapshot' = [i \in DOMAIN tracks |-> Stored(tracks[i])]
      /\ UNCHANGED <<pipelineVars, step, attempt, lookup, written, output,
                     linked, tracks, owed, edits, touched>>
  BY DEF Store
<1>2. PipelineInv' /\ TrackerInv'
  BY <1>1, PipelineRests, TrackerRests DEF FlowInv, pipelineVars
<1>3. \A i \in 1..Len(tracks) : /\ WellFormed(Stored(tracks[i]))
                                /\ Stored(tracks[i]).first \in Frames
                                /\ Stored(tracks[i]).last \in Frames
  <2> TAKE i \in 1..Len(tracks)
  <2> DEFINE t == tracks[i]
             s == Stored(t)
  <2>1. t \in Tracks /\ Advances(t.points) /\ s = Stored(t)
    BY DEF FlowInv, TrackerInv, TracksAdvance
  <2> HIDE DEF t, s
  <2>2. WellFormed(s) /\ s.first \in Frames /\ s.last \in Frames
    <3>1. t.class \in STRING
      BY <2>1 DEF Tracks
    <3> QED
      BY <2>1, <3>1, StoredIsWellFormed
  <2> QED
    BY <2>2 DEF s, t
<1>4. Len(tracks) \in Nat /\ DOMAIN tracks = 1..Len(tracks)
  BY DEF FlowInv, TrackerInv, TracksAdvance
<1>5. /\ snapshot' \in Seq(TrackRecords) /\ Len(snapshot') = Len(tracks)
      /\ \A i \in 1..Len(tracks) : snapshot'[i] = Stored(tracks[i])
  <2> DEFINE At(i) == Stored(tracks[i])
             n == Len(tracks)
  <2>1. \A i \in 1..n : At(i) \in TrackRecords
    BY <1>3 DEF WellFormed
  <2>2. snapshot' = [i \in 1..n |-> At(i)] /\ n \in Nat
    BY <1>1, <1>4
  <2> HIDE DEF At, n
  <2>3. /\ snapshot' \in Seq(TrackRecords) /\ Len(snapshot') = n
        /\ \A i \in 1..n : snapshot'[i] = At(i)
    BY <2>1, <2>2
  <2> QED
    BY <2>3 DEF At, n
<1>6. Reviewed(snapshot)' /\ SpansInVideo'
  BY <1>3, <1>5 DEF Reviewed, SpansInVideo
<1>7. RenderInv(clip)'
  <2>1. step = "idle" /\ RenderInv(clip) /\ clip' = clip
    BY <1>1 DEF FlowInv, Stages, pipelineVars
  <2>2. \A video : RenderInv(video) /\ step = "idle" => RenderInv(video)'
    BY <1>1, <1>6, ReviewMayChange
  <2> QED
    BY <2>1, <2>2 DEF RenderInv
<1>8. Stages'
  <2>1. UntouchedAsStored'
    BY <1>1, <1>5 DEF UntouchedAsStored, Stored
  <2>2. touched' = {}
    BY <1>1 DEF FlowInv, Stages
  <2> QED
    BY <1>1, <2>1, <2>2 DEF FlowInv, Stages, pipelineVars
<1> QED
  BY <1>2, <1>6, <1>7, <1>8 DEF FlowInv

\* An edit that leaves its track well formed and within the video.
LEMMA EditKeeps ==
    ASSUME FlowInv, stage = "reviewing", NEW i \in DOMAIN snapshot, NEW t, Edit(i, t),
           WellFormed(t), t.first \in Frames, t.last \in Frames
    PROVE  FlowInv'
<1>1. /\ touched' = touched \cup {i} /\ snapshot' = [snapshot EXCEPT ![i] = t]
      /\ UNCHANGED <<pipelineVars, step, attempt, lookup, written, output,
                     linked, tracks, owed, stage>>
  BY DEF Edit
<1>2. PipelineInv' /\ TrackerInv'
  BY <1>1, PipelineRests, TrackerRests DEF FlowInv, pipelineVars
<1>3. /\ snapshot \in Seq(TrackRecords) /\ Len(snapshot) \in Nat /\ i \in 1..Len(snapshot)
      /\ DOMAIN snapshot = 1..Len(snapshot)
      /\ \A j \in 1..Len(snapshot) : WellFormed(snapshot[j])
  BY DEF FlowInv, RenderInv, Reviewed
<1>4. /\ snapshot' \in Seq(TrackRecords) /\ Len(snapshot') = Len(snapshot)
      /\ snapshot'[i] = t /\ \A j \in 1..Len(snapshot) : j # i => snapshot'[j] = snapshot[j]
  <2>1. t \in TrackRecords
    BY DEF WellFormed
  <2> QED
    BY <1>1, <1>3, <2>1
<1>5. Reviewed(snapshot)' /\ SpansInVideo'
  BY <1>3, <1>4 DEF Reviewed, SpansInVideo, FlowInv
<1>6. RenderInv(clip)'
  <2>1. step = "idle" /\ RenderInv(clip) /\ clip' = clip
    BY <1>1 DEF FlowInv, Stages, pipelineVars
  <2>2. \A video : RenderInv(video) /\ step = "idle" => RenderInv(video)'
    BY <1>1, <1>5, ReviewMayChange
  <2> QED
    BY <2>1, <2>2 DEF RenderInv
<1>7. Stages'
  <2>1. UntouchedAsStored'
    BY <1>1, <1>3, <1>4 DEF FlowInv, Stages, UntouchedAsStored, Stored
  <2>2. touched' \subseteq 1..Len(snapshot')
    BY <1>1, <1>3, <1>4 DEF FlowInv, Stages
  <2> QED
    BY <1>1, <2>1, <2>2 DEF FlowInv, Stages, pipelineVars
<1> QED
  BY <1>2, <1>5, <1>6, <1>7 DEF FlowInv

\* the review,
LEMMA ReviewKeeps ==
    ASSUME FlowInv, Review
    PROVE  FlowInv'
<1>1. PICK i \in DOMAIN snapshot :
          \/ Edit(i, Restored(snapshot[i])) \/ Edit(i, Deleted(snapshot[i]))
          \/ Edit(i, Redacted(snapshot[i]))
          \/ Trim(i) \/ Extend(i) \/ Move(i)
  BY DEF Review
<1> DEFINE t == snapshot[i]
<1>2. stage = "reviewing" /\ WellFormed(t) /\ t.first \in Frames /\ t.last \in Frames
  BY DEF Review, FlowInv, RenderInv, Reviewed, SpansInVideo
<1>3. /\ t \in TrackRecords /\ Frames \subseteq Nat
      /\ t = [class |-> t.class, first |-> t.first, last |-> t.last, active |-> t.active,
              redacted |-> t.redacted, keys |-> t.keys]
  BY <1>2, PipelineAssumption DEF WellFormed, TrackRecords, Frames
<1>4. CASE \/ Edit(i, Restored(t)) \/ Edit(i, Deleted(t)) \/ Edit(i, Redacted(t))
  <2>1. PICK u \in {Restored(t), Deleted(t), Redacted(t)} : Edit(i, u)
    BY <1>4
  <2> HIDE DEF t
  <2>2. WellFormed(u)
    BY <1>2, FlagsAreWellFormed
  <2>3. u.first = t.first /\ u.last = t.last
    BY <1>3 DEF Restored, Deleted, Redacted
  <2> QED
    BY <1>2, <2>1, <2>2, <2>3, EditKeeps DEF t
<1>5. CASE Trim(i)
  <2>1. PICK span \in Spans, timely \in SUBSET ToSet(t.keys) :
            /\ t.first <= span[1] /\ span[2] <= t.last
            /\ Edit(i, Trimmed(t, span[1], span[2], timely))
    BY <1>5 DEF Trim
  <2> DEFINE first == span[1]
             last == span[2]
             u == Trimmed(t, first, last, timely)
  <2>2. first \in Frames /\ last \in Frames /\ first <= last
    BY DEF Spans
  <2>3. first \in Nat /\ last \in Nat /\ t.first <= first /\ last <= t.last
    BY <1>3, <2>1, <2>2
  <2>4. u = [t EXCEPT !.first = first, !.last = last, !.keys = u.keys]
    <3> HIDE DEF t, first, last
    <3> QED
      BY <1>3 DEF Trimmed
  <2>5. Edit(i, u)
    BY <2>1
  <2> HIDE DEF t, first, last
  <2>6. WellFormed(u)
    BY <1>2, <2>2, <2>3, TrimmedIsWellFormed
  <2> HIDE DEF u
  <2>7. u.first = first /\ u.last = last
    BY <1>3, <2>4
  <2> QED
    BY <1>2, <2>2, <2>5, <2>6, <2>7, EditKeeps
<1>6. CASE Extend(i)
  <2>1. PICK span \in Spans : /\ span[1] <= t.first /\ t.last <= span[2]
                              /\ Edit(i, Extended(t, span[1], span[2]))
    BY <1>6 DEF Extend
  <2> DEFINE first == span[1]
             last == span[2]
             u == Extended(t, first, last)
  <2>2. first \in Frames /\ last \in Frames
    BY DEF Spans
  <2>3. first \in Nat /\ last \in Nat /\ first <= t.first /\ t.last <= last
    BY <1>3, <2>1, <2>2
  <2>4. u = [t EXCEPT !.first = first, !.last = last]
    BY DEF Extended
  <2>5. Edit(i, u)
    BY <2>1
  <2> HIDE DEF t, first, last
  <2>6. WellFormed(u)
    BY <1>2, <2>3, ExtendedIsWellFormed
  <2> HIDE DEF u
  <2>7. u.first = first /\ u.last = last
    BY <1>3, <2>4
  <2> QED
    BY <1>2, <2>2, <2>5, <2>6, <2>7, EditKeeps
<1>7. CASE Move(i)
  <2>1. PICK f \in t.first..t.last, p \in Places : Edit(i, Moved(t, [frame |-> f, at |-> p]))
    BY <1>7 DEF Move
  <2> DEFINE key == [frame |-> f, at |-> p]
             u == Moved(t, key)
  <2>2. key \in Keyframes /\ key.frame \in t.first..t.last
    <3>1. f \in Nat
      <4>1. t.first \in Nat /\ t.last \in Nat
        BY <1>2, <1>3
      <4> QED
        BY <4>1
    <3>2. p \in Int
      BY FlowAssumption, TrackerAssumption
    <3> QED
      BY <3>1, <3>2 DEF Keyframes
  <2>3. u = [t EXCEPT !.keys = u.keys, !.active = TRUE]
    <3> HIDE DEF t, key
    <3> QED
      BY <1>3 DEF Moved
  <2>4. Edit(i, u)
    BY <2>1
  <2> HIDE DEF t, key
  <2>5. WellFormed(u)
    BY <1>2, <2>2, MovedIsWellFormed
  <2> HIDE DEF u
  <2>6. u.first = t.first /\ u.last = t.last
    BY <1>3, <2>3
  <2> QED
    BY <1>2, <2>4, <2>5, <2>6, EditKeeps
<1> QED
  BY <1>1, <1>4, <1>5, <1>6, <1>7

\* the freezing of the revision,
LEMMA BeginExportKeeps ==
    ASSUME FlowInv, BeginExport
    PROVE  FlowInv'
<1>1. /\ stage = "reviewing" /\ stage' = "exporting" /\ step' = "attempting"
      /\ UNCHANGED <<pipelineVars, snapshot, attempt, lookup, written, output,
                     linked, tracks, owed, edits, touched>>
  BY DEF BeginExport
<1>2. PipelineInv' /\ TrackerInv'
  BY <1>1, PipelineRests, TrackerRests DEF FlowInv, pipelineVars
<1>3. step = "idle"
  BY <1>1 DEF FlowInv, Stages
<1>4. ShowsReview(written)' /\ ShowsReview(output)' /\ clip' = clip
  BY <1>1 DEF FlowInv, RenderInv, ShowsReview, ShownFrames, pipelineVars
<1>5. RenderInv(clip)'
  BY <1>1, <1>3, <1>4 DEF FlowInv, RenderInv, RenderSteps
<1>6. SpansInVideo' /\ Stages'
  BY <1>1 DEF FlowInv, SpansInVideo, Stages, UntouchedAsStored, Stored, pipelineVars
<1> QED
  BY <1>2, <1>5, <1>6 DEF FlowInv

\* and the rendering.
LEMMA ExportKeeps ==
    ASSUME FlowInv, Export
    PROVE  FlowInv'
<1>1. Render(clip) /\ UNCHANGED <<pipelineVars, linked, tracks, owed, stage, edits, touched>>
  BY DEF Export, flowVars
<1>2. PipelineInv' /\ TrackerInv'
  BY <1>1, PipelineRests, TrackerRests DEF FlowInv, pipelineVars
<1>3. snapshot' = snapshot /\ step # "idle" /\ step' # "idle"
  BY <1>1 DEF Render, BeginAttempt, RenderFrame, StopReading, EncoderFailure, EncoderEnds, Validate,
              RenderRaises, NextAttempt, RenderingFails
<1>4. RenderInv(clip)'
  <2>1. RenderInv(clip) /\ clip' = clip
    BY <1>1 DEF FlowInv, pipelineVars
  <2>2. \A video : RenderInv(video) /\ Render(video) => RenderInv(video)'
    BY RenderingKeeps
  <2> QED
    BY <1>1, <2>1, <2>2 DEF RenderInv
<1>5. SpansInVideo' /\ Stages'
  BY <1>1, <1>3 DEF FlowInv, SpansInVideo, Stages, UntouchedAsStored, Stored, pipelineVars
<1> QED
  BY <1>2, <1>4, <1>5 DEF FlowInv

(***************************************************************************)
(* Every step of the flow keeps the invariant, in whatever order           *)
(* detectors, tracker, reviewer and encoders take theirs.                  *)
(***************************************************************************)
THEOREM FlowInvariant == Spec => []FlowInv
<1>1. Init => FlowInv
  BY FlowStarts
<1>2. FlowInv /\ [Next]_vars => FlowInv'
  <2> SUFFICES ASSUME FlowInv, [Next]_vars PROVE FlowInv'
    OBVIOUS
  <2>1. CASE UNCHANGED vars
    <3>1. UNCHANGED <<pipelineVars, renderVars, flowVars>> /\ UNCHANGED <<phase, analysed, clip>>
      BY <2>1 DEF vars, pipelineVars
    <3>2. PipelineInv' /\ TrackerInv' /\ RenderInv(clip)'
      BY <3>1, PipelineRests, TrackerRests, RenderRests DEF FlowInv, flowVars
    <3>3. SpansInVideo' /\ Stages'
      BY <3>1 DEF FlowInv, SpansInVideo, Stages, UntouchedAsStored, Stored, renderVars, flowVars
    <3> QED
      BY <3>2, <3>3 DEF FlowInv
  <2> QED
    BY <2>1, DetectKeeps, LinkKeeps, StoreKeeps, ReviewKeeps, BeginExportKeeps, ExportKeeps DEF Next
<1> QED
  BY <1>1, <1>2, PTL DEF Spec

-----------------------------------------------------------------------------
(***************************************************************************)
(* The tracks advance in time, the keyframes lie in the span of their      *)
(* track (domain/review.py:31-43), and no detector outlives the sampling   *)
(* loop (processing.py:713-723).                                           *)
(***************************************************************************)
THEOREM FlowConsistent == Spec => []FlowIsConsistent
<1>1. FlowInv => TypeOK
  <2> SUFFICES ASSUME FlowInv PROVE TypeOK
    OBVIOUS
  <2> USE DEF FlowInv
  <2>1. /\ phase \in PipelinePhases /\ pending \in Seq(Frames)
        /\ analysed \subseteq Frames /\ linked \subseteq analysed
    BY DEF PipelineInv, PipelineType, TrackerInv, LinkedInOrder
  <2>2. decoded \in 0..LastFrame + 1
    BY ClipType DEF PipelineInv, PipelineType
  <2>3. step \in RenderSteps /\ attempt \in DOMAIN Encoders
    BY RenderingAssumption DEF RenderInv
  <2>4. ASSUME NEW t \in ToSet(tracks), NEW i \in 1..(Len(t.points) - 1)
        PROVE  t.points[i].frame < t.points[i + 1].frame
    <3>1. Advances(t.points)
      BY DEF ToSet, TrackerInv, TracksAdvance
    <3>2. i \in 1..Len(t.points) /\ i + 1 \in 1..Len(t.points) /\ i < i + 1
      BY <3>1, PointTypes
    <3> QED
      BY <3>1, <3>2 DEF Advances, Rising
  <2>5. ASSUME NEW t \in ToSet(snapshot)
        PROVE  /\ t.first \in Frames /\ t.last \in Frames /\ t.first <= t.last
               /\ t.keys # <<>> /\ \A k \in ToSet(t.keys) : k.frame \in t.first..t.last
    <3>1. WellFormed(t) /\ t.first \in Frames /\ t.last \in Frames
      BY DEF ToSet, RenderInv, Reviewed, SpansInVideo
    <3>2. t.keys \in Seq(Keyframes)
      BY <3>1, KeyTypes
    <3> QED
      BY <3>1, <3>2 DEF WellFormed, ToSet
  <2>6. stage \in {"detecting", "reviewing", "exporting"} /\ touched \subseteq DOMAIN snapshot
    BY DEF Stages, RenderInv, Reviewed
  <2> QED
    BY <2>1, <2>2, <2>3, <2>4, <2>5, <2>6 DEF TypeOK
<1> QED
  BY <1>1, FlowInvariant, DetectorsEndWithTheLoop, PTL DEF FlowIsConsistent

(***************************************************************************)
(* Every frame given to an encoder carries the redactions that             *)
(* box_at_frame defines for the reviewed tracks at that frame, in every    *)
(* attempt, and a published export has every frame the video promises but  *)
(* for the tolerance (rendering.py:81-229, export.py:482-522).             *)
(***************************************************************************)
THEOREM RenderingIsExact == Spec => []ShownAsReviewed
<1>1. FlowInv => ShownAsReviewed
  BY RenderedShowsReview DEF FlowInv, ShownAsReviewed
<1> QED
  BY <1>1, FlowInvariant, PTL

(***************************************************************************)
(* Every confident detection that was kept is a point of exactly one       *)
(* track, every track begins with one and is never without an observation  *)
(* for more than MaxGap frames, and a doubtful detection never takes a     *)
(* track from a confident one (processing.py:590-655,                      *)
(* tracking.py:301-361): whatever the overlaps, the costs and the order    *)
(* of the detections are.                                                  *)
(***************************************************************************)
THEOREM TracksFromDetections == Spec => []TracksOweToDetections
<1>1. FlowInv => TracksOweToDetections
  <2> SUFFICES ASSUME FlowInv PROVE TracksOweToDetections
    OBVIOUS
  <2> USE DEF FlowInv, TrackerInv
  <2>1. /\ DOMAIN tracks = 1..Len(tracks)
        /\ \A t \in ToSet(tracks) : \E i \in 1..Len(tracks) : t = tracks[i]
        /\ \A i \in 1..Len(tracks) : tracks[i].points \in Seq(TrackPoints)
    BY DEF TracksAdvance, ToSet, Advances
  <2>2. ASSUME NEW d \in owed
        PROVE  Cardinality({i \in DOMAIN tracks :
                   tracks[i].class = d.class /\ [frame |-> d.frame, at |-> d.at] \in ToSet(tracks[i].points)}) = 1
    <3>1. \A i \in 1..Len(tracks) :
              Observes(tracks[i], d) <=>
                  /\ tracks[i].class = d.class
                  /\ [frame |-> d.frame, at |-> d.at] \in ToSet(tracks[i].points)
      BY <2>1 DEF Observes, ToSet
    <3>2. PICK i \in 1..Len(tracks) : Observes(tracks[i], d)
      BY DEF OneTrackEach
    <3>3. \A j \in 1..Len(tracks) : Observes(tracks[j], d) => j = i
      BY <3>2 DEF OneTrackEach
    <3> DEFINE S == {j \in DOMAIN tracks :
                        /\ tracks[j].class = d.class
                        /\ [frame |-> d.frame, at |-> d.at] \in ToSet(tracks[j].points)}
    <3>4. S = {i}
      BY <2>1, <3>1, <3>2, <3>3
    <3> HIDE DEF S
    <3>5. Cardinality(S) = 1
      BY <3>4, FS_Singleton
    <3> QED
      BY <3>5 DEF S
  <2>3. ASSUME NEW t \in ToSet(tracks)
        PROVE  /\ \E d \in owed : d.class = t.class /\ d.frame = t.points[1].frame /\ d.at = t.points[1].at
               /\ \A i \in 1..(Len(t.points) - 1) : t.points[i + 1].frame - t.points[i].frame - 1 <= MaxGap
    <3>1. PICK i \in 1..Len(tracks) : t = tracks[i]
      BY <2>1
    <3> QED
      BY <3>1 DEF BegunSure, NeverLost
  <2>4. ASSUME NEW t \in ToSet(tracks), NEW u \in ToSet(tracks), NEW n \in 2..Len(t.points),
               [class |-> t.class, frame |-> t.points[n].frame, at |-> t.points[n].at] \notin owed,
               u.points[1].frame = t.points[n].frame
        PROVE  ~Candidate([t EXCEPT !.points = SubSeq(@, 1, n - 1)],
                          [class |-> u.class, at |-> u.points[1].at, sure |-> TRUE], t.points[n].frame)
    <3>1. PICK i \in 1..Len(tracks) : t = tracks[i]
      BY <2>1
    <3>2. PICK j \in 1..Len(tracks) : u = tracks[j]
      BY <2>1
    <3>3. ~Candidate(Until(t, n), [class |-> u.class, at |-> u.points[1].at, sure |-> TRUE], t.points[n].frame)
      BY <2>4, <3>1, <3>2 DEF DoubtsYield
    <3> QED
      BY <3>3 DEF Until
  <2> QED
    BY <2>2, <2>3, <2>4 DEF TracksOweToDetections
<1> QED
  BY <1>1, FlowInvariant, PTL

(***************************************************************************)
(* From end to end: an export shows a redaction wherever a track lasts     *)
(* that no reviewer has touched, at an observed frame between the places   *)
(* of the observations that the smoothing averages (processing.py,         *)
(* tracking.py, rendering.py, export.py together).                         *)
(***************************************************************************)
THEOREM DetectedIsShown == Spec => []DetectedIsRedacted
<1>1. FlowInv => DetectedIsRedacted
  <2> SUFFICES ASSUME FlowInv, NEW i \in DOMAIN tracks, NEW n \in DOMAIN output,
                      NEW points, points = tracks[i].points,
                      NEW here, here = {r \in output[n] : r.track = i /\ r.class = tracks[i].class},
                      stage = "exporting", i \notin touched, n - 1 \in points[1].frame..Last(points).frame
               PROVE  /\ here # {}
                      /\ \A j \in DOMAIN points : points[j].frame = n - 1 =>
                             LET near == {points[k].at : k \in Window(points, j)}
                             IN  \A r \in here : Min(near) <= r.at /\ r.at <= Max(near)
    BY DEF DetectedIsRedacted, Window
  <2> USE DEF FlowInv
  <2> DEFINE t == tracks[i]
             s == snapshot[i]
             f == n - 1
  <2>1. /\ i \in 1..Len(tracks) /\ t \in Tracks /\ Advances(points) /\ Len(snapshot) = Len(tracks)
        /\ s = Stored(t) /\ i \in DOMAIN snapshot
    BY DEF TrackerInv, TracksAdvance, Stages, UntouchedAsStored, RenderInv, Reviewed
  <2>2. output[n] = RedactionsAt(snapshot, f)
    BY DEF RenderInv, ShowsReview
  <2>3. /\ WellFormed(s) /\ s.first = points[1].frame /\ s.last = Last(points).frame
        /\ s.class = t.class /\ Shown(s) /\ s.keys = Smoothed(points) /\ Len(s.keys) = Len(points)
    <3>1. t.class \in STRING /\ Advances(t.points)
      BY <2>1 DEF Tracks
    <3> HIDE DEF t, s
    <3> QED
      BY <2>1, <3>1, StoredIsWellFormed DEF t
  <2>4. /\ s.keys \in Seq(TrackPoints)
        /\ \A j \in 1..Len(points) :
               /\ s.keys[j].frame = points[j].frame
               /\ \A lo, hi \in Int :
                     (\A k \in Window(points, j) : lo <= points[k].at /\ points[k].at <= hi)
                         => lo <= s.keys[j].at /\ s.keys[j].at <= hi
    <3> DEFINE keys == s.keys
    <3>1. keys = Smoothed(points)
      BY <2>3
    <3> HIDE DEF keys
    <3>2. IsSmoothing(keys, points)
      BY <2>1, <3>1, SmoothedWithin
    <3> QED
      BY <3>2 DEF keys, IsSmoothing
  <2>5. BoxAt(s, f) \in Int /\ BoxAt(s, f) >= 0
    <3>1. f \in s.first..s.last
      BY <2>3
    <3>2. \A k \in 1..Len(s.keys) : s.keys[k].at >= 0
      <4>1. \A k \in 1..Len(s.keys) : s.keys[k] \in TrackPoints
        BY <2>4
      <4>2. \A x \in TrackPoints : x.at >= 0
        BY TrackerAssumption DEF TrackPoints
      <4> HIDE DEF s
      <4> QED
        BY <4>1, <4>2
    <3> HIDE DEF f, s
    <3> QED
      BY <2>3, <3>1, <3>2, BoxWithinSpan, SMTT(30)
  <2>6. \A r \in here : r.at = BoxAt(s, f)
    BY <2>2 DEF RedactionsAt
  <2>7. here # {}
    <3> DEFINE r == [track |-> i, class |-> s.class, at |-> BoxAt(s, f)]
    <3>1. r \in output[n]
      BY <2>1, <2>2, <2>3, <2>5 DEF RedactionsAt, NoBox
    <3> QED
      BY <2>3, <3>1
  <2>8. ASSUME NEW j \in DOMAIN points, points[j].frame = f, NEW r \in here,
               NEW near, near = {points[k].at : k \in Window(points, j)}
        PROVE  Min(near) <= r.at /\ r.at <= Max(near)
    <3>1. /\ j \in 1..Len(points) /\ Len(points) \in Nat
          /\ \A k \in 1..Len(points) : points[k].at \in Nat /\ points[k].at <= Rightmost
      BY <2>1, PointTypes, TrackerAssumption DEF Advances
    <3>2. j \in Window(points, j) /\ Window(points, j) \subseteq 1..Len(points)
      BY <3>1, WindowAround
    <3>3. near \in SUBSET Nat /\ near # {} /\ Rightmost \in Nat /\ \A x \in near : x <= Rightmost
      <4>1. \A k \in Window(points, j) : points[k].at \in Nat /\ points[k].at <= Rightmost
        BY <3>1, <3>2
      <4>2. \A x \in near : x \in Nat /\ x <= Rightmost
        BY <2>8, <4>1
      <4>3. points[j].at \in near
        BY <2>8, <3>2
      <4> QED
        BY <4>2, <4>3, TrackerAssumption
    <3>4. Min(near) \in near /\ \A x \in near : Min(near) <= x
      BY <3>3, MinIsLeast
    <3>5. Max(near) \in near /\ \A x \in near : x <= Max(near)
      BY <3>3, MaxIsGreatest
    <3>6. r.at = s.keys[j].at
      <4>1. s.keys[j].frame = f /\ j \in 1..Len(s.keys)
        BY <2>3, <2>4, <2>8, <3>1
      <4> HIDE DEF s, f
      <4> QED
        BY <2>3, <2>6, <2>8, <4>1, BoxAtKeyframe
    <3> DEFINE lo == Min(near)
               hi == Max(near)
    <3>7. lo \in near /\ hi \in near
      BY <3>4, <3>5
    <3>8. \A k \in Window(points, j) : lo <= points[k].at /\ points[k].at <= hi
      BY <2>8, <3>4, <3>5
    <3> HIDE DEF lo, hi, s
    <3>10. lo \in Int /\ hi \in Int
      BY <3>3, <3>7
    <3>9. lo <= s.keys[j].at /\ s.keys[j].at <= hi
      BY <2>4, <3>1, <3>8, <3>10
    <3> QED
      BY <3>6, <3>9 DEF lo, hi
  <2> QED
    BY <2>7, <2>8
<1> QED
  BY <1>1, FlowInvariant, PTL

=============================================================================
