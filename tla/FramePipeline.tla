---------------------------- MODULE FramePipeline ----------------------------
(***************************************************************************)
(* The sampling loop of detection (ProcessingService._process): one thread *)
(* decodes the proxy and hands every sampled frame to a thread pool per    *)
(* detector; it waits for the oldest frame in flight before it reads on,   *)
(* and it tears the pools down on every way out.                           *)
(*                                                                         *)
(* What the detectors find is drawn where it is first looked at, when the  *)
(* tracker takes the frame (RedactionFlow); here a task is done or failed. *)
(***************************************************************************)
EXTENDS Integers, Sequences, FiniteSets

CONSTANTS
    Concurrency,   \* Concurrency[d]: max_concurrency of detector d, in binding order
    SampleEvery,   \* sample_every_frames
    LastFrame,     \* bound: frames are 0..LastFrame
    Clips          \* <<n, e>>: n frames can be decoded, the header estimates e

ASSUME PipelineAssumption ==
    /\ Concurrency \in Seq(Nat \ {0}) /\ Concurrency # <<>>
    /\ SampleEvery \in Nat \ {0}
    /\ LastFrame \in Nat
    /\ Clips \subseteq (0..LastFrame + 1) \X (Nat \ {0})

VARIABLES
    phase,      \* where _process stands
    clip,       \* the proxy
    decoded,    \* frames_decoded
    pending,    \* pending_frames, oldest first
    task,       \* task[d][f]: the future of detector d for frame f
    analysed,   \* the frames whose results were consumed
    raised,     \* an exception is on its way out
    cut         \* history: a grabbed frame could not be retrieved

pipelineVars == <<phase, clip, decoded, pending, task, analysed, raised, cut>>

Frames    == 0..LastFrame
Detectors == DOMAIN Concurrency
Length    == clip[1]
Estimated == clip[2]

MaxInFlight == CHOOSE n \in {Concurrency[d] : d \in Detectors} :
                   \A d \in Detectors : Concurrency[d] <= n

PipelinePhases == {"decoding", "draining", "closing", "joining", "failed", "linking"}
Waiting == {"queued", "running"}

PipelineInit ==
    /\ phase = "decoding"
    /\ clip \in Clips
    /\ decoded = 0
    /\ pending = <<>>
    /\ task = [d \in Detectors |-> [f \in Frames |-> "none"]]
    /\ analysed = {}
    /\ raised = FALSE /\ cut = FALSE

\* Faulty variant: only every k-th frame.
EveryNth(f) == f % SampleEvery = 0

\* The last k frames of the estimate are all looked at.
Sampled(f) == f % SampleEvery = 0 \/ f >= Estimated - SampleEvery

\* The loop's thread does not read on while MaxInFlight frames are pending.
Grab == phase = "decoding" /\ Len(pending) < MaxInFlight

PassFrame ==
    /\ Grab /\ decoded < Length /\ ~Sampled(decoded)
    /\ decoded' = decoded + 1
    /\ UNCHANGED <<phase, clip, pending, task, analysed, raised, cut>>

SubmitFrame ==
    /\ Grab /\ decoded < Length /\ Sampled(decoded)
    /\ decoded' = decoded + 1
    /\ pending' = Append(pending, decoded)
    /\ task' = [d \in Detectors |-> [task[d] EXCEPT ![decoded] = "queued"]]
    /\ UNCHANGED <<phase, clip, analysed, raised, cut>>

\* A frame that is grabbed but not retrieved ends the loop like the last one.
StopDecoding ==
    /\ Grab
    /\ \/ decoded = Length /\ UNCHANGED <<decoded, cut>>
       \/ /\ decoded < Length /\ Sampled(decoded)
          /\ decoded' = decoded + 1
          /\ cut' = TRUE
    /\ phase' = "draining"
    /\ UNCHANGED <<clip, pending, task, analysed, raised>>

\* The thread pools: oldest first, as many at a time as the detector allows.
RunTask(d, f) ==
    /\ task[d][f] = "queued"
    /\ \A g \in Frames : task[d][g] = "queued" => f <= g
    /\ Cardinality({g \in Frames : task[d][g] = "running"}) < Concurrency[d]
    /\ task' = [task EXCEPT ![d][f] = "running"]
    /\ UNCHANGED <<phase, clip, decoded, pending, analysed, raised, cut>>

EndTask(d, f) ==
    /\ task[d][f] = "running"
    /\ \E outcome \in {"done", "error"} : task' = [task EXCEPT ![d][f] = outcome]
    /\ UNCHANGED <<phase, clip, decoded, pending, analysed, raised, cut>>

Turn == \/ phase = "decoding" /\ Len(pending) >= MaxInFlight
        \/ phase = "draining" /\ pending # <<>>

\* consume_frame waits for the futures of the oldest frame, detector by detector.
Consume ==
    /\ Turn
    /\ \A d \in Detectors : task[d][Head(pending)] = "done"
    /\ analysed' = analysed \cup {Head(pending)}
    /\ pending' = Tail(pending)
    /\ UNCHANGED <<phase, clip, decoded, task, raised, cut>>

Leave(exception) ==
    /\ phase' = "closing"
    /\ raised' = exception
    /\ UNCHANGED <<clip, decoded, pending, task, analysed, cut>>

\* A detector raised, or returned a class it may not.
ConsumeRaises ==
    /\ Turn
    /\ \/ \E d \in Detectors :
           /\ task[d][Head(pending)] = "error"
           /\ \A c \in Detectors : c < d => task[c][Head(pending)] = "done"
       \/ \A d \in Detectors : task[d][Head(pending)] = "done"
    /\ Leave(TRUE)

Drained == phase = "draining" /\ pending = <<>> /\ Leave(FALSE)

\* The finally clause: what is queued is cancelled, what runs is waited for.
Cancel ==
    /\ phase = "closing"
    /\ phase' = "joining"
    /\ task' = [d \in Detectors |-> [f \in Frames |->
                   IF task[d][f] = "queued" THEN "cancelled" ELSE task[d][f]]]
    /\ UNCHANGED <<clip, decoded, pending, analysed, raised, cut>>

AfterPools == IF raised \/ decoded = 0 THEN "failed" ELSE "linking"

\* Faulty variant: the pools are shut down without waiting.
JoinNothing ==
    /\ phase = "joining"
    /\ phase' = AfterPools
    /\ UNCHANGED <<clip, decoded, pending, task, analysed, raised, cut>>

Join ==
    /\ phase = "joining"
    /\ \A d \in Detectors, f \in Frames : task[d][f] # "running"
    /\ phase' = AfterPools
    /\ UNCHANGED <<clip, decoded, pending, task, analysed, raised, cut>>

Loop  == PassFrame \/ SubmitFrame \/ StopDecoding \/ Consume \/ ConsumeRaises
         \/ Drained \/ Cancel \/ Join
Pools == \E d \in Detectors, f \in Frames : RunTask(d, f) \/ EndTask(d, f)

-----------------------------------------------------------------------------
NoDetectorOutlivesTheLoop ==
    phase \notin {"decoding", "draining", "closing", "joining"} =>
        \A d \in Detectors, f \in Frames : task[d][f] \notin Waiting

(***************************************************************************)
(* What can be decoded was looked at: never k frames in a row were passed  *)
(* over, and the last frame was not unless the header promised more frames *)
(* than there are.  It does not hold once a frame could not be retrieved,  *)
(* which ends the loop as the end of the video does (processing.py:679).   *)
(***************************************************************************)
TheTailIsAnalysed ==
    phase \notin PipelinePhases \ {"linking"} /\ ~cut =>
        /\ \A f \in 0..(Length - 1) : \E g \in analysed : g \in (f - SampleEvery + 1)..f
        /\ Estimated <= Length => Length - 1 \in analysed

=============================================================================
