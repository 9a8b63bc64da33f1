------------------------------ MODULE Rendering ------------------------------
(***************************************************************************)
(* Rendering a frozen review (ExportService._render_video): one attempt    *)
(* per encoder, hardware first; an attempt decodes the original, redacts   *)
(* frame by frame and pipes the frames into the encoder; its file is       *)
(* probed before it takes the place of the export.                         *)
(*                                                                         *)
(* A video is <<n, e>>: n frames can be decoded, its metadata promises e.  *)
(***************************************************************************)
EXTENDS RedactionLookup

CONSTANTS
    Encoders,   \* Encoders[a]: the encoder of attempt a is hardware
    Tolerance   \* frame_tolerance_ms, in frames

ASSUME RenderingAssumption ==
    /\ Encoders \in Seq(BOOLEAN) /\ Encoders # <<>>
    /\ Tolerance \in Nat

VARIABLES
    snapshot,   \* the tracks of the frozen revision
    step,       \* how far the renderer has come
    attempt,    \* the attempt, from 1
    lookup,     \* its SequentialRedactionLookup
    written,    \* written[i]: the redactions of the i-th frame given to the encoder
    output      \* the frames of the file at the destination

renderVars == <<snapshot, step, attempt, lookup, written, output>>

RenderSteps == {"idle", "attempting", "rendering", "encoding", "encoded", "exported", "failed"}

NoOutput == <<>>

RenderInit ==
    /\ snapshot = <<>> /\ step = "idle" /\ attempt = 1
    /\ lookup = NewLookup(<<>>)
    /\ written = <<>> /\ output = NoOutput

RenderingFails == /\ step' = "failed" /\ UNCHANGED <<snapshot, attempt, lookup, written, output>>

\* Faulty variant: the same encoder is tried again.
SameAttempt ==
    /\ step' = "attempting" /\ written' = <<>> /\ UNCHANGED <<snapshot, attempt, lookup, output>>

\* The next encoder after a hardware encoder; the partial file is deleted.
NextAttempt ==
    IF Encoders[attempt] /\ attempt < Len(Encoders)
    THEN /\ step' = "attempting"
         /\ attempt' = attempt + 1
         /\ written' = <<>>
         /\ UNCHANGED <<snapshot, lookup, output>>
    ELSE RenderingFails

BeginAttempt ==
    /\ step = "attempting"
    /\ step' = "rendering"
    /\ lookup' = NewLookup(snapshot)
    /\ UNCHANGED <<snapshot, attempt, written, output>>

RenderFrame(video) ==
    /\ step = "rendering" /\ Len(written) < video[1]
    /\ lookup' = MovedTo(lookup, snapshot, Len(written))
    /\ written' = Append(written, FoundAt(lookup', snapshot, Len(written)))
    /\ UNCHANGED <<snapshot, step, attempt, output>>

\* A frame that cannot be decoded ends the loop like the last one.
StopReading ==
    /\ step = "rendering"
    /\ step' = "encoding"
    /\ UNCHANGED <<snapshot, attempt, lookup, written, output>>

\* The encoder cannot be started, closes its pipe, or ends with an error, or
\* the probe refuses what it made.
EncoderFailure == step \in {"attempting", "rendering", "encoding", "encoded"} /\ NextAttempt

\* The file has the frames written or, at worst, some of the first of them.
EncoderEnds ==
    /\ step = "encoding"
    /\ IF written = <<>> THEN RenderingFails
       ELSE /\ step' = "encoded"
            /\ \E n \in 1..Len(written) : written' = SubSeq(written, 1, n)
            /\ UNCHANGED <<snapshot, attempt, lookup, output>>

LengthIsPlausible(video) ==
    Len(written) \in (video[2] - Tolerance)..(video[2] + Tolerance)

\* The file is probed, and replaces the destination if it is plausible.
Validate(video) ==
    /\ step = "encoded"
    /\ IF LengthIsPlausible(video)
       THEN /\ step' = "exported"
            /\ output' = written
            /\ UNCHANGED <<snapshot, attempt, lookup, written>>
       ELSE NextAttempt

\* The job was given up, the original cannot be opened, a frame changed its size,
\* the file could not be moved.
RenderRaises == step \in {"attempting", "rendering", "encoded"} /\ RenderingFails

Render(video) ==
    \/ BeginAttempt \/ RenderFrame(video) \/ StopReading
    \/ EncoderFailure \/ EncoderEnds \/ Validate(video) \/ RenderRaises

-----------------------------------------------------------------------------
RenderedAsReviewed(video) ==
    /\ \A i \in DOMAIN written : written[i] = RedactionsAt(snapshot, i - 1)
    /\ step = "exported" =>
           /\ Len(output) \in (video[2] - Tolerance)..(video[2] + Tolerance)
           /\ \A i \in DOMAIN output : output[i] = RedactionsAt(snapshot, i - 1)

=============================================================================
