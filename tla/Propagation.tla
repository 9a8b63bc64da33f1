----------------------------- MODULE Propagation -----------------------------
(***************************************************************************)
(* From a corrected frame to suggestions for its neighbours: which frames  *)
(* a reprocessing job reads and for which of them it has a candidate       *)
(* (services/reprocessing.py).  Geometry is left out: whether a tracker    *)
(* step succeeds and is conservative is a set of frames, whether frames    *)
(* can be decoded is the first one that cannot.                            *)
(***************************************************************************)
EXTENDS Integers, Sequences, FiniteSets

CONSTANTS
    FrameRate,         \* frames per second, an integer here
    WindowSeconds,     \* how far a correction reaches, in each direction
    SamplesPerSecond,  \* _PROPAGATION_SAMPLES_PER_SECOND
    MaxFrames          \* _MAX_PROPAGATION_FRAMES

ASSUME PropagationAssumption ==
    {FrameRate, WindowSeconds, SamplesPerSecond, MaxFrames} \subseteq Nat \ {0}

AtLeast(a, b) == IF a < b THEN b ELSE a
AtMost(a, b)  == IF a > b THEN b ELSE a

\* Python's round of n / d: to the nearest, ties to even.
Rounded(n, d) ==
    LET q == n \div d
        r == 2 * (n % d)
    IN  IF r < d \/ (r = d /\ q % 2 = 0) THEN q ELSE q + 1

WindowFrames == AtLeast(WindowSeconds * FrameRate, 1)

\* The frames around seed that lie in the window and in the span of the track.
WindowStart(seed, first) == AtLeast(first, seed - WindowFrames)
WindowEnd(seed, last)    == AtMost(last, seed + WindowFrames)

Stride(span) ==
    LET sampling == AtLeast(Rounded(FrameRate, SamplesPerSecond), 1)
    IN  CHOOSE s \in sampling..(sampling + span) :
            /\ span \div s <= MaxFrames
            /\ \A smaller \in sampling..(s - 1) : span \div smaller > MaxFrames

\* Faulty variant: the samples start at the seed itself.
BackwardWithSeed(seed, start, stride) ==
    [i \in 1..((seed - start) \div stride + 1) |-> seed - (i - 1) * stride]

\* Nearest first, as the tracker visits them.
Backward(seed, start, stride) ==
    [i \in 1..((seed - start) \div stride) |-> seed - i * stride]

Forward(seed, end, stride) ==
    [i \in 1..((end - seed) \div stride) |-> seed + i * stride]

Samples(seed, start, end) ==
    LET stride == Stride(end - start)
    IN  [backward |-> Backward(seed, start, stride), forward |-> Forward(seed, end, stride)]

Elements(s) == {s[i] : i \in DOMAIN s}

Wanted(seed, start, end) ==
    LET s == Samples(seed, start, end)
    IN  {seed} \cup Elements(s.backward) \cup Elements(s.forward)

\* One walk through the stream, which ends at the first frame that fails.
ReadAscending(wanted, failing) == {f \in wanted : f < failing}

\* A tracker goes on until a frame is missing or a step is refused.
Chain(indices, usable) ==
    {indices[i] : i \in {k \in DOMAIN indices : \A m \in 1..k : indices[m] \in usable}}

\* A frame that was read, and on which the tracker takes a conservative step.
Usable(good, read) == good \cap read

\* good: the frames on which the tracker would take a conservative step;
\* initialized: the directions whose tracker accepts the corrected box.
PropagateCsrt(seed, start, end, failing, good, initialized) ==
    LET s == Samples(seed, start, end)
        usable == Usable(good, ReadAscending(Wanted(seed, start, end), failing))
        In(direction, indices) ==
            IF direction \in initialized THEN Chain(indices, usable) ELSE {}
    IN  In("backward", s.backward) \cup In("forward", s.forward)

PropagateFallback(seed, start, end, failing) ==
    ReadAscending(start..end, failing) \ {seed}

\* What _run may come to: with trackers if the build has them and one of them
\* accepts the corrected box, else by interpolation.
Candidates(seed, start, end) ==
    LET wanted  == Wanted(seed, start, end)
        tracked ==
            {PropagateCsrt(seed, start, end, last + 1, good, initialized) :
                last \in {f \in wanted : f >= seed},
                good \in SUBSET wanted,
                initialized \in SUBSET {"backward", "forward"} \ {{}}}
    IN  tracked \cup {PropagateFallback(seed, start, end, failing) :
                         failing \in start..(end + 1)}

=============================================================================
