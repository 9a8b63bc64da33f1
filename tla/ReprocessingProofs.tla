-------------------------- MODULE ReprocessingProofs --------------------------
(***************************************************************************)
(* Theorems about modules Propagation and Reprocessing, for windows, clips *)
(* and sampling of any size, and any number of jobs, reviewers and edits.  *)
(***************************************************************************)
EXTENDS Reprocessing, FiniteSetTheorems, TLAPS

-----------------------------------------------------------------------------
(* Strides.                                                                *)

LEMMA Quotient ==
    ASSUME NEW n \in Nat, NEW d \in Nat \ {0}
    PROVE  /\ n \div d \in Nat
           /\ d * (n \div d) <= n
           /\ n < d * (n \div d) + d
OBVIOUS

\* A smaller number of whole strides lies within.
LEMMA StridesWithin ==
    ASSUME NEW n \in Nat, NEW d \in Nat \ {0}, NEW i \in 1..(n \div d)
    PROVE  d <= i * d /\ i * d <= n
<1> DEFINE q == n \div d
<1>1. q \in Nat /\ d * q <= n /\ i \in 1..q
  BY Quotient
<1> HIDE DEF q
<1>2. i * d <= d * q
  BY <1>1
<1>3. d <= i * d
  BY <1>1
<1> QED
  BY <1>1, <1>2, <1>3

LEMMA QuotientBound ==
    ASSUME NEW n \in Nat, NEW m \in Nat, NEW d \in Nat \ {0}
    PROVE  n \div d <= m <=> n < d * (m + 1)
<1> DEFINE q == n \div d
<1>1. q \in Nat /\ d * q <= n /\ n < d * q + d
  BY Quotient
<1> HIDE DEF q
<1>2. ASSUME q <= m PROVE n < d * (m + 1)
  <2>1. d * q <= d * m
    BY <1>1, <1>2
  <2> QED
    BY <1>1, <2>1
<1>3. ASSUME q > m PROVE n >= d * (m + 1)
  <2>1. d * (m + 1) <= d * q
    BY <1>1, <1>3
  <2> QED
    BY <1>1, <2>1
<1> QED
  BY <1>1, <1>2, <1>3 DEF q

LEMMA SamplingType ==
    AtLeast(Rounded(FrameRate, SamplesPerSecond), 1) \in Nat \ {0}
<1>1. FrameRate \div SamplesPerSecond \in Nat
  BY Quotient, PropagationAssumption
<1>2. Rounded(FrameRate, SamplesPerSecond) \in Nat
  BY <1>1 DEF Rounded
<1> QED
  BY <1>2 DEF AtLeast

(***************************************************************************)
(* The stride that is chosen exists, and keeps the samples within the      *)
(* limit.                                                                  *)
(***************************************************************************)
LEMMA StrideIsEnough ==
    ASSUME NEW span \in Nat
    PROVE  Stride(span) \in Nat \ {0} /\ span \div Stride(span) <= MaxFrames
<1> DEFINE sampling == AtLeast(Rounded(FrameRate, SamplesPerSecond), 1)
           k == span \div (MaxFrames + 1)
           s == AtLeast(sampling, k + 1)
<1>0. MaxFrames \in Nat \ {0} /\ sampling \in Nat \ {0}
  BY SamplingType, PropagationAssumption
<1>1. k \in Nat /\ (MaxFrames + 1) * k <= span /\ span < (MaxFrames + 1) * k + (MaxFrames + 1)
  <2>1. MaxFrames + 1 \in Nat \ {0}
    BY <1>0
  <2> QED
    BY <2>1, Quotient
<1> HIDE DEF sampling, k
<1>2. k <= span
  <2>1. k <= (MaxFrames + 1) * k
    BY <1>0, <1>1
  <2> QED
    BY <1>0, <1>1, <2>1
<1>3. s \in sampling..(sampling + span)
  BY <1>0, <1>1, <1>2 DEF AtLeast
<1>4. span \div s <= MaxFrames
  <2>1. s \in Nat \ {0} /\ k + 1 <= s
    BY <1>0, <1>1 DEF AtLeast
  <2> HIDE DEF s
  <2>2. (MaxFrames + 1) * (k + 1) <= s * (MaxFrames + 1)
    BY <1>0, <1>1, <2>1
  <2>3. (MaxFrames + 1) * k + (MaxFrames + 1) = (MaxFrames + 1) * (k + 1)
    BY <1>0, <1>1
  <2>4. span < s * (MaxFrames + 1)
    BY <1>0, <1>1, <2>1, <2>2, <2>3
  <2> QED
    BY <1>0, <2>1, <2>4, QuotientBound
<1>5. ASSUME NEW smaller \in sampling..(s - 1)
      PROVE  span \div smaller > MaxFrames
  <2>1. smaller \in Nat \ {0} /\ smaller <= k
    BY <1>0, <1>1 DEF AtLeast
  <2>2. smaller * (MaxFrames + 1) <= (MaxFrames + 1) * k
    BY <1>0, <1>1, <2>1
  <2>3. ~(span < smaller * (MaxFrames + 1))
    BY <1>0, <1>1, <2>1, <2>2
  <2>4. ~(span \div smaller <= MaxFrames) /\ span \div smaller \in Nat
    BY <1>0, <2>1, <2>3, QuotientBound, Quotient
  <2> QED
    BY <1>0, <2>4
<1> DEFINE P(t) == /\ span \div t <= MaxFrames
                   /\ \A smaller \in sampling..(t - 1) : span \div smaller > MaxFrames
<1>6. P(s)
  BY <1>4, <1>5
<1>7. Stride(span) = CHOOSE t \in sampling..(sampling + span) : P(t)
  BY DEF Stride, sampling
<1> HIDE DEF P, s
<1>8. Stride(span) \in sampling..(sampling + span) /\ P(Stride(span))
  BY <1>3, <1>6, <1>7
<1> QED
  BY <1>0, <1>8 DEF P

-----------------------------------------------------------------------------
(* Samples, candidates and the frames that are held.                       *)

LEMMA SamplesFit ==
    ASSUME NEW start \in Int, NEW seed \in Int, NEW end \in Int, start <= seed, seed <= end
    PROVE  LET s == Samples(seed, start, end)
           IN  /\ \A i \in DOMAIN s.backward : s.backward[i] \in start..(seed - 1)
               /\ \A i \in DOMAIN s.forward : s.forward[i] \in (seed + 1)..end
<1> DEFINE d == Stride(end - start)
           s == Samples(seed, start, end)
<1>1. d \in Nat \ {0}
  BY StrideIsEnough
<1>2. s = [backward |-> Backward(seed, start, d), forward |-> Forward(seed, end, d)]
  BY DEF Samples
<1> HIDE DEF d, s
<1>3. \A i \in DOMAIN s.backward : s.backward[i] \in start..(seed - 1)
  <2> SUFFICES ASSUME NEW i \in 1..((seed - start) \div d)
               PROVE  seed - i * d \in start..(seed - 1)
    BY <1>2 DEF Backward
  <2>1. d <= i * d /\ i * d <= seed - start
    BY <1>1, StridesWithin
  <2>2. i * d \in Int
    BY <1>1
  <2> QED
    BY <1>1, <2>1, <2>2
<1>4. \A i \in DOMAIN s.forward : s.forward[i] \in (seed + 1)..end
  <2> SUFFICES ASSUME NEW i \in 1..((end - seed) \div d)
               PROVE  seed + i * d \in (seed + 1)..end
    BY <1>2 DEF Forward
  <2>1. d <= i * d /\ i * d <= end - seed
    BY <1>1, StridesWithin
  <2>2. i * d \in Int
    BY <1>1
  <2> QED
    BY <1>1, <2>1, <2>2
<1> QED
  BY <1>3, <1>4 DEF s

(***************************************************************************)
(* Whatever the trackers do and whichever frames cannot be read, a         *)
(* candidate lies in the window and is not the corrected frame.            *)
(***************************************************************************)
LEMMA CandidatesFit ==
    ASSUME NEW start \in Int, NEW seed \in Int, NEW end \in Int, start <= seed, seed <= end,
           NEW found \in Candidates(seed, start, end)
    PROVE  found \subseteq (start..end) \ {seed}
<1>1. CASE \E failing : found = PropagateFallback(seed, start, end, failing)
  BY <1>1 DEF PropagateFallback, ReadAscending
<1>2. CASE \E failing, good, initialized :
               found = PropagateCsrt(seed, start, end, failing, good, initialized)
  <2> DEFINE s == Samples(seed, start, end)
  <2>1. found \subseteq Elements(s.backward) \cup Elements(s.forward)
    BY <1>2 DEF PropagateCsrt, Chain, Elements
  <2>2. /\ \A i \in DOMAIN s.backward : s.backward[i] \in start..(seed - 1)
        /\ \A i \in DOMAIN s.forward : s.forward[i] \in (seed + 1)..end
    BY SamplesFit
  <2> HIDE DEF s
  <2>3. Elements(s.backward) \subseteq start..(seed - 1)
    BY <2>2 DEF Elements
  <2>4. Elements(s.forward) \subseteq (seed + 1)..end
    BY <2>2 DEF Elements
  <2> QED
    BY <2>1, <2>3, <2>4
<1> QED
  BY <1>1, <1>2 DEF Candidates

\* A sequence of n frames has at most n elements.
LEMMA FewElements ==
    ASSUME NEW n \in Nat, NEW s, DOMAIN s = 1..n, s = [i \in DOMAIN s |-> s[i]]
    PROVE  IsFiniteSet(Elements(s)) /\ Cardinality(Elements(s)) <= n
<1>1. s \in Surjection(1..n, Elements(s))
  BY DEF Surjection, Elements
<1>2. IsFiniteSet(1..n) /\ Cardinality(1..n) = n
  BY FS_Interval
<1> QED
  BY <1>1, <1>2, FS_Surjection

LEMMA HeldFramesAreFew ==
    ASSUME NEW start \in Int, NEW seed \in Int, NEW end \in Int, start <= seed, seed <= end
    PROVE  Cardinality(Wanted(seed, start, end)) <= MaxFrames + 1
<1> DEFINE d == Stride(end - start)
           b == (seed - start) \div d
           f == (end - seed) \div d
           back == Elements(Backward(seed, start, d))
           ahead == Elements(Forward(seed, end, d))
<1>1. d \in Nat \ {0} /\ (end - start) \div d <= MaxFrames /\ MaxFrames \in Nat
  BY StrideIsEnough, PropagationAssumption
<1>2. /\ b \in Nat /\ d * b <= seed - start
      /\ f \in Nat /\ d * f <= end - seed
  <2> HIDE DEF d
  <2> QED
    BY <1>1, Quotient
<1>3. end - start < d * (MaxFrames + 1)
  <2> HIDE DEF d
  <2> QED
    BY <1>1, QuotientBound
<1>4. IsFiniteSet(back) /\ Cardinality(back) <= b
  <2>1. Backward(seed, start, d) = [i \in 1..b |-> seed - i * d]
    BY DEF Backward
  <2> HIDE DEF b, d
  <2> DEFINE s == [i \in 1..b |-> seed - i * d]
  <2>2. b \in Nat /\ DOMAIN s = 1..b /\ s = [i \in DOMAIN s |-> s[i]]
    BY <1>2
  <2> HIDE DEF s
  <2>3. IsFiniteSet(Elements(s)) /\ Cardinality(Elements(s)) <= b
    BY <2>2, FewElements
  <2> QED
    BY <2>1, <2>3 DEF s
<1>5. IsFiniteSet(ahead) /\ Cardinality(ahead) <= f
  <2>1. Forward(seed, end, d) = [i \in 1..f |-> seed + i * d]
    BY DEF Forward
  <2> HIDE DEF f, d
  <2> DEFINE s == [i \in 1..f |-> seed + i * d]
  <2>2. f \in Nat /\ DOMAIN s = 1..f /\ s = [i \in DOMAIN s |-> s[i]]
    BY <1>2
  <2> HIDE DEF s
  <2>3. IsFiniteSet(Elements(s)) /\ Cardinality(Elements(s)) <= f
    BY <2>2, FewElements
  <2> QED
    BY <2>1, <2>3 DEF s
<1>6. Wanted(seed, start, end) = ({seed} \cup back) \cup ahead
  BY DEF Wanted, Samples
<1> HIDE DEF d, b, f, back, ahead
<1>7. b + f <= MaxFrames
  <2>1. d * (b + f) = d * b + d * f
    BY <1>1, <1>2
  <2>2. d * (b + f) < d * (MaxFrames + 1)
    BY <1>1, <1>2, <1>3, <2>1
  <2> DEFINE k == b + f
             m == MaxFrames + 1
  <2>3. k \in Nat /\ m \in Nat /\ d * k < d * m
    BY <1>1, <1>2, <2>2
  <2> HIDE DEF k, m
  <2>4. k < m
    <3> SUFFICES ASSUME m <= k PROVE FALSE
      BY <2>3
    <3>1. d * m <= d * k
      BY <1>1, <2>3
    <3> QED
      BY <1>1, <2>3, <3>1
  <2> QED
    BY <1>1, <1>2, <2>4 DEF k, m
<1>8. IsFiniteSet({seed} \cup back) /\ Cardinality({seed} \cup back) <= b + 1
  <2>1. /\ IsFiniteSet(back \cup {seed})
        /\ Cardinality(back \cup {seed}) = IF seed \in back THEN Cardinality(back)
                                           ELSE Cardinality(back) + 1
    BY <1>4, FS_AddElement
  <2>2. Cardinality(back) \in Nat
    BY <1>4, FS_CardinalityType
  <2>3. {seed} \cup back = back \cup {seed}
    OBVIOUS
  <2>4. Cardinality(back \cup {seed}) <= b + 1
    BY <1>2, <1>4, <2>1, <2>2
  <2> QED
    BY <2>1, <2>3, <2>4
<1> DEFINE early == {seed} \cup back
<1>9. Cardinality(early \cup ahead) <= b + 1 + f
  <2>0. IsFiniteSet(early) /\ IsFiniteSet(ahead)
    BY <1>5, <1>8
  <2> HIDE DEF early
  <2>1. IsFiniteSet(early \cap ahead)
    BY <2>0, FS_Intersection
  <2>2. /\ Cardinality(early \cap ahead) \in Nat
        /\ Cardinality(early) \in Nat /\ Cardinality(ahead) \in Nat
    BY <2>0, <2>1, FS_CardinalityType
  <2>3. Cardinality(early \cup ahead) =
            Cardinality(early) + Cardinality(ahead) - Cardinality(early \cap ahead)
    BY <2>0, FS_Union
  <2>4. Cardinality(early) <= b + 1
    BY <1>8 DEF early
  <2> QED
    BY <1>2, <1>5, <2>2, <2>3, <2>4
<1>10. Cardinality(({seed} \cup back) \cup ahead) \in Nat
  BY <1>5, <1>8, FS_Union, FS_CardinalityType
<1> QED
  BY <1>1, <1>2, <1>6, <1>7, <1>9, <1>10

-----------------------------------------------------------------------------
(***************************************************************************)
(* The inductive invariant.                                                *)
(***************************************************************************)
\* A correction is on the track it made.
SeedsFitTheirTracks ==
    \A n \in Seeds : /\ Seed(n) # Gone
                     /\ log[n].seed \in Seed(n).first..Seed(n).last

\* Who asks for suggestions, or works on them, does so for a correction.
SourcesAreSeeds ==
    /\ \A s \in Sessions : open[s].op = "request" => open[s].id[1] \in Seeds
    /\ \A j \in Jobs : stage[j] # "none" \/ job[j] # "absent" => source[j] \in Seeds

FoundFitsWindow ==
    \A j \in Jobs : stage[j] = "propagated" =>
        candidates[j] \subseteq (StartFrame(j)..EndFrame(j)) \ {SeedFrame(j)}

RowsFitSeed ==
    \A q \in DOMAIN suggestions :
        /\ q[1] \in Seeds
        /\ q[2] # log[q[1]].seed
        /\ q[2] \in (log[q[1]].seed - WindowFrames)..(log[q[1]].seed + WindowFrames)
        /\ q[2] \in Seed(q[1]).first..Seed(q[1]).last

\* What was acceptable at the revision a session expects still is, at it.
SessionsKeepTheirCheck ==
    \A s \in Sessions : open[s].op \in {"accept", "dismiss"} =>
        /\ open[s].id \in DOMAIN suggestions
        /\ open[s].expected <= Len(log)
        /\ open[s].op = "accept" /\ open[s].expected = Len(log) => Acceptable(open[s].id)

AcceptsAreRows == \A n \in 1..Len(log) : log[n].accepts \in DOMAIN suggestions \cup {NoId}

\* A job that was not started is worked on by nobody.
StageFitsJob == \A j \in Jobs : job[j] \in {"absent", "queued"} => stage[j] = "none"

SuggestionInv ==
    /\ TypeOK
    /\ StageFitsJob
    /\ SeedsFitTheirTracks
    /\ SourcesAreSeeds
    /\ FoundFitsWindow
    /\ RowsFitSeed
    /\ SessionsKeepTheirCheck
    /\ AcceptsAreRows
    /\ AcceptedNeverOverwrites
    /\ AcceptedOnce

-----------------------------------------------------------------------------
(* Tracks and the log.                                                     *)

TrackRecords == [active : BOOLEAN, class : Classes, first : Frames, last : Frames,
                 keys : [Frames -> Keyframes]]

LEMMA FrameType == Frames \subseteq Int /\ NoFrame \notin Frames /\ 0 \in Frames /\ LastFrame \in Frames
BY ReprocessingAssumption DEF Frames, NoFrame

LEMMA BoxedIsTrack ==
    ASSUME NEW track \in TrackRecords, NEW f \in Frames, NEW box \in Keyframes
    PROVE  /\ WithBox(track, f, box) \in TrackRecords
           /\ WithBox(track, f, box).active = TRUE
           /\ WithBox(track, f, box).first = track.first
           /\ WithBox(track, f, box).last = track.last
BY DEF WithBox, TrackRecords

LEMMA DrawnIsTrack ==
    ASSUME NEW f \in Frames, NEW span \in Spans, NEW box \in Boxes, NEW c \in Classes
    PROVE  /\ Drawn(f, span, box, c) \in TrackRecords
           /\ Drawn(f, span, box, c).active = TRUE
           /\ Drawn(f, span, box, c).first = span[1]
           /\ Drawn(f, span, box, c).last = span[2]
<1>1. span[1] \in Frames /\ span[2] \in Frames
  BY ReprocessingAssumption DEF Frames
<1>2. [Gone.keys EXCEPT ![f] = box] \in [Frames -> Keyframes]
  BY DEF Gone, Keyframes
<1> QED
  BY <1>1, <1>2 DEF Drawn, TrackRecords

LEMMA GoneIsGone == Gone.active = FALSE
BY DEF Gone

LEMMA LogType ==
    ASSUME TypeOK
    PROVE  /\ log \in Seq(Actions) /\ Len(log) \in Nat
           /\ \A n \in 1..Len(log) : /\ log[n] \in Actions
                                     /\ log[n].seed \in Frames \cup {NoFrame}
                                     /\ log[n].after \in Tracks
                                     /\ log[n].accepts \in Ids \cup {NoId}
           /\ \A n \in 0..Len(log) : Document(n) \in Tracks
           /\ Current \in Tracks
<1>1. /\ log \in Seq(Actions) /\ Len(log) \in Nat
      /\ \A n \in 1..Len(log) : log[n] \in Actions
  BY DEF TypeOK
<1>2. \A n \in 1..Len(log) : /\ log[n].seed \in Frames \cup {NoFrame}
                             /\ log[n].after \in Tracks
                             /\ log[n].accepts \in Ids \cup {NoId}
  BY <1>1 DEF Actions
<1>3. \A n \in 0..Len(log) : Document(n) \in Tracks
  BY <1>1, <1>2 DEF Document, TypeOK
<1> QED
  BY <1>1, <1>2, <1>3 DEF Current

\* What every new action of the log has, made from the latest revision.
Appends(f, track, q) ==
    /\ log' = Append(log, Entry(f, track, q))
    /\ Len(log) < MaxRevision
    /\ f \in Frames \cup {NoFrame}
    /\ track \in Tracks
    /\ f # NoFrame => track # Gone /\ f \in track.first..track.last
    /\ q \in Ids \cup {NoId}
    /\ UNCHANGED <<base, jobVars>>

LEMMA LogGrows ==
    ASSUME TypeOK, NEW f, NEW track, NEW q, Appends(f, track, q)
    PROVE  /\ log' \in Seq(Actions)
           /\ Len(log') = Len(log) + 1 /\ Len(log') \in 1..MaxRevision
           /\ \A n \in 1..Len(log) : log'[n] = log[n]
           /\ log'[Len(log) + 1] = Entry(f, track, q)
           /\ \A n \in 0..Len(log) : Document(n)' = Document(n)
           /\ Current' = track
<1>1. Entry(f, track, q) \in Actions
  BY DEF Appends, Entry, Actions
<1>2. /\ log' \in Seq(Actions) /\ Len(log') = Len(log) + 1
      /\ \A n \in 1..Len(log) : log'[n] = log[n]
      /\ log'[Len(log) + 1] = Entry(f, track, q)
  BY <1>1, LogType DEF Appends
<1>3. Len(log') \in 1..MaxRevision
  BY <1>2, LogType, ReprocessingAssumption DEF Appends
<1>4. \A n \in 0..Len(log) : Document(n)' = Document(n)
  BY <1>2, LogType DEF Document, Appends
<1>5. Current' = track
  <2>1. Current' = log'[Len(log')].after
    BY <1>2, LogType DEF Current, Document
  <2> QED
    BY <1>2, <2>1 DEF Entry
<1> QED
  BY <1>2, <1>3, <1>4, <1>5

LEMMA EditAppends ==
    ASSUME TypeOK, Edit
    PROVE  /\ \E f, track : Appends(f, track, NoId)
           /\ UNCHANGED <<suggestions, open>>
<1> DEFINE Goal == /\ \E f, track : Appends(f, track, NoId)
                  /\ UNCHANGED <<suggestions, open>>
<1>0. Current \in Tracks /\ (Current # Gone => Current \in TrackRecords)
  BY LogType DEF Tracks, TrackRecords
<1>1. ASSUME NEW f \in Frames \cup {NoFrame}, NEW track \in Tracks,
             f # NoFrame => track # Gone /\ f \in track.first..track.last,
             Commit(f, track)
      PROVE  Goal
  <2>1. Appends(f, track, NoId)
    BY <1>1 DEF Commit, Appends
  <2> QED
    BY <1>1, <2>1 DEF Commit
<1>2. CASE MoveRegion
  <2>1. PICK f \in Current.first..Current.last, box \in Boxes : Commit(f, WithBox(Current, f, box))
    BY <1>2 DEF MoveRegion
  <2>2. Current \in TrackRecords
    BY <1>0, <1>2 DEF MoveRegion
  <2>3. f \in Frames
    <3>1. Current.first \in 0..LastFrame /\ Current.last \in 0..LastFrame
      BY <2>2 DEF TrackRecords, Frames
    <3> QED
      BY <3>1, ReprocessingAssumption DEF Frames
  <2>4. box \in Keyframes
    BY DEF Keyframes
  <2>5. /\ WithBox(Current, f, box) \in Tracks /\ WithBox(Current, f, box) # Gone
        /\ f \in WithBox(Current, f, box).first..WithBox(Current, f, box).last
    <3> DEFINE boxed == WithBox(Current, f, box)
    <3>1. /\ boxed \in TrackRecords /\ boxed.active = TRUE
          /\ boxed.first = Current.first /\ boxed.last = Current.last
      BY <2>2, <2>3, <2>4, BoxedIsTrack
    <3> HIDE DEF boxed
    <3>2. boxed \in Tracks /\ boxed # Gone
      BY <3>1, GoneIsGone DEF Tracks, TrackRecords
    <3> QED
      BY <3>1, <3>2 DEF boxed
  <2> QED
    BY <1>1, <2>1, <2>3, <2>5
<1>3. CASE DeleteTrack
  <2>1. [Current EXCEPT !.active = FALSE] \in Tracks
    BY <1>0, <1>3 DEF DeleteTrack, TrackRecords, Tracks
  <2> QED
    BY <1>1, <1>3, <2>1 DEF DeleteTrack
<1>4. CASE ChangeClass
  <2>1. PICK c \in Classes : Commit(NoFrame, [Current EXCEPT !.class = c])
    BY <1>4 DEF ChangeClass
  <2>2. [Current EXCEPT !.class = c] \in Tracks
    BY <1>0, <1>4 DEF ChangeClass, TrackRecords, Tracks
  <2> QED
    BY <1>1, <2>1, <2>2
<1>5. CASE TrimTrack
  <2>1. PICK span \in Spans, keys \in [Frames -> Keyframes] :
            Commit(NoFrame, [Current EXCEPT !.first = span[1], !.last = span[2], !.keys = keys])
    <3>1. PICK span \in Spans \ {<<Current.first, Current.last>>} :
            LET Kept(f) == CASE f \notin span[1]..span[2] -> "none"
                             [] f \in {span[1], span[2]} /\ ~Locked(Current.keys[f]) -> "derived"
                             [] OTHER -> Current.keys[f]
            IN  Commit(NoFrame, [Current EXCEPT !.first = span[1], !.last = span[2],
                                  !.keys = [f \in Frames |-> Kept(f)]])
      BY <1>5 DEF TrimTrack
    <3> DEFINE Kept(f) == CASE f \notin span[1]..span[2] -> "none"
                            [] f \in {span[1], span[2]} /\ ~Locked(Current.keys[f]) -> "derived"
                            [] OTHER -> Current.keys[f]
    <3>2. [f \in Frames |-> Kept(f)] \in [Frames -> Keyframes]
      <4>1. \A f \in Frames : Current.keys[f] \in Keyframes
        BY <1>0, <1>5 DEF TrimTrack, TrackRecords
      <4>2. \A f \in Frames : Kept(f) \in {"none", "derived", Current.keys[f]}
        OBVIOUS
      <4> QED
        BY <4>1, <4>2 DEF Keyframes
    <3> QED
      BY <3>1, <3>2
  <2>2. span[1] \in Frames /\ span[2] \in Frames
    BY ReprocessingAssumption DEF Frames
  <2>3. [Current EXCEPT !.first = span[1], !.last = span[2], !.keys = keys] \in Tracks
    BY <1>0, <1>5, <2>1, <2>2 DEF TrimTrack, TrackRecords, Tracks
  <2> QED
    BY <1>1, <2>1, <2>3
<1>6. CASE UndoOrRedo
  <2>1. Len(log) - 1 \in 0..Len(log)
    BY <1>6, LogType DEF UndoOrRedo
  <2>2. Document(Len(log) - 1) \in Tracks
    BY <2>1, LogType
  <2> QED
    BY <1>1, <1>6, <2>2 DEF UndoOrRedo
<1> QED
  BY <1>2, <1>3, <1>4, <1>5, <1>6 DEF Edit

LEMMA IdTypes ==
    /\ NoId \notin Ids
    /\ \A q \in Ids : q = <<q[1], q[2]>> /\ q[1] \in 1..MaxRevision /\ q[2] \in Frames
BY DEF Ids, NoId

LEMMA RowTypes ==
    ASSUME TypeOK
    PROVE  /\ \A q \in DOMAIN suggestions : q \in Ids /\ q # NoId
           /\ \A s \in Sessions : /\ open[s].id \in Ids \cup {NoId}
                                  /\ open[s].expected \in 0..MaxRevision
BY IdTypes DEF TypeOK, Requests

\* The accepting commit writes over nothing, by the check it has made.
LEMMA AcceptAppends ==
    ASSUME SuggestionInv, NEW s \in Sessions, CommitAccept(s)
    PROVE  LET q == open[s].id
           IN  /\ q \in DOMAIN suggestions /\ Acceptable(q)
               /\ Appends(q[2], WithBox(Current, q[2], "suggested"), q)
<1> DEFINE q == open[s].id
           track == WithBox(Current, q[2], "suggested")
<1>1. /\ open[s].op = "accept" /\ Len(log) = open[s].expected /\ Len(log) < MaxRevision
      /\ log' = Append(log, Entry(q[2], track, q))
      /\ UNCHANGED <<base, jobVars>>
  BY DEF CommitAccept
<1>2. q \in DOMAIN suggestions /\ Acceptable(q)
  BY <1>1 DEF SuggestionInv, SessionsKeepTheirCheck
<1>3. q \in Ids /\ q[2] \in Frames
  BY <1>2, IdTypes, RowTypes DEF SuggestionInv
<1>4. Current \in TrackRecords
  BY <1>2, LogType DEF Acceptable, SuggestionInv, Tracks, TrackRecords
<1>5. /\ track \in TrackRecords /\ track.active = TRUE
      /\ track.first = Current.first /\ track.last = Current.last
  BY <1>3, <1>4, BoxedIsTrack DEF Keyframes
<1>6. q[2] \in Current.first..Current.last
  BY <1>2 DEF Acceptable
<1> HIDE DEF q, track
<1>7. track \in Tracks /\ track # Gone
  BY <1>5, GoneIsGone DEF Tracks, TrackRecords
<1>8. Appends(q[2], track, q)
  BY <1>1, <1>3, <1>5, <1>6, <1>7 DEF Appends
<1> QED
  BY <1>2, <1>8 DEF q, track

-----------------------------------------------------------------------------
(* What an appended action leaves as it was.                               *)

HistoryInv ==
    /\ SeedsFitTheirTracks
    /\ SourcesAreSeeds
    /\ FoundFitsWindow
    /\ RowsFitSeed
    /\ SessionsKeepTheirCheck
    /\ AcceptsAreRows
    /\ AcceptedNeverOverwrites

LEMMA SeedsStay ==
    ASSUME TypeOK, NEW f, NEW track, NEW q, Appends(f, track, q)
    PROVE  /\ \A n \in Seeds : n \in Seeds' /\ log'[n] = log[n]
           /\ \A n \in Seeds' : n \in Seeds \/ (n = Len(log) + 1 /\ f # NoFrame)
           /\ log'[Len(log) + 1].after = track /\ log'[Len(log) + 1].seed = f
           /\ log'[Len(log) + 1].accepts = q
<1>1. /\ Len(log) \in Nat /\ Len(log') = Len(log) + 1
      /\ \A n \in 1..Len(log) : log'[n] = log[n]
      /\ log'[Len(log) + 1] = Entry(f, track, q)
  BY LogGrows, LogType
<1>2. log'[Len(log) + 1].seed = f /\ log'[Len(log) + 1].after = track
      /\ log'[Len(log) + 1].accepts = q
  BY <1>1 DEF Entry
<1>3. /\ Seeds = {n \in 1..Len(log) : log[n].seed # NoFrame}
      /\ Seeds' = {n \in 1..Len(log') : log'[n].seed # NoFrame}
  BY DEF Seeds, NoFrame
<1>4. \A n \in Seeds : n \in Seeds' /\ log'[n] = log[n]
  BY <1>1, <1>3
<1>5. \A n \in Seeds' : n \in Seeds \/ (n = Len(log) + 1 /\ f # NoFrame)
  BY <1>1, <1>2, <1>3
<1> QED
  BY <1>2, <1>4, <1>5

LEMMA AppendKeepsHistory ==
    ASSUME TypeOK, HistoryInv, NEW f, NEW track, NEW q, Appends(f, track, q),
           q = NoId \/ (q \in DOMAIN suggestions /\ Acceptable(q)),
           DOMAIN suggestions' = DOMAIN suggestions,
           \A s \in Sessions : open'[s] \in {open[s], IdleSession}
    PROVE  HistoryInv'
<1>0. /\ \A n \in Seeds : n \in Seeds' /\ log'[n] = log[n]
      /\ \A n \in Seeds' : n \in Seeds \/ (n = Len(log) + 1 /\ f # NoFrame)
      /\ log'[Len(log) + 1].after = track /\ log'[Len(log) + 1].seed = f
      /\ log'[Len(log) + 1].accepts = q
  BY SeedsStay
<1>1. f # NoFrame => track # Gone /\ f \in track.first..track.last
  BY DEF Appends
<1>2. UNCHANGED <<job, source, stage, candidates>>
  BY DEF Appends, jobVars
<1>3. SeedsFitTheirTracks'
  <2> SUFFICES ASSUME NEW n \in Seeds'
               PROVE  /\ log'[n].after # Gone
                      /\ log'[n].seed \in log'[n].after.first..log'[n].after.last
    BY DEF SeedsFitTheirTracks, Seed
  <2>1. CASE n \in Seeds
    BY <1>0, <2>1 DEF HistoryInv, SeedsFitTheirTracks, Seed
  <2>2. CASE n = Len(log) + 1 /\ f # NoFrame
    BY <1>0, <1>1, <2>2
  <2> QED
    BY <1>0, <2>1, <2>2
<1>4. SourcesAreSeeds'
  BY <1>0, <1>2 DEF HistoryInv, SourcesAreSeeds, IdleSession
<1>5. FoundFitsWindow'
  BY <1>0, <1>2 DEF HistoryInv, FoundFitsWindow, SourcesAreSeeds, StartFrame, EndFrame, SeedFrame, Seed
<1>6. RowsFitSeed'
  BY <1>0 DEF HistoryInv, RowsFitSeed, Seed
<1>7. SessionsKeepTheirCheck'
  <2>1. \A s \in Sessions : open[s].expected <= Len(log) => open[s].expected < Len(log')
                                                     /\ open[s].expected # Len(log')
    BY RowTypes, LogGrows, LogType
  <2> QED
    BY <2>1, LogGrows, LogType, RowTypes DEF HistoryInv, SessionsKeepTheirCheck, IdleSession
<1>8. AcceptsAreRows'
  BY <1>0, LogGrows, LogType DEF HistoryInv, AcceptsAreRows
<1>9. AcceptedNeverOverwrites'
  <2> SUFFICES ASSUME NEW n \in 1..Len(log'), log'[n].accepts # NoId
               PROVE  LET before == Document(n - 1)'
                          r == log'[n].accepts
                      IN  /\ before # Gone /\ before.active
                          /\ before.class = log'[r[1]].after.class
                          /\ r[2] \in before.first..before.last
                          /\ ~Locked(before.keys[r[2]])
    BY DEF AcceptedNeverOverwrites, Accepting, Seed, NoId
  <2>1. Len(log) \in Nat /\ Len(log') = Len(log) + 1
    BY LogGrows, LogType
  <2>2. n - 1 \in 0..Len(log) /\ Document(n - 1)' = Document(n - 1)
    BY <2>1, LogGrows
  <2>3. CASE n \in 1..Len(log)
    <3>1. log'[n] = log[n]
      BY <2>3, LogGrows
    <3>2. log[n].accepts \in DOMAIN suggestions
      BY <2>3, <3>1 DEF HistoryInv, AcceptsAreRows
    <3>3. log'[log[n].accepts[1]] = log[log[n].accepts[1]]
      BY <1>0, <3>2 DEF HistoryInv, RowsFitSeed
    <3>4. LET before == Document(n - 1)
              r == log[n].accepts
          IN  /\ before # Gone /\ before.active
              /\ before.class = log[r[1]].after.class
              /\ r[2] \in before.first..before.last
              /\ ~Locked(before.keys[r[2]])
      BY <2>3, <3>1 DEF HistoryInv, AcceptedNeverOverwrites, Accepting, Seed
    <3> QED
      BY <2>2, <3>1, <3>3, <3>4
  <2>4. CASE n = Len(log) + 1
    <3>1. log'[n].accepts = q /\ q \in DOMAIN suggestions /\ Acceptable(q)
      BY <1>0, <2>4
    <3>2. Document(n - 1) = Current
      BY <2>1, <2>4 DEF Current
    <3>3. log'[q[1]] = log[q[1]]
      BY <1>0, <3>1 DEF HistoryInv, RowsFitSeed
    <3> QED
      BY <2>2, <3>1, <3>2, <3>3 DEF Acceptable, Seed
  <2> QED
    BY <2>1, <2>3, <2>4
<1> QED
  BY <1>3, <1>4, <1>5, <1>6, <1>7, <1>8, <1>9 DEF HistoryInv

\* Steps that append nothing.
LEMMA LogSame ==
    ASSUME UNCHANGED <<base, log>>
    PROVE  /\ Seeds' = Seeds /\ Current' = Current
           /\ \A q : Acceptable(q)' <=> Acceptable(q)
           /\ AcceptedNeverOverwrites' <=> AcceptedNeverOverwrites
           /\ SeedsFitTheirTracks' <=> SeedsFitTheirTracks
BY DEF Seeds, Seed, Document, Current, Acceptable, AcceptedNeverOverwrites, Accepting,
       SeedsFitTheirTracks

-----------------------------------------------------------------------------
(* Jobs and the window they work in.                                       *)

WindowIs(j, start, seed, end) ==
    /\ start = StartFrame(j) /\ seed = SeedFrame(j) /\ end = EndFrame(j)
    /\ {start, seed, end} \subseteq Frames
    /\ start <= seed /\ seed <= end
    /\ start \in Seed(source[j]).first..seed /\ end \in seed..Seed(source[j]).last
    /\ seed - WindowFrames <= start /\ end <= seed + WindowFrames

LEMMA WindowFits ==
    ASSUME TypeOK, HistoryInv, NEW j \in Jobs, stage[j] # "none"
    PROVE  WindowIs(j, StartFrame(j), SeedFrame(j), EndFrame(j))
<1> DEFINE n == source[j]
           seed == log[n].seed
           first == Seed(n).first
           last == Seed(n).last
<1>1. n \in Seeds /\ n \in 1..Len(log) /\ seed # NoFrame
  BY DEF HistoryInv, SourcesAreSeeds, Seeds
<1>2. Seed(n) # Gone /\ seed \in first..last
  BY <1>1 DEF HistoryInv, SeedsFitTheirTracks
<1>3. seed \in Frames /\ Seed(n) \in Tracks
  BY <1>1, LogType DEF Seed
<1>4. first \in Frames /\ last \in Frames
  BY <1>2, <1>3 DEF Tracks
<1>5. WindowFrames \in Nat
  BY PropagationAssumption DEF WindowFrames, AtLeast
<1>6. /\ StartFrame(j) = AtLeast(first, seed - WindowFrames)
      /\ EndFrame(j) = AtMost(last, seed + WindowFrames) /\ SeedFrame(j) = seed
  BY DEF StartFrame, EndFrame, SeedFrame, WindowStart, WindowEnd
<1> HIDE DEF n, seed, first, last
<1>7. /\ AtLeast(first, seed - WindowFrames) \in first..seed
      /\ seed - WindowFrames <= AtLeast(first, seed - WindowFrames)
      /\ AtMost(last, seed + WindowFrames) \in seed..last
      /\ AtMost(last, seed + WindowFrames) <= seed + WindowFrames
  BY <1>2, <1>3, <1>4, <1>5, ReprocessingAssumption DEF Frames, AtLeast, AtMost
<1>8. /\ AtLeast(first, seed - WindowFrames) \in Frames
      /\ AtMost(last, seed + WindowFrames) \in Frames
  BY <1>3, <1>4, <1>7, ReprocessingAssumption DEF Frames
<1>9. /\ AtLeast(first, seed - WindowFrames) <= seed
      /\ seed <= AtMost(last, seed + WindowFrames)
  BY <1>7
<1> QED
  BY <1>3, <1>6, <1>7, <1>8, <1>9 DEF WindowIs, n, first, last, seed

LEMMA PropagationFits ==
    ASSUME TypeOK, HistoryInv, NEW j \in Jobs, Propagate(j)
    PROVE  \E found : /\ candidates' = [candidates EXCEPT ![j] = found]
                     /\ found \subseteq (StartFrame(j)..EndFrame(j)) \ {SeedFrame(j)}
                     /\ found \subseteq Frames
<1>1. stage[j] # "none"
  BY DEF Propagate, Advance
<1>2. PICK start, seed, end : WindowIs(j, start, seed, end)
  BY <1>1, WindowFits
<1>3. \E found \in Outcomes[<<seed, start, end>>] : candidates' = [candidates EXCEPT ![j] = found]
  BY <1>2 DEF Propagate, WindowIs
<1>4. <<seed, start, end>> \in Windows
  BY <1>2 DEF WindowIs, Windows
<1>5. Outcomes[<<seed, start, end>>] = Candidates(seed, start, end)
  BY <1>4 DEF Outcomes
<1>6. PICK found \in Candidates(seed, start, end) : candidates' = [candidates EXCEPT ![j] = found]
  BY <1>3, <1>5
<1>7. /\ start \in 0..LastFrame /\ seed \in 0..LastFrame /\ end \in 0..LastFrame
      /\ start <= seed /\ seed <= end
  BY <1>2 DEF WindowIs, Frames
<1>8. found \subseteq (start..end) \ {seed}
  BY <1>7, CandidatesFit
<1>9. start..end \subseteq Frames
  BY <1>7, ReprocessingAssumption DEF Frames
<1> QED
  BY <1>2, <1>6, <1>8, <1>9 DEF WindowIs

\* The rows that storing adds.
LEMMA FoundAreIds ==
    ASSUME TypeOK, HistoryInv, NEW j \in Jobs, stage[j] = "propagated"
    PROVE  \A q \in Found(j) :
               /\ q \in Ids /\ q[1] = source[j] /\ q[1] \in Seeds
               /\ q[2] # SeedFrame(j)
               /\ q[2] \in (SeedFrame(j) - WindowFrames)..(SeedFrame(j) + WindowFrames)
               /\ q[2] \in Seed(source[j]).first..Seed(source[j]).last
<1>1. source[j] \in Seeds /\ source[j] \in 1..MaxRevision
  <2>1. source[j] \in Seeds
    BY DEF HistoryInv, SourcesAreSeeds
  <2>2. Len(log) \in Nat /\ Len(log) <= MaxRevision
    BY LogType DEF TypeOK
  <2>3. source[j] \in 1..Len(log)
    BY <2>1 DEF Seeds
  <2> QED
    BY <2>1, <2>2, <2>3, ReprocessingAssumption
<1>2. PICK start, seed, end : WindowIs(j, start, seed, end)
  BY WindowFits
<1>3. candidates[j] \subseteq (start..end) \ {seed}
  BY <1>2 DEF HistoryInv, FoundFitsWindow, WindowIs
<1>4. /\ {start, seed, end} \subseteq Int
      /\ Seed(source[j]).first \in Int /\ Seed(source[j]).last \in Int /\ WindowFrames \in Int
  <2>1. Seed(source[j]) \in Tracks /\ Seed(source[j]) # Gone
    BY <1>1, LogType DEF HistoryInv, SeedsFitTheirTracks, Seed, Seeds
  <2>2. WindowFrames \in Int
    BY PropagationAssumption DEF WindowFrames, AtLeast
  <2> QED
    BY <1>2, <2>1, <2>2, FrameType DEF Tracks, WindowIs
<1> SUFFICES ASSUME NEW f \in candidates[j]
             PROVE  /\ f # seed /\ f \in Frames
                    /\ f \in (seed - WindowFrames)..(seed + WindowFrames)
                    /\ f \in Seed(source[j]).first..Seed(source[j]).last
  BY <1>1, <1>2 DEF Found, Ids, WindowIs
<1>5. f \in start..end /\ f # seed
  BY <1>3
<1>6. f \in (seed - WindowFrames)..(seed + WindowFrames)
  BY <1>2, <1>4, <1>5 DEF WindowIs
<1>7. f \in Seed(source[j]).first..Seed(source[j]).last
  BY <1>2, <1>4, <1>5 DEF WindowIs
<1>8. f \in Frames
  BY <1>2, <1>5, ReprocessingAssumption DEF WindowIs, Frames
<1> QED
  BY <1>5, <1>6, <1>7, <1>8

-----------------------------------------------------------------------------
(* Steps that append nothing to the log.                                   *)

RowFits(q) ==
    /\ q[1] \in Seeds
    /\ q[2] # log[q[1]].seed
    /\ q[2] \in (log[q[1]].seed - WindowFrames)..(log[q[1]].seed + WindowFrames)
    /\ q[2] \in Seed(q[1]).first..Seed(q[1]).last

LEMMA KeptLog ==
    ASSUME SuggestionInv, UNCHANGED <<base, log>>,
           TypeOK', StageFitsJob', SourcesAreSeeds', FoundFitsWindow', SessionsKeepTheirCheck',
           DOMAIN suggestions \subseteq DOMAIN suggestions',
           \A q \in DOMAIN suggestions' \ DOMAIN suggestions :
               RowFits(q) /\ suggestions'[q].status # "ACCEPTED",
           \A q \in DOMAIN suggestions :
               \/ suggestions'[q] = suggestions[q]
               \/ suggestions'[q].status # "ACCEPTED" /\ suggestions[q].status # "ACCEPTED"
    PROVE  SuggestionInv'
<1>1. SeedsFitTheirTracks' /\ AcceptedNeverOverwrites'
  BY LogSame DEF SuggestionInv
<1>2. RowsFitSeed'
  <2>1. \A q \in DOMAIN suggestions' : RowFits(q)
    BY DEF SuggestionInv, RowsFitSeed, RowFits
  <2> QED
    BY <2>1, LogSame DEF RowsFitSeed, RowFits, Seed
<1>3. AcceptsAreRows'
  BY DEF SuggestionInv, AcceptsAreRows
<1>4. AcceptedOnce'
  <2> SUFFICES ASSUME NEW q \in DOMAIN suggestions'
               PROVE  {n \in 1..Len(log) : log[n].accepts = q} =
                          IF suggestions'[q].status = "ACCEPTED"
                          THEN {suggestions'[q].resolution} ELSE {}
    BY DEF AcceptedOnce
  <2>1. CASE q \in DOMAIN suggestions
    BY <2>1 DEF SuggestionInv, AcceptedOnce
  <2>2. CASE q \notin DOMAIN suggestions
    <3>1. q \in Ids /\ q # NoId
      BY IdTypes DEF TypeOK
    <3>2. \A n \in 1..Len(log) : log[n].accepts # q
      BY <2>2, <3>1 DEF SuggestionInv, AcceptsAreRows
    <3> QED
      BY <2>2, <3>2
  <2> QED
    BY <2>1, <2>2
<1> QED
  BY <1>1, <1>2, <1>3, <1>4 DEF SuggestionInv

\* A session opens with what it has read, or closes.
Honest(r) ==
    /\ r \in Requests
    /\ r.op = "request" => r.id[1] \in Seeds
    /\ r.op \in {"accept", "dismiss"} =>
          /\ r.id \in DOMAIN suggestions
          /\ r.expected <= Len(log)
          /\ r.op = "accept" /\ r.expected = Len(log) => Acceptable(r.id)

LEMMA IdleIsHonest == Honest(IdleSession)
BY ReprocessingAssumption DEF Honest, IdleSession, Requests

LEMMA SessionStep ==
    ASSUME SuggestionInv, NEW s \in Sessions, NEW r, Honest(r),
           open' = [open EXCEPT ![s] = r],
           UNCHANGED <<base, log, jobVars, suggestions>>
    PROVE  SuggestionInv'
<1>1. \A u \in Sessions : open'[u] = r \/ open'[u] = open[u]
  BY DEF SuggestionInv, TypeOK
<1>2. TypeOK'
  BY DEF SuggestionInv, TypeOK, Honest, jobVars
<1>3. StageFitsJob'
  BY DEF SuggestionInv, StageFitsJob, jobVars
<1>4. SourcesAreSeeds'
  BY <1>1, LogSame DEF SuggestionInv, SourcesAreSeeds, Honest, jobVars
<1>5. FoundFitsWindow'
  BY DEF SuggestionInv, FoundFitsWindow, jobVars, StartFrame, EndFrame, SeedFrame, Seed
<1>6. SessionsKeepTheirCheck'
  BY <1>1, LogSame DEF SuggestionInv, SessionsKeepTheirCheck, Honest
<1> QED
  BY <1>2, <1>3, <1>4, <1>5, <1>6, KeptLog

LEMMA OpenIsSession ==
    ASSUME SuggestionInv, NEW s \in Sessions,
           \/ Request(s) \/ BeginAccept(s) \/ BeginDismiss(s) \/ Drop(s)
    PROVE  SuggestionInv'
<1>0. Len(log) \in Nat /\ Len(log) \in 0..MaxRevision
  BY LogType, ReprocessingAssumption DEF SuggestionInv, TypeOK
<1>1. CASE Drop(s)
  BY <1>1, IdleIsHonest, SessionStep DEF Drop, Close
<1>2. CASE Request(s)
  <2>1. PICK n \in Seeds : Open(s, "request", <<n, log[n].seed>>)
    BY <1>2 DEF Request
  <2> DEFINE r == [op |-> "request", id |-> <<n, log[n].seed>>, expected |-> 0]
  <2>2. open' = [open EXCEPT ![s] = r] /\ UNCHANGED <<base, log, jobVars, suggestions>>
    BY <2>1 DEF Open
  <2>3. n \in 1..MaxRevision /\ log[n].seed \in Frames
    BY <1>0, LogType, ReprocessingAssumption DEF Seeds, SuggestionInv
  <2>4. Honest(r)
    BY <2>3, ReprocessingAssumption DEF Honest, Requests, Ids
  <2> QED
    BY <2>2, <2>4, SessionStep
<1>3. CASE BeginAccept(s)
  <2>1. PICK q \in DOMAIN suggestions : Acceptable(q) /\ Open(s, "accept", q)
    BY <1>3 DEF BeginAccept
  <2> DEFINE r == [op |-> "accept", id |-> q, expected |-> Len(log)]
  <2>2. open' = [open EXCEPT ![s] = r] /\ UNCHANGED <<base, log, jobVars, suggestions>>
    BY <2>1 DEF Open
  <2>3. Honest(r)
    BY <1>0, <2>1, RowTypes DEF Honest, Requests, SuggestionInv
  <2> QED
    BY <2>2, <2>3, SessionStep
<1>4. CASE BeginDismiss(s)
  <2>1. PICK q \in DOMAIN suggestions : Open(s, "dismiss", q)
    BY <1>4 DEF BeginDismiss
  <2> DEFINE r == [op |-> "dismiss", id |-> q, expected |-> Len(log)]
  <2>2. open' = [open EXCEPT ![s] = r] /\ UNCHANGED <<base, log, jobVars, suggestions>>
    BY <2>1 DEF Open
  <2>3. Honest(r)
    BY <1>0, <2>1, RowTypes DEF Honest, Requests, SuggestionInv
  <2> QED
    BY <2>2, <2>3, SessionStep
<1> QED
  BY <1>1, <1>2, <1>3, <1>4

\* Steps of a job that leave the rows alone.
LEMMA JobStep ==
    ASSUME SuggestionInv, NEW j \in Jobs,
           UNCHANGED <<base, log, suggestions>>,
           \/ UNCHANGED open
           \/ \E s \in Sessions : open' = [open EXCEPT ![s] = IdleSession],
           \E x \in Queue!States : job' = [job EXCEPT ![j] = x],
           \E n \in 0..MaxRevision : source' = [source EXCEPT ![j] = n],
           \E x \in {"none", "begun", "propagated", "stored"} : stage' = [stage EXCEPT ![j] = x],
           \E S \in SUBSET Frames : candidates' = [candidates EXCEPT ![j] = S],
           job'[j] \in {"absent", "queued"} => stage'[j] = "none",
           source'[j] \in Seeds,
           stage'[j] = "propagated" =>
               /\ source'[j] = source[j]
               /\ candidates'[j] \subseteq (StartFrame(j)..EndFrame(j)) \ {SeedFrame(j)}
    PROVE  SuggestionInv'
<1>1. \A s \in Sessions : open'[s] \in {open[s], IdleSession}
  BY DEF SuggestionInv, TypeOK
<1>2. \A k \in Jobs \ {j} : /\ job'[k] = job[k] /\ source'[k] = source[k]
                            /\ stage'[k] = stage[k] /\ candidates'[k] = candidates[k]
  BY DEF SuggestionInv, TypeOK
<1>3. TypeOK'
  <2>1. job' \in [Jobs -> Queue!States]
    BY DEF SuggestionInv, TypeOK
  <2>2. source' \in [Jobs -> 0..MaxRevision]
    BY DEF SuggestionInv, TypeOK
  <2>3. stage' \in [Jobs -> {"none", "begun", "propagated", "stored"}]
    BY DEF SuggestionInv, TypeOK
  <2>4. candidates' \in [Jobs -> SUBSET Frames]
    BY DEF SuggestionInv, TypeOK
  <2>5. open' \in [Sessions -> Requests]
    BY IdleIsHonest DEF SuggestionInv, TypeOK, Honest
  <2> QED
    BY <2>1, <2>2, <2>3, <2>4, <2>5 DEF SuggestionInv, TypeOK
<1>4. StageFitsJob'
  BY <1>2 DEF SuggestionInv, StageFitsJob
<1>5. SourcesAreSeeds'
  BY <1>1, <1>2, LogSame DEF SuggestionInv, SourcesAreSeeds, IdleSession
<1>6. FoundFitsWindow'
  BY <1>2 DEF SuggestionInv, FoundFitsWindow, StartFrame, EndFrame, SeedFrame, Seed
<1>7. SessionsKeepTheirCheck'
  BY <1>1, LogSame DEF SuggestionInv, SessionsKeepTheirCheck, IdleSession
<1> QED
  BY <1>3, <1>4, <1>5, <1>6, <1>7, KeptLog

LEMMA QueuedIsSession ==
    ASSUME SuggestionInv, NEW s \in Sessions, NEW j \in Jobs, CommitRequest(s, j)
    PROVE  SuggestionInv'
<1>1. /\ open[s].op = "request" /\ job[j] = "absent"
      /\ job' = [job EXCEPT ![j] = "queued"]
      /\ source' = [source EXCEPT ![j] = open[s].id[1]]
      /\ open' = [open EXCEPT ![s] = IdleSession]
      /\ UNCHANGED <<base, log, stage, candidates, suggestions>>
  BY DEF CommitRequest, Queue!Request, Close
<1>2. open[s].id[1] \in Seeds /\ open[s].id[1] \in 0..MaxRevision
  <2>1. open[s].id[1] \in Seeds
    BY <1>1 DEF SuggestionInv, SourcesAreSeeds
  <2> QED
    BY <2>1, LogType, ReprocessingAssumption DEF Seeds, SuggestionInv, TypeOK
<1>3. stage[j] = "none" /\ stage' = [stage EXCEPT ![j] = "none"]
  BY <1>1 DEF SuggestionInv, StageFitsJob, TypeOK
<1>4. candidates' = [candidates EXCEPT ![j] = candidates[j]] /\ candidates[j] \in SUBSET Frames
  BY <1>1 DEF SuggestionInv, TypeOK
<1>5. source'[j] \in Seeds /\ stage'[j] = "none"
  BY <1>1, <1>2, <1>3 DEF SuggestionInv, TypeOK
<1>6. "queued" \in Queue!States
  BY DEF Queue!States
<1> QED
  BY <1>1, <1>2, <1>3, <1>4, <1>5, <1>6, JobStep

LEMMA JobActions ==
    ASSUME SuggestionInv, NEW j \in Jobs,
           Start(j) \/ Propagate(j) \/ Complete(j) \/ Fail(j) \/ Expire(j)
    PROVE  SuggestionInv'
<1>0. /\ job = [job EXCEPT ![j] = job[j]] /\ job[j] \in Queue!States
      /\ source = [source EXCEPT ![j] = source[j]] /\ source[j] \in 0..MaxRevision
      /\ stage = [stage EXCEPT ![j] = stage[j]]
      /\ stage[j] \in {"none", "begun", "propagated", "stored"}
      /\ candidates = [candidates EXCEPT ![j] = candidates[j]] /\ candidates[j] \in SUBSET Frames
  BY DEF SuggestionInv, TypeOK
<1>1. stage[j] # "none" \/ job[j] # "absent" => source[j] \in Seeds
  BY DEF SuggestionInv, SourcesAreSeeds
<1>2. {"running", "completed", "failed"} \subseteq Queue!States
  BY DEF Queue!States
<1>3. job[j] \in {"absent", "queued"} => stage[j] = "none"
  BY DEF SuggestionInv, StageFitsJob
<1>4. CASE Start(j)
  <2>1. /\ job[j] = "queued" /\ job' = [job EXCEPT ![j] = "running"]
        /\ stage' = [stage EXCEPT ![j] = "begun"]
        /\ UNCHANGED <<base, log, source, candidates, suggestions, open>>
    BY <1>4 DEF Start, Queue!Start
  <2>2. job'[j] = "running" /\ stage'[j] = "begun" /\ source'[j] \in Seeds
    BY <1>1, <2>1 DEF SuggestionInv, TypeOK
  <2> QED
    BY <1>0, <1>2, <2>1, <2>2, JobStep
<1>5. CASE Propagate(j)
  <2>1. /\ job[j] = "running" /\ stage[j] = "begun"
        /\ stage' = [stage EXCEPT ![j] = "propagated"]
        /\ UNCHANGED <<base, log, job, source, suggestions, open>>
    BY <1>5 DEF Propagate, Advance, Alive
  <2>2. PICK found : /\ candidates' = [candidates EXCEPT ![j] = found]
                    /\ found \subseteq (StartFrame(j)..EndFrame(j)) \ {SeedFrame(j)}
                    /\ found \subseteq Frames
    BY <1>5, PropagationFits DEF SuggestionInv, HistoryInv
  <2>3. candidates'[j] = found /\ job'[j] = "running" /\ source'[j] = source[j]
    BY <2>1, <2>2 DEF SuggestionInv, TypeOK
  <2>4. source'[j] \in Seeds
    BY <1>1, <2>1, <2>3
  <2> QED
    BY <1>0, <2>1, <2>2, <2>3, <2>4, JobStep
<1>6. CASE Complete(j) \/ Fail(j)
  <2>1. PICK x \in {"completed", "failed"} :
            /\ stage[j] # "none" /\ job' = [job EXCEPT ![j] = x]
            /\ stage' = [stage EXCEPT ![j] = "none"]
            /\ candidates' = [candidates EXCEPT ![j] = {}]
            /\ UNCHANGED <<base, log, source, suggestions, open>>
    BY <1>6 DEF Complete, Fail, Leave, Queue!Complete
  <2>2. job'[j] = x /\ stage'[j] = "none" /\ source'[j] \in Seeds
    BY <1>1, <2>1 DEF SuggestionInv, TypeOK
  <2> QED
    BY <1>0, <1>2, <2>1, <2>2, JobStep
<1>7. CASE Expire(j)
  <2>1. /\ job[j] = "running"
        /\ job' = [k \in Jobs |-> IF k \in {j} THEN "failed" ELSE job[k]]
        /\ UNCHANGED <<base, log, source, stage, candidates, suggestions, open>>
    BY <1>7 DEF Expire, Alive, Queue!GiveUp
  <2>2. job' = [job EXCEPT ![j] = "failed"]
    BY <2>1 DEF SuggestionInv, TypeOK
  <2>3. job'[j] = "failed" /\ source'[j] \in Seeds
    BY <1>1, <2>1
  <2>4. stage'[j] = "propagated" =>
            candidates'[j] \subseteq (StartFrame(j)..EndFrame(j)) \ {SeedFrame(j)}
    BY <2>1 DEF SuggestionInv, FoundFitsWindow
  <2> QED
    BY <1>0, <1>2, <2>1, <2>2, <2>3, <2>4, JobStep
<1> QED
  BY <1>4, <1>5, <1>6, <1>7

\* Storing adds rows that fit, all of them pending.
LEMMA StoreStep ==
    ASSUME SuggestionInv, NEW j \in Jobs, Store(j)
    PROVE  SuggestionInv'
<1>1. /\ stage[j] = "propagated"
      /\ stage' = [stage EXCEPT ![j] = "stored"]
      /\ UNCHANGED <<base, log, job, source, open, candidates>>
  BY DEF Store, Advance
<1>2. \A q \in Found(j) : q \in Ids /\ RowFits(q)
  BY <1>1, FoundAreIds DEF RowFits, SuggestionInv, HistoryInv, SeedFrame
<1>3. Pending \in Rows /\ Pending.status = "PENDING"
  BY ReprocessingAssumption DEF Pending, Rows
<1>4. /\ DOMAIN suggestions \subseteq DOMAIN suggestions'
      /\ DOMAIN suggestions' \subseteq DOMAIN suggestions \cup Found(j)
      /\ \A q \in DOMAIN suggestions : suggestions'[q] = suggestions[q]
      /\ \A q \in DOMAIN suggestions' \ DOMAIN suggestions : suggestions'[q] = Pending
  BY DEF Store, Insert
<1>5. \A k \in Jobs : stage'[k] = IF k = j THEN "stored" ELSE stage[k]
  BY <1>1 DEF SuggestionInv, TypeOK
<1>6. TypeOK'
  <2>1. stage' \in [Jobs -> {"none", "begun", "propagated", "stored"}]
    BY <1>1 DEF SuggestionInv, TypeOK
  <2>2. DOMAIN suggestions' \subseteq Ids
    BY <1>2, <1>4 DEF SuggestionInv, TypeOK
  <2>3. \A q \in DOMAIN suggestions' : suggestions'[q] \in Rows
    BY <1>3, <1>4 DEF SuggestionInv, TypeOK
  <2> QED
    BY <1>1, <2>1, <2>2, <2>3 DEF SuggestionInv, TypeOK
<1>7. StageFitsJob'
  BY <1>1, <1>5 DEF SuggestionInv, StageFitsJob
<1>8. SourcesAreSeeds'
  BY <1>1, <1>5, LogSame DEF SuggestionInv, SourcesAreSeeds
<1>9. FoundFitsWindow'
  BY <1>1, <1>5 DEF SuggestionInv, FoundFitsWindow, StartFrame, EndFrame, SeedFrame, Seed
<1>10. SessionsKeepTheirCheck'
  BY <1>1, <1>4, LogSame DEF SuggestionInv, SessionsKeepTheirCheck
<1>11. \A q \in DOMAIN suggestions' \ DOMAIN suggestions :
          RowFits(q) /\ suggestions'[q].status # "ACCEPTED"
  BY <1>2, <1>3, <1>4
<1> QED
  BY <1>1, <1>4, <1>6, <1>7, <1>8, <1>9, <1>10, <1>11, KeptLog

LEMMA DismissStep ==
    ASSUME SuggestionInv, NEW s \in Sessions, CommitDismiss(s)
    PROVE  SuggestionInv'
<1> DEFINE q == open[s].id
           row == [status |-> "DISMISSED", resolution |-> 0]
<1>1. /\ open[s].op = "dismiss" /\ IsPending(q)
      /\ suggestions' = [suggestions EXCEPT ![q] = row]
      /\ open' = [open EXCEPT ![s] = IdleSession]
      /\ UNCHANGED <<base, log, jobVars>>
  BY DEF CommitDismiss, Resolve, Close
<1>2. q \in DOMAIN suggestions
  BY <1>1 DEF SuggestionInv, SessionsKeepTheirCheck
<1>3. row \in Rows /\ row.status = "DISMISSED"
  BY ReprocessingAssumption DEF Rows
<1>4. \A u \in Sessions : open'[u] \in {open[u], IdleSession}
  BY <1>1 DEF SuggestionInv, TypeOK
<1> HIDE DEF q, row
<1>5. /\ DOMAIN suggestions' = DOMAIN suggestions
      /\ \A p \in DOMAIN suggestions : suggestions'[p] = IF p = q THEN row ELSE suggestions[p]
  BY <1>1
<1>6. TypeOK'
  <2>1. open' \in [Sessions -> Requests]
    BY <1>1, IdleIsHonest DEF SuggestionInv, TypeOK, Honest
  <2> QED
    BY <1>1, <1>3, <1>5, <2>1 DEF SuggestionInv, TypeOK, jobVars
<1>7. StageFitsJob'
  BY <1>1 DEF SuggestionInv, StageFitsJob, jobVars
<1>8. SourcesAreSeeds'
  BY <1>1, <1>4, LogSame DEF SuggestionInv, SourcesAreSeeds, IdleSession, jobVars
<1>9. FoundFitsWindow'
  BY <1>1 DEF SuggestionInv, FoundFitsWindow, StartFrame, EndFrame, SeedFrame, Seed, jobVars
<1>10. SessionsKeepTheirCheck'
  BY <1>1, <1>4, <1>5, LogSame DEF SuggestionInv, SessionsKeepTheirCheck, IdleSession
<1>11. \A p \in DOMAIN suggestions :
          \/ suggestions'[p] = suggestions[p]
          \/ suggestions'[p].status # "ACCEPTED" /\ suggestions[p].status # "ACCEPTED"
  BY <1>1, <1>3, <1>5 DEF IsPending
<1> QED
  BY <1>1, <1>5, <1>6, <1>7, <1>8, <1>9, <1>10, <1>11, KeptLog

-----------------------------------------------------------------------------
(* Steps that append an action.                                            *)

LEMMA EditStep ==
    ASSUME SuggestionInv, Edit
    PROVE  SuggestionInv'
<1>1. PICK f, track : Appends(f, track, NoId) /\ UNCHANGED <<suggestions, open>>
  BY EditAppends DEF SuggestionInv
<1>2. /\ log' \in Seq(Actions) /\ Len(log') = Len(log) + 1 /\ Len(log') \in 1..MaxRevision
      /\ \A n \in 1..Len(log) : log'[n] = log[n]
      /\ log'[Len(log) + 1] = Entry(f, track, NoId)
      /\ Len(log) \in Nat
  BY <1>1, LogGrows, LogType DEF SuggestionInv
<1>3. TypeOK' /\ StageFitsJob'
  BY <1>1, <1>2 DEF SuggestionInv, TypeOK, StageFitsJob, Appends, jobVars
<1>4. HistoryInv'
  BY <1>1, AppendKeepsHistory DEF SuggestionInv, HistoryInv
<1>5. AcceptedOnce'
  <2> SUFFICES ASSUME NEW p \in DOMAIN suggestions
               PROVE  {n \in 1..Len(log') : log'[n].accepts = p} =
                          {n \in 1..Len(log) : log[n].accepts = p}
    BY <1>1 DEF AcceptedOnce, SuggestionInv
  <2>1. p # NoId
    BY RowTypes DEF SuggestionInv
  <2>2. log'[Len(log) + 1].accepts # p
    BY <1>2, <2>1 DEF Entry
  <2> QED
    BY <1>2, <2>2
<1> QED
  BY <1>3, <1>4, <1>5 DEF SuggestionInv, HistoryInv

LEMMA AcceptStep ==
    ASSUME SuggestionInv, NEW s \in Sessions, CommitAccept(s)
    PROVE  SuggestionInv'
<1> DEFINE q == open[s].id
           track == WithBox(Current, q[2], "suggested")
           row == [status |-> "ACCEPTED", resolution |-> Len(log) + 1]
<1>1. /\ IsPending(q)
      /\ suggestions' = [suggestions EXCEPT ![q] = row]
      /\ open' = [open EXCEPT ![s] = IdleSession]
  BY DEF CommitAccept, Resolve, Close
<1>2. q \in DOMAIN suggestions /\ Acceptable(q) /\ Appends(q[2], track, q)
  BY AcceptAppends
<1>3. \A u \in Sessions : open'[u] \in {open[u], IdleSession}
  BY <1>1 DEF SuggestionInv, TypeOK
<1>4. row.status = "ACCEPTED" /\ row.resolution = Len(log) + 1
  OBVIOUS
<1> HIDE DEF track
<1>5. /\ log' \in Seq(Actions) /\ Len(log') = Len(log) + 1 /\ Len(log') \in 1..MaxRevision
      /\ \A n \in 1..Len(log) : log'[n] = log[n]
      /\ log'[Len(log) + 1].accepts = q
      /\ Len(log) \in Nat
  <2> HIDE DEF q
  <2>1. /\ log' \in Seq(Actions) /\ Len(log') = Len(log) + 1 /\ Len(log') \in 1..MaxRevision
        /\ \A n \in 1..Len(log) : log'[n] = log[n]
        /\ log'[Len(log) + 1] = Entry(q[2], track, q)
        /\ Len(log) \in Nat
    BY <1>2, LogGrows, LogType DEF SuggestionInv
  <2> QED
    BY <2>1 DEF Entry
<1>6. row \in Rows
  BY <1>5, ReprocessingAssumption DEF Rows
<1> HIDE DEF q, row
<1>7. /\ DOMAIN suggestions' = DOMAIN suggestions
      /\ \A p \in DOMAIN suggestions : suggestions'[p] = IF p = q THEN row ELSE suggestions[p]
  BY <1>1
<1>8. TypeOK' /\ StageFitsJob'
  <2>1. open' \in [Sessions -> Requests]
    BY <1>1, IdleIsHonest DEF SuggestionInv, TypeOK, Honest
  <2>2. UNCHANGED <<base, jobVars>>
    BY <1>2 DEF Appends
  <2>3. Len(log') <= MaxRevision
    BY <1>5, ReprocessingAssumption
  <2>4. \A p \in DOMAIN suggestions' : p \in Ids /\ suggestions'[p] \in Rows
    BY <1>6, <1>7 DEF SuggestionInv, TypeOK
  <2>5. TypeOK'
    BY <1>5, <2>1, <2>2, <2>3, <2>4 DEF SuggestionInv, TypeOK, jobVars
  <2> QED
    BY <2>2, <2>5 DEF SuggestionInv, StageFitsJob, jobVars
<1>9. HistoryInv'
  BY <1>2, <1>3, <1>7, AppendKeepsHistory DEF SuggestionInv, HistoryInv
<1>10. AcceptedOnce'
  <2> SUFFICES ASSUME NEW p \in DOMAIN suggestions
               PROVE  {n \in 1..Len(log') : log'[n].accepts = p} =
                          IF suggestions'[p].status = "ACCEPTED"
                          THEN {suggestions'[p].resolution} ELSE {}
    BY <1>7 DEF AcceptedOnce
  <2>1. {n \in 1..Len(log) : log[n].accepts = p} =
            IF suggestions[p].status = "ACCEPTED" THEN {suggestions[p].resolution} ELSE {}
    BY DEF SuggestionInv, AcceptedOnce
  <2>2. {n \in 1..Len(log') : log'[n].accepts = p} =
            {n \in 1..Len(log) : log[n].accepts = p}
                \cup {n \in {Len(log) + 1} : q = p}
    BY <1>5
  <2>3. CASE p = q
    <3>1. {n \in 1..Len(log) : log[n].accepts = p} = {}
      BY <1>1, <2>1, <2>3 DEF IsPending
    <3> QED
      BY <1>4, <1>7, <2>2, <2>3, <3>1
  <2>4. CASE p # q
    BY <1>7, <2>1, <2>2, <2>4
  <2> QED
    BY <2>3, <2>4
<1> QED
  BY <1>8, <1>9, <1>10 DEF SuggestionInv, HistoryInv

-----------------------------------------------------------------------------
(* The first correction.                                                   *)

LEMMA DetectedIsTrack ==
    ASSUME NEW c \in Classes
    PROVE  /\ Detected(c) \in TrackRecords
           /\ Detected(c).first = 0 /\ Detected(c).last = LastFrame
BY FrameType DEF Detected, TrackRecords, Keyframes

LEMMA FirstCorrection ==
    ASSUME Init
    PROVE  \E f, track : /\ base \in Tracks /\ log = <<Entry(f, track, NoId)>>
                         /\ f \in Frames /\ track \in Tracks /\ track # Gone
                         /\ f \in track.first..track.last
<1>1. PICK f \in Corrected, box \in Boxes, c \in Classes :
          \/ base = Detected(c) /\ log = <<Entry(f, WithBox(base, f, box), NoId)>>
          \/ \E span \in Spans : /\ f \in span[1]..span[2] /\ base = Gone
                                /\ log = <<Entry(f, Drawn(f, span, box, c), NoId)>>
  BY DEF Init
<1>2. f \in Frames /\ box \in Keyframes
  BY ReprocessingAssumption DEF Frames, Keyframes
<1>3. CASE base = Detected(c) /\ log = <<Entry(f, WithBox(base, f, box), NoId)>>
  <2> DEFINE track == WithBox(base, f, box)
  <2>1. base \in TrackRecords /\ base.first = 0 /\ base.last = LastFrame
    BY <1>3, DetectedIsTrack
  <2>2. /\ track \in TrackRecords /\ track.active = TRUE
        /\ track.first = 0 /\ track.last = LastFrame
    BY <1>2, <2>1, BoxedIsTrack
  <2>3. log = <<Entry(f, track, NoId)>>
    BY <1>3
  <2> HIDE DEF track
  <2>4. base \in Tracks /\ track \in Tracks /\ track # Gone
    BY <2>1, <2>2, GoneIsGone DEF Tracks, TrackRecords
  <2>5. f \in track.first..track.last
    BY <1>2, <2>2 DEF Frames
  <2> QED
    BY <1>2, <2>3, <2>4, <2>5
<1>4. ASSUME NEW span \in Spans, f \in span[1]..span[2], base = Gone,
             log = <<Entry(f, Drawn(f, span, box, c), NoId)>>
      PROVE  \E track : /\ base \in Tracks /\ log = <<Entry(f, track, NoId)>>
                        /\ f \in Frames /\ track \in Tracks /\ track # Gone
                        /\ f \in track.first..track.last
  <2> DEFINE track == Drawn(f, span, box, c)
  <2>1. /\ track \in TrackRecords /\ track.active = TRUE
        /\ track.first = span[1] /\ track.last = span[2]
    BY <1>2, DrawnIsTrack
  <2>2. log = <<Entry(f, track, NoId)>>
    BY <1>4
  <2> HIDE DEF track
  <2>3. base \in Tracks /\ track \in Tracks /\ track # Gone
    BY <1>4, <2>1, GoneIsGone DEF Tracks, TrackRecords
  <2> QED
    BY <1>2, <1>4, <2>1, <2>2, <2>3
<1> QED
  BY <1>1, <1>3, <1>4

LEMMA SuggestionsStart == Init => SuggestionInv
<1> SUFFICES ASSUME Init PROVE SuggestionInv
  OBVIOUS
<1>1. PICK f, track : /\ base \in Tracks /\ log = <<Entry(f, track, NoId)>>
                     /\ f \in Frames /\ track \in Tracks /\ track # Gone
                     /\ f \in track.first..track.last
  BY FirstCorrection
<1>2. /\ job = [j \in Jobs |-> "absent"]
      /\ source = [j \in Jobs |-> 0]
      /\ stage = [j \in Jobs |-> "none"]
      /\ candidates = [j \in Jobs |-> {}]
      /\ suggestions = [q \in {} |-> 0]
      /\ open = [s \in Sessions |-> IdleSession]
  BY DEF Init, Queue!LifecycleInit
<1>3. Entry(f, track, NoId) \in Actions
  BY <1>1 DEF Entry, Actions
<1>4. /\ log \in Seq(Actions) /\ Len(log) = 1
      /\ log[1] = Entry(f, track, NoId)
  BY <1>1, <1>3
<1>5. log[1].seed = f /\ log[1].after = track /\ log[1].accepts = NoId
  BY <1>4 DEF Entry
<1>6. DOMAIN suggestions = {}
  BY <1>2
<1>7. TypeOK
  <2>1. open \in [Sessions -> Requests]
    BY <1>2, IdleIsHonest DEF Honest
  <2>2. job \in [Jobs -> Queue!States]
    BY <1>2 DEF Queue!States
  <2>3. source \in [Jobs -> 0..MaxRevision]
    BY <1>2, ReprocessingAssumption
  <2>4. Len(log) <= MaxRevision
    BY <1>4, ReprocessingAssumption
  <2> QED
    BY <1>1, <1>2, <1>4, <1>6, <2>1, <2>2, <2>3, <2>4 DEF TypeOK
<1>8. SeedsFitTheirTracks
  BY <1>1, <1>4, <1>5 DEF SeedsFitTheirTracks, Seeds, Seed
<1>9. StageFitsJob /\ SourcesAreSeeds /\ FoundFitsWindow /\ SessionsKeepTheirCheck
  BY <1>2 DEF StageFitsJob, SourcesAreSeeds, FoundFitsWindow, SessionsKeepTheirCheck, IdleSession
<1>10. RowsFitSeed /\ AcceptedOnce
  BY <1>6 DEF RowsFitSeed, AcceptedOnce
<1>11. AcceptsAreRows /\ AcceptedNeverOverwrites
  BY <1>4, <1>5 DEF AcceptsAreRows, AcceptedNeverOverwrites, Accepting
<1> QED
  BY <1>7, <1>8, <1>9, <1>10, <1>11 DEF SuggestionInv

-----------------------------------------------------------------------------
(***************************************************************************)
(* Every reachable state satisfies the inductive invariant.                *)
(***************************************************************************)
THEOREM SuggestionInvariant == Spec => []SuggestionInv
<1>1. SuggestionInv /\ [Next]_vars => SuggestionInv'
  <2> SUFFICES ASSUME SuggestionInv, [Next]_vars PROVE SuggestionInv'
    OBVIOUS
  <2>1. CASE Edit
    BY <2>1, EditStep
  <2>2. ASSUME NEW s \in Sessions, Review(s) PROVE SuggestionInv'
    <3>1. CASE Request(s) \/ BeginAccept(s) \/ BeginDismiss(s) \/ Drop(s)
      BY <3>1, OpenIsSession
    <3>2. CASE \E j \in Jobs : CommitRequest(s, j)
      BY <3>2, QueuedIsSession
    <3>3. CASE CommitAccept(s)
      BY <3>3, AcceptStep
    <3>4. CASE CommitDismiss(s)
      BY <3>4, DismissStep
    <3> QED
      BY <2>2, <3>1, <3>2, <3>3, <3>4 DEF Review
  <2>3. ASSUME NEW j \in Jobs, Work(j) PROVE SuggestionInv'
    BY <2>3, JobActions, StoreStep DEF Work
  <2>4. CASE UNCHANGED vars
    <3>1. /\ UNCHANGED <<base, log, job, source, stage, candidates, suggestions, open>>
      BY <2>4 DEF vars, jobVars
    <3>2. TypeOK' /\ StageFitsJob' /\ SourcesAreSeeds' /\ FoundFitsWindow'
      BY <3>1 DEF SuggestionInv, TypeOK, StageFitsJob, SourcesAreSeeds, FoundFitsWindow,
                  StartFrame, EndFrame, SeedFrame, Seed, Seeds
    <3>3. SessionsKeepTheirCheck'
      BY <3>1, LogSame DEF SuggestionInv, SessionsKeepTheirCheck
    <3> QED
      BY <3>1, <3>2, <3>3, KeptLog
  <2> QED
    BY <2>1, <2>2, <2>3, <2>4 DEF Next
<1> QED
  BY SuggestionsStart, <1>1, PTL DEF Spec

(***************************************************************************)
(* The log, the jobs and the rows keep their types: TypeOK.                *)
(***************************************************************************)
THEOREM SuggestionTypeCorrect == Spec => []TypeOK
BY SuggestionInvariant, PTL DEF SuggestionInv

(***************************************************************************)
(* Accepting never writes over a reviewer's work, however many reviewers   *)
(* edit and accept at once: AcceptedNeverOverwrites.                       *)
(***************************************************************************)
THEOREM AcceptingRespectsEdits == Spec => []AcceptedNeverOverwrites
BY SuggestionInvariant, PTL DEF SuggestionInv

(***************************************************************************)
(* A suggestion is in the log once if it is accepted and never otherwise:  *)
(* AcceptedOnce.                                                           *)
(***************************************************************************)
THEOREM AcceptingHappensOnce == Spec => []AcceptedOnce
BY SuggestionInvariant, PTL DEF SuggestionInv

(***************************************************************************)
(* Suggestions fit the correction they come from, and a pass holds no more *)
(* frames than its limit, whatever the frame rate, the window and the      *)
(* length of the track: SuggestionsFitSeed.                                *)
(***************************************************************************)
THEOREM SuggestionsFit == Spec => []SuggestionsFitSeed
<1>1. SuggestionInv => SuggestionsFitSeed
  <2> SUFFICES ASSUME SuggestionInv PROVE SuggestionsFitSeed
    OBVIOUS
  <2>1. ASSUME NEW j \in Jobs, stage[j] = "begun"
        PROVE  Cardinality(Wanted(SeedFrame(j), StartFrame(j), EndFrame(j))) <= MaxFrames + 1
    <3>1. PICK start, seed, end : WindowIs(j, start, seed, end)
      BY <2>1, WindowFits DEF SuggestionInv, HistoryInv
    <3>2. start \in Int /\ seed \in Int /\ end \in Int /\ start <= seed /\ seed <= end
      BY <3>1, FrameType DEF WindowIs
    <3>3. Cardinality(Wanted(seed, start, end)) <= MaxFrames + 1
      BY <3>2, HeldFramesAreFew
    <3> QED
      BY <3>1, <3>3 DEF WindowIs
  <2> QED
    BY <2>1 DEF SuggestionInv, RowsFitSeed, SuggestionsFitSeed
<1> QED
  BY <1>1, SuggestionInvariant, PTL

(***************************************************************************)
(* A resolved suggestion stays as it is and no row disappears, whichever   *)
(* job or reviewer acts: ResolutionIsFinal.                                *)
(***************************************************************************)
THEOREM ResolutionsAreFinal == Spec => ResolutionIsFinal
<1> DEFINE Final == \A q \in DOMAIN suggestions :
                       /\ q \in DOMAIN suggestions'
                       /\ ~IsPending(q) => suggestions'[q] = suggestions[q]
<1>1. [Next]_vars => [Final]_vars
  <2> SUFFICES ASSUME Next PROVE Final
    OBVIOUS
  <2>1. CASE UNCHANGED suggestions
    BY <2>1
  <2>2. CASE \E p, row : IsPending(p) /\ suggestions' = [suggestions EXCEPT ![p] = row]
    <3>1. PICK p, row : IsPending(p) /\ suggestions' = [suggestions EXCEPT ![p] = row]
      BY <2>2
    <3>2. DOMAIN suggestions' = DOMAIN suggestions
      BY <3>1
    <3>3. ASSUME NEW q \in DOMAIN suggestions, ~IsPending(q)
          PROVE  suggestions'[q] = suggestions[q]
      BY <3>1, <3>3
    <3> QED
      BY <3>2, <3>3
  <2>3. CASE \E rows : Insert(rows)
    BY <2>3 DEF Insert
  <2>4. \/ UNCHANGED suggestions
        \/ \E p, row : IsPending(p) /\ suggestions' = [suggestions EXCEPT ![p] = row]
        \/ \E rows : Insert(rows)
    <3>1. CASE Edit
      BY <3>1 DEF Edit, MoveRegion, DeleteTrack, ChangeClass, TrimTrack, UndoOrRedo, Commit
    <3>2. ASSUME NEW s \in Sessions, Review(s)
          PROVE  \/ UNCHANGED suggestions
                 \/ \E p, row : IsPending(p) /\ suggestions' = [suggestions EXCEPT ![p] = row]
      BY <3>2 DEF Review, Request, Drop, CommitRequest, BeginAccept, BeginDismiss, Open,
                  CommitAccept, CommitDismiss, Resolve
    <3>3. ASSUME NEW j \in Jobs, Work(j)
          PROVE  UNCHANGED suggestions \/ \E rows : Insert(rows)
      BY <3>3 DEF Work, Start, Propagate, Store, Complete, Fail, Leave, Expire
    <3> QED
      BY <3>1, <3>2, <3>3 DEF Next
  <2> QED
    BY <2>1, <2>2, <2>3, <2>4
<1> QED
  BY <1>1, PTL DEF Spec, ResolutionIsFinal

=============================================================================
