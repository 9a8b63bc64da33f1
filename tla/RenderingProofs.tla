--------------------------- MODULE RenderingProofs ---------------------------
(***************************************************************************)
(* Lemmas about rendering (module Rendering): the order of tracks and      *)
(* keyframes, the pointers and cursors of the lookup against the boxes     *)
(* they stand for, and the steps of the renderer.  They hold for any       *)
(* snapshot, and for videos of any length.                                 *)
(***************************************************************************)
EXTENDS Rendering, FiniteSetTheorems, FunctionTheorems, WellFoundedInduction, TLAPS

-----------------------------------------------------------------------------
(* Least and greatest members.                                             *)

\* Every set of numbers has a least member.
LEMMA LeastNatural ==
    ASSUME NEW S \in SUBSET Nat, S # {}
    PROVE  \E m \in S : \A n \in S : m <= n
<1> DEFINE R == OpToRel(<, Nat)
<1>1. \A x, y \in Nat : x < y => <<x, y>> \in R
  BY SMT DEF OpToRel
<1>2. IsWellFoundedOn(R, Nat)
  BY NatLessThanWellFounded
<1> HIDE DEF R
<1>3. PICK m \in S : \A n \in S : <<n, m>> \notin R
  BY <1>2, WFMin
<1>4. ASSUME NEW n \in S PROVE m <= n
  <2>1. m \in Nat /\ n \in Nat /\ ~(n < m)
    BY <1>1, <1>3
  <2> QED
    BY <2>1
<1> QED
  BY <1>4

\* Hence the library's Min is it,
LEMMA MinIsLeast ==
    ASSUME NEW S \in SUBSET Nat, S # {}
    PROVE  Min(S) \in S /\ \A n \in S : Min(S) <= n
BY LeastNatural DEF Min

\* and its Max the greatest, of a bounded set.
LEMMA MaxIsGreatest ==
    ASSUME NEW S \in SUBSET Nat, S # {}, NEW b \in Nat, \A n \in S : n <= b
    PROVE  Max(S) \in S /\ \A n \in S : n <= Max(S)
<1> DEFINE T == {b - n : n \in S}
<1>1. T \in SUBSET Nat /\ T # {}
  <2>1. \A n \in S : n \in Nat /\ n <= b
    OBVIOUS
  <2>2. \A n \in S : b - n \in Nat
    BY <2>1
  <2> QED
    BY <2>2
<1>2. PICK m \in T : \A n \in T : m <= n
  BY <1>1, LeastNatural
<1>3. PICK x \in S : m = b - x
  BY <1>2
<1>4. \A n \in S : x >= n
  BY <1>2, <1>3
<1> QED
  BY <1>4 DEF Max

-----------------------------------------------------------------------------
(* Ordered lists a finite set along a strict total order.                  *)

IsOrderOf(before, S) ==
    /\ \A x \in S : <<x, x>> \notin before
    /\ \A x, y, z \in S : <<x, y>> \in before /\ <<y, z>> \in before => <<x, z>> \in before
    /\ \A x, y \in S : x # y => <<x, y>> \in before \/ <<y, x>> \in before

\* Every member once, and in order.
LEMMA OrderedLists ==
    ASSUME NEW S, IsFiniteSet(S), NEW before, IsOrderOf(before, S),
           NEW s, s = Ordered(S, before)
    PROVE  /\ s \in Seq(S) /\ Len(s) = Cardinality(S)
           /\ \A i, j \in 1..Len(s) : i < j => <<s[i], s[j]>> \in before
           /\ \A x \in S : \E i \in 1..Len(s) : s[i] = x
<1> DEFINE n == Cardinality(S)
           Below(x) == {y \in S : <<y, x>> \in before}
           rank == [x \in S |-> Cardinality(Below(x)) + 1]
<1>1. n \in Nat
  BY FS_CardinalityType
<1>2. \A x \in S : IsFiniteSet(Below(x)) /\ Cardinality(Below(x)) \in Nat
  <2> TAKE x \in S
  <2>1. Below(x) \in SUBSET S
    OBVIOUS
  <2> QED
    BY <2>1, FS_Subset, FS_CardinalityType
<1>3. ASSUME NEW x \in S, NEW y \in S, <<x, y>> \in before
      PROVE  rank[x] < rank[y]
  <2>1. Below(x) \cup {x} \in SUBSET Below(y) /\ x \notin Below(x)
    BY <1>3 DEF IsOrderOf
  <2>2. Cardinality(Below(x) \cup {x}) = Cardinality(Below(x)) + 1
    BY <1>2, <2>1, FS_AddElement
  <2>3. Cardinality(Below(x) \cup {x}) <= Cardinality(Below(y))
    BY <1>2, <2>1, FS_Subset
  <2> QED
    BY <1>2, <2>2, <2>3
<1>4. \A x \in S : rank[x] \in 1..n
  <2> TAKE x \in S
  <2>1. Below(x) \in SUBSET (S \ {x})
    BY DEF IsOrderOf
  <2>2. IsFiniteSet(S \ {x}) /\ Cardinality(S \ {x}) = n - 1
    BY FS_RemoveElement
  <2>3. Cardinality(Below(x)) <= n - 1
    <3>1. \A U \in SUBSET (S \ {x}) : Cardinality(U) <= Cardinality(S \ {x})
      BY <2>2, FS_Subset
    <3> QED
      BY <2>1, <2>2, <3>1
  <2> QED
    BY <1>1, <1>2, <2>3
<1>5. \A x, y \in S : rank[x] = rank[y] => x = y
  <2> SUFFICES ASSUME NEW x \in S, NEW y \in S, x # y PROVE rank[x] # rank[y]
    OBVIOUS
  <2>1. rank[x] < rank[y] \/ rank[y] < rank[x]
    BY <1>3 DEF IsOrderOf
  <2> QED
    BY <1>1, <1>4, <2>1
<1>6. \A k \in 1..n : \E x \in S : rank[x] = k
  <2>1. rank \in Injection(S, 1..n)
    <3> HIDE DEF Below
    <3> QED
      BY <1>4, <1>5 DEF Injection, IsInjective
  <2>2. IsFiniteSet(1..n) /\ Cardinality(1..n) = n
    BY <1>1, FS_Interval
  <2>3. rank \in Surjection(S, 1..n)
    BY <2>1, <2>2, FS_Injection
  <2> QED
    BY <2>3 DEF Surjection
<1>7. \A k \in 1..n : s[k] \in S /\ rank[s[k]] = k
  <2> TAKE k \in 1..n
  <2>1. s[k] = CHOOSE x \in S : Cardinality(Below(x)) = k - 1
    BY DEF Ordered
  <2>2. PICK x \in S : rank[x] = k
    BY <1>6
  <2>3. Cardinality(Below(x)) = k - 1
    BY <1>2, <2>2
  <2>4. s[k] \in S /\ Cardinality(Below(s[k])) = k - 1
    <3> HIDE DEF Below
    <3> QED
      BY <2>1, <2>3
  <2> QED
    BY <2>4
<1>8. s \in Seq(S) /\ Len(s) = n
  <2> DEFINE At(k) == CHOOSE x \in S : Cardinality({y \in S : <<y, x>> \in before}) = k - 1
  <2>1. s = [k \in 1..n |-> At(k)]
    BY DEF Ordered
  <2> HIDE DEF n, rank, At
  <2> QED
    BY <1>1, <1>7, <2>1
<1>9. ASSUME NEW i \in 1..n, NEW j \in 1..n, i < j PROVE <<s[i], s[j]>> \in before
  <2> HIDE DEF n, rank
  <2>1. s[i] # s[j] /\ ~(rank[s[j]] < rank[s[i]])
    <3>1. rank[s[i]] = i /\ rank[s[j]] = j /\ i \in Nat /\ j \in Nat
      BY <1>1, <1>7
    <3> QED
      BY <1>9, <3>1
  <2> QED
    BY <1>3, <1>7, <2>1 DEF IsOrderOf
<1>10. ASSUME NEW x \in S PROVE \E i \in 1..n : s[i] = x
  <2>1. rank[x] \in 1..n /\ s[rank[x]] = x
    BY <1>4, <1>5, <1>7
  <2> QED
    BY <2>1
<1> QED
  BY <1>8, <1>9, <1>10

-----------------------------------------------------------------------------
(* Tracks and their keyframes.                                             *)

Keyframes == [frame : Nat, at : Int]

TrackRecords ==
    [class : STRING, first : Nat, last : Nat, active : BOOLEAN, redacted : BOOLEAN,
     keys : Seq(Keyframes)]

Rising(keys) ==
    \A j, k \in 1..Len(keys) : j < k => keys[j].frame < keys[k].frame

WellFormed(t) ==
    /\ t \in TrackRecords
    /\ t.first <= t.last
    /\ t.keys # <<>> /\ Rising(t.keys)
    /\ \A k \in 1..Len(t.keys) : t.keys[k].frame \in t.first..t.last

\* What the keyframes of a well formed track are.
LEMMA KeyTypes ==
    ASSUME NEW t, WellFormed(t)
    PROVE  /\ t.first \in Nat /\ t.last \in Nat
           /\ t.keys \in Seq(Keyframes) /\ Len(t.keys) \in Nat \ {0}
           /\ Last(t.keys) = t.keys[Len(t.keys)]
           /\ \A k \in 1..Len(t.keys) :
                  t.keys[k] \in Keyframes /\ t.keys[k].frame \in Nat /\ t.keys[k].at \in Int
<1>1. t.first \in Nat /\ t.last \in Nat /\ t.keys \in Seq(Keyframes) /\ t.keys # <<>>
  BY DEF WellFormed, TrackRecords
<1>2. Len(t.keys) \in Nat \ {0} /\ \A k \in 1..Len(t.keys) : t.keys[k] \in Keyframes
  BY <1>1
<1> QED
  BY <1>1, <1>2 DEF Keyframes, Last

\* Between the first and the last keyframe there are two neighbours around a
\* frame; they are found from any keyframe before it.
LEMMA NeighboursFrom ==
    ASSUME NEW t, WellFormed(t), NEW f \in Nat, NEW c \in 1..Len(t.keys),
           t.keys[c].frame < f, f < t.keys[Len(t.keys)].frame,
           NEW d, d = Min({e \in c..Len(t.keys) : e = Len(t.keys) \/ t.keys[e + 1].frame >= f})
    PROVE  /\ d \in 1..(Len(t.keys) - 1)
           /\ t.keys[d].frame < f /\ f <= t.keys[d + 1].frame
<1> DEFINE n == Len(t.keys)
           E == {e \in c..n : e = n \/ t.keys[e + 1].frame >= f}
<1>1. n \in Nat /\ \A k \in 1..n : t.keys[k].frame \in Nat
  BY KeyTypes
<1>2. d \in E /\ \A e \in E : d <= e
  <2>1. E \in SUBSET Nat /\ n \in E
    BY <1>1
  <2> HIDE DEF E
  <2> QED
    BY <2>1, MinIsLeast DEF E
<1>3. d \in Nat /\ d \in 1..n /\ c <= d
  BY <1>1, <1>2
<1>4. t.keys[d].frame < f
  <2>1. CASE d = c
    BY <2>1
  <2>2. CASE d # c
    <3>1. d - 1 \in c..n /\ (d - 1) + 1 = d /\ ~(d <= d - 1)
      BY <1>1, <1>2, <1>3, <2>2
    <3>2. d - 1 \notin E
      <4> HIDE DEF E
      <4> QED
        BY <1>2, <3>1
    <3>3. ~(t.keys[d].frame >= f)
      BY <3>1, <3>2
    <3> QED
      <4>1. t.keys[d].frame \in Nat
        BY <1>1, <1>3
      <4> QED
        BY <3>3, <4>1
  <2> QED
    BY <2>1, <2>2
<1>5. d # n
  <2> SUFFICES ASSUME d = n PROVE FALSE
    OBVIOUS
  <2>1. t.keys[d].frame \in Nat /\ t.keys[d].frame < f /\ f < t.keys[d].frame
    BY <1>1, <1>3, <1>4
  <2> QED
    BY <2>1
<1>6. t.keys[d + 1].frame >= f
  BY <1>2, <1>5
<1> QED
  BY <1>1, <1>3, <1>4, <1>5, <1>6

\* Rising keyframes leave no choice of the two around a frame.
LEMMA NeighboursAreUnique ==
    ASSUME NEW t, WellFormed(t), NEW f \in Nat,
           NEW i \in 1..(Len(t.keys) - 1), t.keys[i].frame < f, f <= t.keys[i + 1].frame,
           NEW j \in 1..(Len(t.keys) - 1), t.keys[j].frame < f, f <= t.keys[j + 1].frame
    PROVE  i = j
<1>1. Len(t.keys) \in Nat /\ \A k \in 1..Len(t.keys) : t.keys[k].frame \in Nat
  BY KeyTypes
<1> DEFINE F(k) == t.keys[k].frame
<1>2. \A k, l \in 1..Len(t.keys) : F(k) \in Nat /\ (k < l => F(k) < F(l))
  BY <1>1 DEF WellFormed, Rising
<1> HIDE DEF F
<1>3. F(i) < f /\ f <= F(i + 1) /\ F(j) < f /\ f <= F(j + 1)
  BY DEF F
<1>4. ASSUME i < j PROVE FALSE
  <2>1. i + 1 = j \/ F(i + 1) < F(j)
    BY <1>1, <1>2, <1>4
  <2> QED
    BY <1>1, <1>2, <1>3, <2>1
<1>5. ASSUME j < i PROVE FALSE
  <2>1. j + 1 = i \/ F(j + 1) < F(i)
    BY <1>1, <1>2, <1>5
  <2> QED
    BY <1>1, <1>2, <1>3, <2>1
<1> QED
  BY <1>1, <1>4, <1>5

(***************************************************************************)
(* The cursor of a track, moved on to a frame, finds the box that the      *)
(* random-access definition gives, and is again before later frames.       *)
(***************************************************************************)
LEMMA CursorFindsBox ==
    ASSUME NEW t, WellFormed(t), NEW f \in Nat, NEW c \in 1..Len(t.keys),
           c = 1 \/ t.keys[c].frame < f,
           NEW d, d = Ahead(t.keys, c, f)
    PROVE  /\ d \in 1..Len(t.keys) /\ (d = 1 \/ t.keys[d].frame < f)
           /\ CursorBox(t, d, f) = BoxAt(t, f)
<1> DEFINE n == Len(t.keys)
<1>1. /\ n \in Nat \ {0} /\ Last(t.keys) = t.keys[n] /\ t.keys # <<>>
      /\ \A k \in 1..n : t.keys[k].frame \in Nat
  BY KeyTypes DEF WellFormed
<1>2. CASE f <= t.keys[1].frame \/ f >= Last(t.keys).frame
  <2>1. d = c
    BY <1>2 DEF Ahead
  <2>2. CursorBox(t, d, f) = BoxAt(t, f)
    BY <1>1, <1>2 DEF CursorBox, BoxAt
  <2> QED
    BY <1>1, <2>1, <2>2
<1>3. CASE ~(f <= t.keys[1].frame) /\ ~(f >= Last(t.keys).frame)
  <2>1. t.keys[c].frame < f /\ f < t.keys[n].frame
    BY <1>1, <1>3
  <2>2. d = Min({e \in c..n : e = n \/ t.keys[e + 1].frame >= f})
    BY <1>3 DEF Ahead
  <2>3. d \in 1..(n - 1) /\ t.keys[d].frame < f /\ f <= t.keys[d + 1].frame
    BY <2>1, <2>2, NeighboursFrom
  <2>4. d = CHOOSE i \in 1..(n - 1) : t.keys[i].frame < f /\ f <= t.keys[i + 1].frame
    BY <2>3, NeighboursAreUnique
  <2>5. CursorBox(t, d, f) = BoxAt(t, f)
    BY <1>1, <1>3, <2>4 DEF CursorBox, BoxAt
  <2> QED
    BY <1>1, <2>3, <2>5
<1> QED
  BY <1>2, <1>3

-----------------------------------------------------------------------------
(* The place of a box.                                                     *)

\* Division takes back a multiplication.
LEMMA DivisionIsExact ==
    ASSUME NEW x \in Int, NEW d \in Nat \ {0}
    PROVE  (x * d) \div d = x
OBVIOUS

\* Interpolation stays on one side of a bound, and ends at the second place.
LEMMA BetweenWithin ==
    ASSUME NEW a \in Int, NEW b \in Int, NEW lo \in Int, lo <= a, lo <= b,
           NEW d \in Nat \ {0}, NEW x \in 0..d
    PROVE  a + ((b - a) * x) \div d >= lo
<1> DEFINE p == (b - a) * x
           q == p \div d
<1>1. p \in Int
  OBVIOUS
<1>2. CASE b >= a
  <2>1. p >= 0
    <3>1. \A y \in Nat, z \in Nat : y * z >= 0
      OBVIOUS
    <3>2. b - a \in Nat /\ x \in Nat
      BY <1>2
    <3> QED
      BY <3>1, <3>2
  <2> HIDE DEF p
  <2>2. q >= 0 /\ q \in Int
    BY <1>1, <2>1
  <2> HIDE DEF q
  <2>3. a + q >= lo
    BY <2>2
  <2> QED
    BY <2>3 DEF q, p
<1>3. CASE ~(b >= a)
  <2>1. p >= (b - a) * d
    <3>1. \A y \in Nat, z \in Nat, w \in Nat : z <= w => y * z <= y * w
      OBVIOUS
    <3>2. a - b \in Nat /\ x \in Nat /\ d \in Nat /\ x <= d
      BY <1>3
    <3>3. (a - b) * x <= (a - b) * d
      BY <3>1, <3>2
    <3>4. (b - a) * x = -((a - b) * x) /\ (b - a) * d = -((a - b) * d)
      OBVIOUS
    <3> DEFINE s == (a - b) * x
               t == (a - b) * d
    <3>5. s \in Int /\ t \in Int
      OBVIOUS
    <3> HIDE DEF s, t
    <3>6. -s >= -t
      BY <3>3, <3>5 DEF s, t
    <3> QED
      BY <3>4, <3>6 DEF s, t
  <2> HIDE DEF p
  <2>2. q \in Int /\ p < d * q + d
    BY <1>1
  <2>3. q >= b - a
    <3> HIDE DEF q
    <3> SUFFICES ASSUME q + 1 <= b - a PROVE FALSE
      BY <2>2
    <3>1. d * (q + 1) <= d * (b - a)
      BY <2>2
    <3>2. d * (q + 1) = d * q + d /\ d * (b - a) = (b - a) * d /\ d * q \in Int /\ d * (b - a) \in Int
      BY <2>2
    <3> DEFINE u == d * q
               v == d * (b - a)
               w == d * (q + 1)
    <3> HIDE DEF u, v, w
    <3>3. w <= v /\ w = u + d /\ u \in Int /\ v \in Int /\ p >= v /\ p < u + d
      BY <2>1, <2>2, <3>1, <3>2 DEF u, v, w
    <3> QED
      BY <1>1, <3>3
  <2> HIDE DEF q
  <2>4. a + q >= lo
    BY <2>2, <2>3
  <2> QED
    BY <2>4 DEF q, p
<1> QED
  BY <1>2, <1>3
\* At a keyframe a track is where the keyframe says.
LEMMA BoxAtKeyframe ==
    ASSUME NEW t, WellFormed(t), NEW j \in 1..Len(t.keys)
    PROVE  BoxAt(t, t.keys[j].frame) = t.keys[j].at
<1> DEFINE n == Len(t.keys)
           F(k) == t.keys[k].frame
<1>1. /\ n \in Nat \ {0} /\ Last(t.keys) = t.keys[n] /\ t.keys # <<>>
      /\ \A k \in 1..n : F(k) \in Nat /\ t.keys[k].at \in Int /\ F(k) \in t.first..t.last
  BY KeyTypes DEF WellFormed
<1>2. \A k, l \in 1..n : k < l => F(k) < F(l)
  BY DEF WellFormed, Rising
<1>3. CASE F(j) <= F(1)
  <2>1. j = 1
    <3> HIDE DEF F, n
    <3> QED
      BY <1>1, <1>2, <1>3 DEF n
  <2> QED
    BY <1>1, <2>1 DEF BoxAt
<1>4. CASE ~(F(j) <= F(1)) /\ F(j) >= F(n)
  <2>1. j = n
    <3> HIDE DEF F, n
    <3> QED
      BY <1>1, <1>2, <1>4 DEF n
  <2> QED
    BY <1>1, <1>4, <2>1 DEF BoxAt
<1>5. CASE ~(F(j) <= F(1)) /\ ~(F(j) >= F(n))
  <2> DEFINE Around(i) == F(i) < F(j) /\ F(j) <= F(i + 1)
             i == CHOOSE i \in 1..(n - 1) : Around(i)
  <2>1. j # 1 /\ j - 1 \in 1..(n - 1) /\ Around(j - 1)
    <3>1. j # 1
      BY <1>1, <1>5
    <3>2. j \in 1..n /\ j \in Nat /\ j - 1 \in 1..n /\ j - 1 < j /\ (j - 1) + 1 = j
      BY <1>1, <3>1
    <3>3. F(j - 1) < F(j) /\ F(j) <= F((j - 1) + 1)
      <4> HIDE DEF F, n
      <4> QED
        BY <1>1, <1>2, <3>2 DEF n
    <3> QED
      BY <1>1, <3>1, <3>2, <3>3
  <2>2. \A k \in 1..(n - 1) : Around(k) => k = j - 1
    <3> TAKE k \in 1..(n - 1)
    <3>1. F(j) \in Nat
      BY <1>1
    <3> QED
      BY <1>1, <2>1, <3>1, NeighboursAreUnique
  <2>3. i = j - 1
    <3> HIDE DEF Around
    <3> QED
      BY <2>1, <2>2
  <2>4. BoxAt(t, F(j)) = Between(t.keys[i], t.keys[i + 1], F(j))
    BY <1>1, <1>5 DEF BoxAt
  <2> HIDE DEF i
  <2> DEFINE a == t.keys[j - 1].at
             b == t.keys[j].at
             d == F(j) - F(j - 1)
  <2>5. BoxAt(t, F(j)) = a + ((b - a) * d) \div d
    BY <1>1, <2>1, <2>3, <2>4 DEF Between
  <2>6. a \in Int /\ b \in Int /\ d \in Nat \ {0}
    <3>1. j - 1 \in 1..n /\ j \in 1..n /\ (j - 1) + 1 = j
      BY <1>1, <2>1
    <3>2. F(j - 1) \in Nat /\ F(j) \in Nat /\ a \in Int /\ b \in Int /\ F(j - 1) < F(j)
      BY <1>1, <2>1, <3>1
    <3> HIDE DEF F
    <3> QED
      BY <3>2
  <2> HIDE DEF a, b, d, F
  <2>7. ((b - a) * d) \div d = b - a
    BY <2>6, DivisionIsExact
  <2>8. a + (b - a) = b
    BY <2>6
  <2> QED
    BY <2>5, <2>7, <2>8 DEF b, F
<1> QED
  BY <1>3, <1>4, <1>5


\* Between its first and its last keyframe a track is on its way from one
\* keyframe to the next.
LEMMA BoxIsBetween ==
    ASSUME NEW t, WellFormed(t), NEW f \in Nat,
           t.keys[1].frame < f, f < t.keys[Len(t.keys)].frame, f \in t.first..t.last
    PROVE  \E a, b \in {t.keys[k].at : k \in 1..Len(t.keys)}, gap \in Nat \ {0} : \E x \in 0..gap :
               BoxAt(t, f) = a + ((b - a) * x) \div gap
<1> DEFINE n == Len(t.keys)
           d == Min({e \in 1..n : e = n \/ t.keys[e + 1].frame >= f})
           Around(i) == t.keys[i].frame < f /\ f <= t.keys[i + 1].frame
           i == CHOOSE i \in 1..(n - 1) : Around(i)
<1>1. /\ n \in Nat \ {0} /\ Last(t.keys) = t.keys[n] /\ t.keys # <<>>
      /\ \A k \in 1..n : t.keys[k].frame \in Nat
  BY KeyTypes DEF WellFormed
<1>2. d \in 1..(n - 1) /\ Around(d)
  BY <1>1, NeighboursFrom, SMTT(30)
<1>3. i \in 1..(n - 1) /\ Around(i)
  <2> HIDE DEF d, Around
  <2> QED
    BY <1>2
<1>4. BoxAt(t, f) = Between(t.keys[i], t.keys[i + 1], f)
  BY <1>1, SMTT(30) DEF BoxAt
<1> HIDE DEF i
<1> DEFINE left == t.keys[i].frame
           right == t.keys[i + 1].frame
<1>5. left \in Nat /\ right \in Nat /\ left < f /\ f <= right /\ i \in 1..n /\ i + 1 \in 1..n
  BY <1>1, <1>3
<1>6. BoxAt(t, f) = t.keys[i].at + ((t.keys[i + 1].at - t.keys[i].at) * (f - left)) \div (right - left)
  BY <1>4 DEF Between
<1> HIDE DEF left, right
<1>7. right - left \in Nat \ {0} /\ f - left \in 0..(right - left)
  BY <1>5
<1> QED
  BY <1>5, <1>6, <1>7

\* The place of a box is a number, and keeps to a bound all keyframes keep to.
LEMMA BoxWithinSpan ==
    ASSUME NEW t, WellFormed(t), NEW f \in t.first..t.last
    PROVE  /\ BoxAt(t, f) \in Int
           /\ \A lo \in Int :
                  (\A k \in 1..Len(t.keys) : t.keys[k].at >= lo) => BoxAt(t, f) >= lo
<1> DEFINE n == Len(t.keys)
<1>1. /\ f \in Nat /\ n \in Nat \ {0} /\ Last(t.keys) = t.keys[n] /\ t.keys # <<>>
      /\ \A k \in 1..n : t.keys[k].frame \in Nat /\ t.keys[k].at \in Int
  BY KeyTypes DEF WellFormed
<1>2. CASE f <= t.keys[1].frame \/ f >= Last(t.keys).frame
  BY <1>1, <1>2 DEF BoxAt
<1>3. CASE ~(f <= t.keys[1].frame) /\ ~(f >= Last(t.keys).frame)
  <2>1. t.keys[1].frame < f /\ f < t.keys[n].frame
    BY <1>1, <1>3
  <2>2. PICK a \in {t.keys[k].at : k \in 1..n}, b \in {t.keys[k].at : k \in 1..n}, gap \in Nat \ {0} :
            \E x \in 0..gap : BoxAt(t, f) = a + ((b - a) * x) \div gap
    BY <1>1, <2>1, BoxIsBetween
  <2>3. PICK x \in 0..gap : BoxAt(t, f) = a + ((b - a) * x) \div gap
    BY <2>2
  <2>4. a \in Int /\ b \in Int
    BY <1>1
  <2>5. BoxAt(t, f) \in Int
    <3> DEFINE rise == (b - a) * x
    <3>1. rise \in Int
      BY <2>4
    <3> HIDE DEF rise
    <3>2. rise \div gap \in Int
      BY <3>1
    <3> QED
      BY <2>3, <2>4, <3>2 DEF rise
  <2>6. ASSUME NEW lo \in Int, \A k \in 1..n : t.keys[k].at >= lo
        PROVE  BoxAt(t, f) >= lo
    <3>1. lo <= a /\ lo <= b
      BY <1>1, <2>6
    <3> QED
      BY <2>3, <2>4, <3>1, BetweenWithin
  <2> QED
    BY <2>5, <2>6
<1> QED
  BY <1>2, <1>3

-----------------------------------------------------------------------------
(* A reviewer's edits leave a track well formed.                           *)

\* Finitely many keyframes, at most one at a frame.
IsKeyed(keyed) ==
    /\ keyed \in SUBSET Keyframes /\ IsFiniteSet(keyed)
    /\ \A k, l \in keyed : k.frame = l.frame => k = l

\* As a set, a track's keyframes are one for each of their frames,
LEMMA KeysOfTrack ==
    ASSUME NEW t, WellFormed(t)
    PROVE  IsKeyed(ToSet(t.keys)) /\ \A k \in ToSet(t.keys) : k.frame \in t.first..t.last
<1>1. Len(t.keys) \in Nat /\ t.keys \in Seq(Keyframes)
  BY KeyTypes
<1>2. ToSet(t.keys) = {t.keys[i] : i \in 1..Len(t.keys)}
  BY <1>1 DEF ToSet
<1>3. IsFiniteSet(ToSet(t.keys))
  <2> DEFINE f == [i \in 1..Len(t.keys) |-> t.keys[i]]
  <2>1. f \in Surjection(1..Len(t.keys), ToSet(t.keys))
    BY <1>2 DEF Surjection
  <2> HIDE DEF f
  <2>2. IsFiniteSet(1..Len(t.keys))
    BY <1>1, FS_Interval
  <2> QED
    BY <2>1, <2>2, FS_Surjection
<1>4. ASSUME NEW i \in 1..Len(t.keys), NEW j \in 1..Len(t.keys), t.keys[i].frame = t.keys[j].frame
      PROVE  i = j
  <2>1. ~(t.keys[i].frame < t.keys[j].frame) /\ ~(t.keys[j].frame < t.keys[i].frame)
    BY <1>4, KeyTypes
  <2> QED
    BY <1>1, <2>1 DEF WellFormed, Rising
<1>5. \A k, l \in ToSet(t.keys) : k.frame = l.frame => k = l
  BY <1>2, <1>4
<1>6. \A k \in ToSet(t.keys) : k \in Keyframes /\ k.frame \in t.first..t.last
  BY <1>1, <1>2 DEF WellFormed
<1> QED
  BY <1>3, <1>5, <1>6 DEF IsKeyed

\* also with one put in or replaced.
LEMMA UpsertKeeps ==
    ASSUME NEW keyed, IsKeyed(keyed), NEW key \in Keyframes
    PROVE  IsKeyed(Upsert(keyed, key)) /\ key \in Upsert(keyed, key)
<1> DEFINE others == {k \in keyed : k.frame # key.frame}
<1>1. IsFiniteSet(others \cup {key})
  <2>1. others \in SUBSET keyed
    OBVIOUS
  <2> HIDE DEF others
  <2>2. IsFiniteSet(others)
    BY <2>1, FS_Subset DEF IsKeyed
  <2> QED
    BY <2>2, FS_AddElement
<1> QED
  BY <1>1 DEF IsKeyed, Upsert

\* Listed in time, they rise.
LEMMA InTimeRises ==
    ASSUME NEW keyed, IsKeyed(keyed), NEW keys, keys = InTime(keyed)
    PROVE  /\ keys \in Seq(Keyframes) /\ Rising(keys)
           /\ \A i \in 1..Len(keys) : keys[i] \in keyed
           /\ \A k \in keyed : \E i \in 1..Len(keys) : keys[i] = k
<1> DEFINE before == {p \in keyed \X keyed : p[1].frame < p[2].frame}
<1>1. \A k \in keyed : k \in Keyframes /\ k.frame \in Nat
  BY DEF IsKeyed, Keyframes
<1>2. \A k, l \in keyed : <<k, l>> \in before <=> k.frame < l.frame
  OBVIOUS
<1>3. keys = Ordered(keyed, before) /\ IsFiniteSet(keyed)
  BY DEF InTime, IsKeyed
<1> HIDE DEF before
<1>4. \A k, l \in keyed : k # l => k.frame < l.frame \/ l.frame < k.frame
  BY <1>1 DEF IsKeyed
<1>5. IsOrderOf(before, keyed)
  BY <1>1, <1>2, <1>4 DEF IsOrderOf
<1>6. /\ keys \in Seq(keyed)
      /\ \A i, j \in 1..Len(keys) : i < j => <<keys[i], keys[j]>> \in before
      /\ \A k \in keyed : \E i \in 1..Len(keys) : keys[i] = k
  BY <1>3, <1>5, OrderedLists
<1>7. \A i \in 1..Len(keys) : keys[i] \in keyed
  BY <1>6
<1>8. Rising(keys)
  BY <1>2, <1>6, <1>7 DEF Rising
<1>9. keys \in Seq(Keyframes)
  BY <1>1, <1>6
<1> QED
  BY <1>6, <1>7, <1>8, <1>9

\* A track with new keyframes within its new span.
LEMMA RekeyedIsWellFormed ==
    ASSUME NEW t \in TrackRecords, NEW u, NEW keyed, IsKeyed(keyed), keyed # {},
           NEW first \in Nat, NEW last \in Nat, first <= last, NEW active \in BOOLEAN,
           \A k \in keyed : k.frame \in first..last,
           u = [t EXCEPT !.first = first, !.last = last, !.keys = InTime(keyed), !.active = active]
    PROVE  WellFormed(u)
<1> DEFINE keys == InTime(keyed)
<1>1. /\ keys \in Seq(Keyframes) /\ Rising(keys)
      /\ \A i \in 1..Len(keys) : keys[i] \in keyed
      /\ \A k \in keyed : \E i \in 1..Len(keys) : keys[i] = k
  BY InTimeRises
<1> HIDE DEF keys
<1>2. keys # <<>>
  BY <1>1
<1>3. u \in TrackRecords /\ u.first = first /\ u.last = last /\ u.keys = keys
  BY <1>1 DEF TrackRecords, keys
<1> QED
  BY <1>1, <1>2, <1>3 DEF WellFormed

\* Restoring, deleting and redacting do not touch the geometry.
LEMMA FlagsAreWellFormed ==
    ASSUME NEW t, WellFormed(t)
    PROVE  WellFormed(Restored(t)) /\ WellFormed(Deleted(t)) /\ WellFormed(Redacted(t))
BY DEF WellFormed, TrackRecords, Restored, Deleted, Redacted

\* Extending a track,
LEMMA ExtendedIsWellFormed ==
    ASSUME NEW t, WellFormed(t), NEW first \in Nat, NEW last \in Nat,
           first <= t.first, t.last <= last
    PROVE  WellFormed(Extended(t, first, last))
<1>1. t \in TrackRecords /\ t.first \in Nat /\ t.last \in Nat /\ t.first <= t.last
  BY KeyTypes DEF WellFormed
<1>2. LET u == Extended(t, first, last)
      IN  u \in TrackRecords /\ u.first = first /\ u.last = last /\ u.keys = t.keys
  BY <1>1 DEF Extended, TrackRecords
<1> QED
  BY <1>1, <1>2 DEF WellFormed

\* moving its box at a frame,
LEMMA MovedIsWellFormed ==
    ASSUME NEW t, WellFormed(t), NEW key \in Keyframes, key.frame \in t.first..t.last
    PROVE  WellFormed(Moved(t, key))
<1> DEFINE keyed == Upsert(ToSet(t.keys), key)
<1>1. IsKeyed(keyed) /\ keyed # {} /\ \A k \in keyed : k.frame \in t.first..t.last
  <2>1. IsKeyed(ToSet(t.keys)) /\ \A k \in ToSet(t.keys) : k.frame \in t.first..t.last
    BY KeysOfTrack
  <2>2. IsKeyed(keyed) /\ key \in keyed
    BY <2>1, UpsertKeeps
  <2> QED
    BY <2>1, <2>2 DEF Upsert
<1>2. t \in TrackRecords /\ t.first \in Nat /\ t.last \in Nat /\ t.first <= t.last
  BY KeyTypes DEF WellFormed
<1> HIDE DEF keyed
<1>3. Moved(t, key) = [t EXCEPT !.first = t.first, !.last = t.last, !.keys = InTime(keyed),
                                !.active = TRUE]
  BY <1>2 DEF Moved, TrackRecords, keyed
<1> QED
  BY <1>1, <1>2, <1>3, RekeyedIsWellFormed

\* and trimming it.
LEMMA TrimmedIsWellFormed ==
    ASSUME NEW t, WellFormed(t), NEW first \in Nat, NEW last \in Nat,
           t.first <= first, first <= last, last <= t.last, NEW timely
    PROVE  WellFormed(Trimmed(t, first, last, timely))
<1> DEFINE inside == {k \in ToSet(t.keys) : k.frame \in first..last /\ k \in timely}
           begin == [frame |-> first, at |-> BoxAt(t, first)]
           end == [frame |-> last, at |-> BoxAt(t, last)]
           opened == Upsert(inside, begin)
           keyed == Upsert(opened, end)
<1>1. t \in TrackRecords /\ t.first \in Nat /\ t.last \in Nat
  BY KeyTypes DEF WellFormed
<1>2. begin \in Keyframes /\ end \in Keyframes
  <2>1. first \in t.first..t.last /\ last \in t.first..t.last
    BY <1>1
  <2> QED
    BY <2>1, BoxWithinSpan DEF Keyframes
<1>3. IsKeyed(inside)
  <2>1. inside \in SUBSET ToSet(t.keys) /\ IsKeyed(ToSet(t.keys))
    BY KeysOfTrack
  <2> HIDE DEF inside
  <2> QED
    BY <2>1, FS_Subset DEF IsKeyed
<1>4. \A k \in keyed : k.frame \in first..last
  BY DEF Upsert
<1>5. Trimmed(t, first, last, timely) = [t EXCEPT !.first = first, !.last = last, !.keys = InTime(keyed)]
  BY DEF Trimmed
<1> HIDE DEF inside, begin, end
<1>6. IsKeyed(keyed) /\ keyed # {}
  BY <1>2, <1>3, UpsertKeeps
<1> HIDE DEF keyed
<1>7. /\ t.active \in BOOLEAN
      /\ Trimmed(t, first, last, timely) =
             [t EXCEPT !.first = first, !.last = last, !.keys = InTime(keyed), !.active = t.active]
  BY <1>1, <1>5 DEF TrackRecords
<1>8. PICK active \in BOOLEAN : active = t.active
  BY <1>7
<1>9. /\ t \in TrackRecords
      /\ Trimmed(t, first, last, timely) =
             [t EXCEPT !.first = first, !.last = last, !.keys = InTime(keyed), !.active = active]
  BY <1>1, <1>7, <1>8
<1> DEFINE u == Trimmed(t, first, last, timely)
<1>10. /\ u = [t EXCEPT !.first = first, !.last = last, !.keys = InTime(keyed), !.active = active]
       /\ \A k \in keyed : k.frame \in first..last
  BY <1>4, <1>9
<1> HIDE DEF opened, u
<1>11. WellFormed(u)
  BY <1>6, <1>9, <1>10, RekeyedIsWellFormed
<1> QED
  BY <1>11 DEF u

-----------------------------------------------------------------------------
(* The lookup.                                                             *)

\* A pointer moves up to the first track that is not in S.
LEMMA PassedStops ==
    ASSUME NEW tracks, Len(tracks) \in Nat, NEW p \in 0..Len(tracks), NEW S,
           NEW q, q = Passed(tracks, p, S)
    PROVE  /\ q \in p..Len(tracks)
           /\ \A r \in (p + 1)..q : tracks[r] \in S
           /\ q < Len(tracks) => tracks[q + 1] \notin S
<1> DEFINE Q == {k \in p..Len(tracks) : \A r \in (p + 1)..k : tracks[r] \in S}
<1>1. Q \in SUBSET Nat /\ p \in Q /\ \A k \in Q : k <= Len(tracks)
  OBVIOUS
<1>2. q \in Q /\ \A k \in Q : k <= q
  <2>1. q = Max(Q)
    BY DEF Passed
  <2> HIDE DEF Q
  <2> QED
    BY <1>1, <2>1, MaxIsGreatest
<1>3. ASSUME q < Len(tracks), tracks[q + 1] \in S PROVE FALSE
  <2>1. q + 1 \in Q
    BY <1>2, <1>3
  <2> HIDE DEF Q
  <2>2. q \in Nat /\ q + 1 <= q
    BY <1>1, <1>2, <2>1
  <2> QED
    BY <2>2
<1> QED
  BY <1>2, <1>3

Reviewed(tracks) ==
    /\ tracks \in Seq(TrackRecords)
    /\ \A i \in 1..Len(tracks) : WellFormed(tracks[i])

\* list has the members of S, the ones with a small key first.
SortedBy(list, S, key) ==
    /\ list \in Seq(S)
    /\ \A i, j \in 1..Len(list) : i < j => key[list[i]] <= key[list[j]]
    /\ \A x \in S : \E i \in 1..Len(list) : list[i] = x

\* The tracks the renderer looks at are well formed.
LEMMA EligibleTracks ==
    ASSUME NEW tracks, Reviewed(tracks)
    PROVE  /\ Len(tracks) \in Nat /\ DOMAIN tracks = 1..Len(tracks)
           /\ Eligible(tracks) = {i \in 1..Len(tracks) : Shown(tracks[i])}
           /\ IsFiniteSet(Eligible(tracks))
           /\ \A i \in 1..Len(tracks) :
                  tracks[i].first \in Nat /\ tracks[i].last \in Nat
                  /\ tracks[i].first <= tracks[i].last
<1>1. Len(tracks) \in Nat /\ DOMAIN tracks = 1..Len(tracks)
  BY DEF Reviewed
<1>2. Eligible(tracks) = {i \in 1..Len(tracks) : Shown(tracks[i])}
  BY <1>1 DEF Eligible, Reviewed, WellFormed
<1>3. IsFiniteSet(Eligible(tracks))
  <2>1. IsFiniteSet(1..Len(tracks)) /\ Eligible(tracks) \in SUBSET (1..Len(tracks))
    BY <1>1, <1>2, FS_Interval
  <2> QED
    BY <2>1, FS_Subset
<1> QED
  BY <1>1, <1>2, <1>3, KeyTypes DEF Reviewed, WellFormed

\* The first list is sorted by where tracks begin,
LEMMA StartsAreSorted ==
    ASSUME NEW tracks, Reviewed(tracks)
    PROVE  SortedBy(Starts(tracks), Eligible(tracks), [i \in Eligible(tracks) |-> tracks[i].first])
<1> DEFINE E == Eligible(tracks)
           before == {p \in E \X E :
                         \/ tracks[p[1]].first < tracks[p[2]].first
                         \/ tracks[p[1]].first = tracks[p[2]].first /\ p[1] < p[2]}
           s == Ordered(E, before)
<1>1. \A i \in E : tracks[i].first \in Nat /\ i \in Nat
  BY EligibleTracks
<1>2. \A i, j \in E : <<i, j>> \in before <=>
          tracks[i].first < tracks[j].first \/ (tracks[i].first = tracks[j].first /\ i < j)
  OBVIOUS
<1>3. s = Starts(tracks)
  BY DEF Starts
<1> HIDE DEF before
<1>4. IsOrderOf(before, E)
  BY <1>1, <1>2 DEF IsOrderOf
<1>5. /\ s \in Seq(E)
      /\ \A i, j \in 1..Len(s) : i < j => <<s[i], s[j]>> \in before
      /\ \A x \in E : \E i \in 1..Len(s) : s[i] = x
  BY <1>4, EligibleTracks, OrderedLists
<1> HIDE DEF s, E
<1>6. ASSUME NEW i \in 1..Len(s), NEW j \in 1..Len(s), i < j
      PROVE  tracks[s[i]].first <= tracks[s[j]].first
  <2>1. s[i] \in E /\ s[j] \in E
    BY <1>5, SMTT(30)
  <2>2. <<s[i], s[j]>> \in before
    BY <1>5, <1>6
  <2> QED
    BY <1>1, <1>2, <2>1, <2>2
<1>7. SortedBy(s, E, [i \in E |-> tracks[i].first])
  BY <1>5, <1>6, SMTT(30) DEF SortedBy
<1> QED
  BY <1>3, <1>7 DEF E

\* the second by where they end.
LEMMA EndsAreSorted ==
    ASSUME NEW tracks, Reviewed(tracks)
    PROVE  SortedBy(Ends(tracks), Eligible(tracks), [i \in Eligible(tracks) |-> tracks[i].last])
<1> DEFINE E == Eligible(tracks)
           before == {p \in E \X E :
                         \/ tracks[p[1]].last < tracks[p[2]].last
                         \/ tracks[p[1]].last = tracks[p[2]].last /\ p[1] < p[2]}
           s == Ordered(E, before)
<1>1. \A i \in E : tracks[i].last \in Nat /\ i \in Nat
  BY EligibleTracks
<1>2. \A i, j \in E : <<i, j>> \in before <=>
          tracks[i].last < tracks[j].last \/ (tracks[i].last = tracks[j].last /\ i < j)
  OBVIOUS
<1>3. s = Ends(tracks)
  BY DEF Ends
<1> HIDE DEF before
<1>4. IsOrderOf(before, E)
  BY <1>1, <1>2 DEF IsOrderOf
<1>5. /\ s \in Seq(E)
      /\ \A i, j \in 1..Len(s) : i < j => <<s[i], s[j]>> \in before
      /\ \A x \in E : \E i \in 1..Len(s) : s[i] = x
  BY <1>4, EligibleTracks, OrderedLists
<1> HIDE DEF s, E
<1>6. ASSUME NEW i \in 1..Len(s), NEW j \in 1..Len(s), i < j
      PROVE  tracks[s[i]].last <= tracks[s[j]].last
  <2>1. s[i] \in E /\ s[j] \in E
    BY <1>5
  <2>2. <<s[i], s[j]>> \in before
    BY <1>5, <1>6
  <2> QED
    BY <1>1, <1>2, <2>1, <2>2
<1>7. SortedBy(s, E, [i \in E |-> tracks[i].last])
  BY <1>5, <1>6, SMTT(30) DEF SortedBy
<1> QED
  BY <1>3, <1>7 DEF E

\* Where all of V come before all others in the list, a pointer that has passed
\* members of V only moves on to pass exactly those.
LEMMA PointerSplits ==
    ASSUME NEW list, Len(list) \in Nat, NEW V,
           \A i, j \in 1..Len(list) : i < j /\ list[j] \in V => list[i] \in V,
           NEW p \in 0..Len(list), \A r \in 1..p : list[r] \in V,
           NEW q, q = Passed(list, p, V)
    PROVE  /\ q \in p..Len(list)
           /\ \A r \in 1..Len(list) : r <= q <=> list[r] \in V
<1>1. /\ q \in p..Len(list) /\ \A r \in (p + 1)..q : list[r] \in V
      /\ q < Len(list) => list[q + 1] \notin V
  BY PassedStops
<1>2. ASSUME NEW r \in 1..Len(list), r <= q PROVE list[r] \in V
  <2>1. r \in 1..p \/ r \in (p + 1)..q
    BY <1>1, <1>2
  <2> QED
    BY <1>1, <2>1
<1>3. ASSUME NEW r \in 1..Len(list), ~(r <= q) PROVE list[r] \notin V
  <2>1. q + 1 \in 1..Len(list) /\ (q + 1 = r \/ q + 1 < r)
    BY <1>1, <1>3
  <2>2. list[q + 1] \notin V
    BY <1>1, <1>3
  <2> QED
    BY <2>1, <2>2
<1> QED
  BY <1>1, <1>2, <1>3

\* A lookup that was last asked for frame f, or for none yet if f is -1.
LookedUp(found, tracks, f) ==
    LET E == Eligible(tracks) IN
    /\ found \in [starts : {Starts(tracks)}, ends : {Ends(tracks)},
                  started : 0..Len(Starts(tracks)), ended : 0..Len(Ends(tracks)),
                  live : SUBSET E, cursor : [DOMAIN tracks -> Nat]]
    /\ \A r \in 1..Len(found.starts) : r <= found.started <=> tracks[found.starts[r]].first <= f
    /\ \A r \in 1..Len(found.ends) : r <= found.ended <=> tracks[found.ends[r]].last < f
    /\ found.live = {i \in E : tracks[i].first <= f /\ f <= tracks[i].last}
    /\ \A i \in E :
           /\ found.cursor[i] \in 1..Len(tracks[i].keys)
           /\ found.cursor[i] = 1 \/ tracks[i].keys[found.cursor[i]].frame < f

\* A new lookup was asked for no frame.
LEMMA NewLookupIsUnused ==
    ASSUME NEW tracks, Reviewed(tracks)
    PROVE  LookedUp(NewLookup(tracks), tracks, -1)
<1> DEFINE E == Eligible(tracks)
           new == NewLookup(tracks)
           starts == Starts(tracks)
           ends == Ends(tracks)
<1>1. /\ DOMAIN tracks = 1..Len(tracks) /\ E \subseteq 1..Len(tracks)
      /\ \A i \in E : tracks[i].first \in Nat /\ tracks[i].last \in Nat
      /\ \A i \in E : Len(tracks[i].keys) \in Nat \ {0}
  <2>1. \A i \in 1..Len(tracks) : Len(tracks[i].keys) \in Nat \ {0}
    BY KeyTypes DEF Reviewed
  <2> QED
    BY <2>1, EligibleTracks
<1>2. /\ starts \in Seq(E) /\ Len(starts) \in Nat /\ \A r \in 1..Len(starts) : starts[r] \in E
      /\ ends \in Seq(E) /\ Len(ends) \in Nat /\ \A r \in 1..Len(ends) : ends[r] \in E
  <2>1. starts \in Seq(E) /\ ends \in Seq(E)
    BY StartsAreSorted, EndsAreSorted DEF SortedBy
  <2> HIDE DEF starts, ends, E
  <2> QED
    BY <2>1
<1>3. new = [starts |-> starts, ends |-> ends, started |-> 0, ended |-> 0, live |-> {},
             cursor |-> [i \in DOMAIN tracks |-> 1]]
  BY DEF NewLookup
<1> HIDE DEF new, starts, ends, E
<1>4. new \in [starts : {starts}, ends : {ends}, started : 0..Len(starts), ended : 0..Len(ends),
               live : SUBSET E, cursor : [DOMAIN tracks -> Nat]]
  BY <1>2, <1>3
<1>5. /\ new.starts = starts /\ new.ends = ends /\ new.started = 0 /\ new.ended = 0
      /\ new.live = {} /\ new.cursor = [i \in DOMAIN tracks |-> 1]
      /\ \A i \in E : ~(tracks[i].first <= -1) /\ ~(tracks[i].last < -1)
  BY <1>1, <1>3
<1>6. \A r \in 1..Len(new.starts) : r <= new.started <=> tracks[new.starts[r]].first <= -1
  BY <1>2, <1>5
<1>7. \A r \in 1..Len(new.ends) : r <= new.ended <=> tracks[new.ends[r]].last < -1
  BY <1>2, <1>5
<1>8. new.live = {i \in E : tracks[i].first <= -1 /\ -1 <= tracks[i].last}
  BY <1>5
<1>9. \A i \in E : new.cursor[i] \in 1..Len(tracks[i].keys) /\ new.cursor[i] = 1
  BY <1>1, <1>5
<1> QED
  BY <1>4, <1>6, <1>7, <1>8, <1>9 DEF LookedUp, new, starts, ends, E

(***************************************************************************)
(* Asked for the next frame, the lookup finds what the random-access       *)
(* definition gives there, whatever begins, ends or lies dormant.          *)
(***************************************************************************)
LEMMA LookupIsExact ==
    ASSUME NEW tracks, Reviewed(tracks), NEW f \in Nat,
           NEW found, LookedUp(found, tracks, f - 1),
           NEW moved, moved = MovedTo(found, tracks, f)
    PROVE  LookedUp(moved, tracks, f) /\ FoundAt(moved, tracks, f) = RedactionsAt(tracks, f)
<1> DEFINE E == Eligible(tracks)
           starts == Starts(tracks)
           ends == Ends(tracks)
           begun == {i \in DOMAIN tracks : tracks[i].first <= f}
           over == TracksBefore(tracks, f)
           started == Passed(found.starts, found.started, begun)
           ended == Passed(found.ends, found.ended, over)
           live == (found.live \cup {found.starts[p] : p \in (found.started + 1)..started})
                   \ {found.ends[p] : p \in (found.ended + 1)..ended}
           cursor == [i \in DOMAIN tracks |->
                         IF i \in live /\ f \in tracks[i].first..tracks[i].last
                         THEN Ahead(tracks[i].keys, found.cursor[i], f) ELSE found.cursor[i]]
<1>1. /\ DOMAIN tracks = 1..Len(tracks)
      /\ E = {i \in 1..Len(tracks) : Shown(tracks[i])}
      /\ \A i \in E : tracks[i].first \in Nat /\ tracks[i].last \in Nat
                      /\ tracks[i].first <= tracks[i].last /\ WellFormed(tracks[i])
  BY EligibleTracks DEF Reviewed
<1>2. /\ found.starts = starts /\ found.ends = ends
      /\ found.started \in 0..Len(starts) /\ found.ended \in 0..Len(ends)
      /\ found.cursor \in [DOMAIN tracks -> Nat]
      /\ \A r \in 1..Len(starts) : r <= found.started <=> tracks[starts[r]].first <= f - 1
      /\ \A r \in 1..Len(ends) : r <= found.ended <=> tracks[ends[r]].last < f - 1
      /\ found.live = {i \in E : tracks[i].first <= f - 1 /\ f - 1 <= tracks[i].last}
      /\ \A i \in E :
             /\ found.cursor[i] \in 1..Len(tracks[i].keys)
             /\ found.cursor[i] = 1 \/ tracks[i].keys[found.cursor[i]].frame < f - 1
  BY DEF LookedUp
<1>3. moved = [found EXCEPT !.started = started, !.ended = ended, !.live = live, !.cursor = cursor]
  BY DEF MovedTo
<1>4. SortedBy(starts, E, [i \in E |-> tracks[i].first])
      /\ SortedBy(ends, E, [i \in E |-> tracks[i].last])
  BY StartsAreSorted, EndsAreSorted
<1>5. /\ Len(starts) \in Nat /\ \A r \in 1..Len(starts) : starts[r] \in E
      /\ \A i \in E : \E r \in 1..Len(starts) : starts[r] = i
      /\ Len(ends) \in Nat /\ \A r \in 1..Len(ends) : ends[r] \in E
      /\ \A i \in E : \E r \in 1..Len(ends) : ends[r] = i
  <2> HIDE DEF starts, ends, E
  <2> QED
    BY <1>4 DEF SortedBy
<1>6. \A i \in E : (i \in begun <=> tracks[i].first < f + 1) /\ (i \in over <=> tracks[i].last < f)
  BY <1>1 DEF TracksBefore
<1> HIDE DEF begun, over, starts, ends, E
<1>7. /\ started \in found.started..Len(starts)
      /\ \A r \in 1..Len(starts) : r <= started <=> starts[r] \in begun
  <2>1. ASSUME NEW r \in 1..Len(starts), NEW q \in 1..Len(starts), r < q, starts[q] \in begun
        PROVE  starts[r] \in begun
    <3>1. starts[r] \in E /\ starts[q] \in E
      BY <1>5
    <3>2. tracks[starts[r]].first <= tracks[starts[q]].first
      BY <1>4, <2>1, <3>1 DEF SortedBy
    <3> QED
      BY <1>1, <1>6, <2>1, <3>1, <3>2
  <2>2. ASSUME NEW r \in 1..found.started PROVE starts[r] \in begun
    <3>1. r \in 1..Len(starts) /\ r <= found.started /\ starts[r] \in E
      BY <1>2, <1>5
    <3>2. tracks[starts[r]].first <= f - 1
      BY <1>2, <3>1
    <3>3. tracks[starts[r]].first \in Nat
      BY <1>1, <3>1
    <3> QED
      BY <1>6, <3>1, <3>2, <3>3
  <2>3. Len(starts) \in Nat /\ found.started \in 0..Len(starts) /\ started = Passed(starts, found.started, begun)
    BY <1>2, <1>5
  <2> HIDE DEF started
  <2> QED
    BY <2>1, <2>2, <2>3, PointerSplits
<1>8. /\ ended \in found.ended..Len(ends)
      /\ \A r \in 1..Len(ends) : r <= ended <=> ends[r] \in over
  <2>1. ASSUME NEW r \in 1..Len(ends), NEW q \in 1..Len(ends), r < q, ends[q] \in over
        PROVE  ends[r] \in over
    <3>1. ends[r] \in E /\ ends[q] \in E
      BY <1>5
    <3>2. tracks[ends[r]].last <= tracks[ends[q]].last
      BY <1>4, <2>1, <3>1 DEF SortedBy
    <3> QED
      BY <1>1, <1>6, <2>1, <3>1, <3>2
  <2>2. ASSUME NEW r \in 1..found.ended PROVE ends[r] \in over
    <3>1. r \in 1..Len(ends) /\ r <= found.ended /\ ends[r] \in E
      BY <1>2, <1>5
    <3>2. tracks[ends[r]].last < f - 1
      BY <1>2, <3>1
    <3>3. tracks[ends[r]].last \in Nat
      BY <1>1, <3>1
    <3> QED
      BY <1>6, <3>1, <3>2, <3>3
  <2>3. Len(ends) \in Nat /\ found.ended \in 0..Len(ends) /\ ended = Passed(ends, found.ended, over)
    BY <1>2, <1>5
  <2> HIDE DEF ended
  <2> QED
    BY <2>1, <2>2, <2>3, PointerSplits
<1> HIDE DEF started, ended
<1>9. live = {i \in E : tracks[i].first <= f /\ f <= tracks[i].last}
  <2>1. ASSUME NEW i \in live PROVE i \in E /\ tracks[i].first <= f /\ f <= tracks[i].last
    <3>1. i \in E
      BY <1>2, <1>5, <1>7
    <3>2. tracks[i].first <= f
      <4>1. CASE i \in found.live
        BY <1>1, <1>2, <3>1, <4>1
      <4>2. CASE i \notin found.live
        <5>1. PICK p \in (found.started + 1)..started : i = starts[p]
          BY <1>2, <4>2
        <5>2. p \in 1..Len(starts) /\ p <= started
          BY <1>2, <1>5, <1>7, <5>1
        <5>3. i \in begun
          BY <1>7, <5>1, <5>2
        <5> QED
          BY <1>1, <1>6, <3>1, <5>3
      <4> QED
        BY <4>1, <4>2
    <3>3. f <= tracks[i].last
      <4> SUFFICES ASSUME tracks[i].last < f PROVE FALSE
        BY <1>1, <3>1
      <4>1. PICK r \in 1..Len(ends) : ends[r] = i
        BY <1>5, <3>1
      <4>2. r <= ended
        BY <1>6, <1>8, <3>1, <4>1
      <4>3. ~(r \in (found.ended + 1)..ended)
        BY <1>2, <4>1
      <4>4. r <= found.ended
        BY <1>2, <1>5, <1>8, <4>2, <4>3
      <4>5. tracks[i].last < f - 1
        BY <1>2, <4>1, <4>4
      <4>6. i \notin found.live
        BY <1>1, <1>2, <3>1, <4>5
      <4>7. PICK p \in (found.started + 1)..started : i = starts[p]
        BY <1>2, <4>6
      <4>8. p \in 1..Len(starts) /\ ~(p <= found.started)
        BY <1>2, <1>5, <1>7, <4>7
      <4>9. ~(tracks[i].first <= f - 1)
        BY <1>2, <4>7, <4>8
      <4> QED
        BY <1>1, <3>1, <4>5, <4>9
    <3> QED
      BY <3>1, <3>2, <3>3
  <2>2. ASSUME NEW i \in E, tracks[i].first <= f, f <= tracks[i].last PROVE i \in live
    <3>1. ~(\E p \in (found.ended + 1)..ended : ends[p] = i)
      <4> SUFFICES ASSUME NEW p \in (found.ended + 1)..ended, ends[p] = i PROVE FALSE
        OBVIOUS
      <4>1. p \in 1..Len(ends) /\ p <= ended
        BY <1>2, <1>5, <1>8
      <4>2. i \in over
        BY <1>8, <4>1
      <4> QED
        BY <1>1, <1>6, <2>2, <4>2
    <3>2. CASE tracks[i].first <= f - 1
      BY <1>1, <1>2, <2>2, <3>1, <3>2
    <3>3. CASE ~(tracks[i].first <= f - 1)
      <4>1. PICK p \in 1..Len(starts) : starts[p] = i
        BY <1>5
      <4>2. ~(p <= found.started)
        BY <1>2, <3>3, <4>1
      <4>3. i \in begun
        BY <1>1, <1>6, <2>2
      <4>4. p <= started
        BY <1>7, <4>1, <4>3
      <4>5. p \in (found.started + 1)..started
        BY <1>2, <1>5, <1>7, <4>1, <4>2, <4>4
      <4> QED
        BY <1>2, <3>1, <4>1, <4>5
    <3> QED
      BY <3>2, <3>3
  <2>3. live \subseteq E
    BY <2>1
  <2> HIDE DEF live
  <2> QED
    BY <2>1, <2>2, <2>3
<1> HIDE DEF live
<1>10. /\ cursor \in [DOMAIN tracks -> Nat]
       /\ \A i \in E :
             /\ cursor[i] \in 1..Len(tracks[i].keys)
             /\ cursor[i] = 1 \/ tracks[i].keys[cursor[i]].frame < f
       /\ \A i \in live : CursorBox(tracks[i], cursor[i], f) = BoxAt(tracks[i], f)
  <2>1. ASSUME NEW i \in E
        PROVE  /\ cursor[i] \in 1..Len(tracks[i].keys)
               /\ cursor[i] = 1 \/ tracks[i].keys[cursor[i]].frame < f
               /\ i \in live => CursorBox(tracks[i], cursor[i], f) = BoxAt(tracks[i], f)
    <3>1. i \in DOMAIN tracks /\ WellFormed(tracks[i])
      BY <1>1
    <3>2. /\ found.cursor[i] \in 1..Len(tracks[i].keys)
          /\ found.cursor[i] = 1 \/ tracks[i].keys[found.cursor[i]].frame < f
      <4>1. \A k \in 1..Len(tracks[i].keys) : tracks[i].keys[k].frame \in Nat
        BY <3>1, KeyTypes
      <4> QED
        BY <1>2, <4>1
    <3>3. CASE i \in live
      <4>1. cursor[i] = Ahead(tracks[i].keys, found.cursor[i], f)
        BY <1>1, <1>9, <3>1, <3>3
      <4> HIDE DEF cursor
      <4> QED
        BY <3>1, <3>2, <4>1, CursorFindsBox
    <3>4. CASE i \notin live
      BY <3>1, <3>2, <3>4
    <3> QED
      BY <3>3, <3>4
  <2>2. ASSUME NEW i \in DOMAIN tracks PROVE cursor[i] \in Nat
    <3>1. CASE i \in E
      <4>1. Len(tracks[i].keys) \in Nat /\ cursor[i] \in 1..Len(tracks[i].keys)
        BY <1>1, <2>1, <3>1, KeyTypes
      <4> QED
        BY <4>1
    <3>2. CASE i \notin E
      BY <1>2, <1>9, <3>2
    <3> QED
      BY <3>1, <3>2
  <2>3. live \subseteq E
    BY <1>9
  <2> QED
    BY <2>1, <2>2, <2>3
<1> HIDE DEF cursor
<1>11. /\ moved.starts = starts /\ moved.ends = ends /\ moved.started = started
       /\ moved.ended = ended /\ moved.live = live /\ moved.cursor = cursor
       /\ moved = [starts |-> starts, ends |-> ends, started |-> started, ended |-> ended,
                   live |-> live, cursor |-> cursor]
  BY <1>2, <1>3 DEF LookedUp, starts, ends
<1>12. LookedUp(moved, tracks, f)
  <2>1. moved \in [starts : {starts}, ends : {ends}, started : 0..Len(starts),
                   ended : 0..Len(ends), live : SUBSET E, cursor : [DOMAIN tracks -> Nat]]
    BY <1>2, <1>5, <1>7, <1>8, <1>9, <1>10, <1>11
  <2>2. \A r \in 1..Len(starts) : r <= started <=> tracks[starts[r]].first <= f
    BY <1>1, <1>5, <1>6, <1>7
  <2>3. \A r \in 1..Len(ends) : r <= ended <=> tracks[ends[r]].last < f
    BY <1>1, <1>5, <1>6, <1>8
  <2> QED
    BY <1>9, <1>10, <1>11, <2>1, <2>2, <2>3 DEF LookedUp, starts, ends, E
<1>13. FoundAt(moved, tracks, f) = RedactionsAt(tracks, f)
  <2> DEFINE A == {j \in live : CursorBox(tracks[j], cursor[j], f) # NoBox}
             B == {j \in DOMAIN tracks : Shown(tracks[j]) /\ BoxAt(tracks[j], f) # NoBox}
  <2>1. \A j \in DOMAIN tracks : BoxAt(tracks[j], f) # NoBox => f \in tracks[j].first..tracks[j].last
    BY DEF BoxAt
  <2>2. A = B
    <3>1. ASSUME NEW j \in A PROVE j \in B
      BY <1>1, <1>9, <1>10
    <3>2. ASSUME NEW j \in B PROVE j \in A
      <4>1. j \in E /\ f \in tracks[j].first..tracks[j].last
        BY <1>1, <2>1
      <4>2. j \in live
        BY <1>1, <1>9, <4>1
      <4> QED
        BY <1>10, <4>2
    <3> QED
      BY <3>1, <3>2
  <2>3. \A j \in A : CursorBox(tracks[j], cursor[j], f) = BoxAt(tracks[j], f)
    BY <1>10
  <2>4. FoundAt(moved, tracks, f) =
            {[track |-> j, class |-> tracks[j].class, at |-> CursorBox(tracks[j], cursor[j], f)] : j \in A}
    BY <1>11 DEF FoundAt
  <2>5. RedactionsAt(tracks, f) =
            {[track |-> j, class |-> tracks[j].class, at |-> BoxAt(tracks[j], f)] : j \in B}
    BY DEF RedactionsAt
  <2> HIDE DEF A, B
  <2> QED
    BY <2>2, <2>3, <2>4, <2>5
<1> QED
  BY <1>12, <1>13

-----------------------------------------------------------------------------
(* The renderer.                                                           *)

ShownFrames == {RedactionsAt(snapshot, n) : n \in Nat}

\* frames are the first of the review, as it is shown.
ShowsReview(frames) ==
    /\ frames \in Seq(ShownFrames)
    /\ \A i \in 1..Len(frames) : frames[i] = RedactionsAt(snapshot, i - 1)

(***************************************************************************)
(* The inductive invariant of the renderer of a video: what was written    *)
(* and published shows the review, and the lookup of an attempt was asked  *)
(* for the frames written and no others.                                   *)
(***************************************************************************)
RenderInv(video) ==
    /\ Reviewed(snapshot)
    /\ step \in RenderSteps /\ attempt \in 1..Len(Encoders)
    /\ ShowsReview(written) /\ ShowsReview(output)
    /\ step \in {"idle", "attempting"} => written = <<>>
    /\ step = "rendering" => LookedUp(lookup, snapshot, Len(written) - 1)
    /\ IF step = "exported" THEN Len(output) \in (video[2] - Tolerance)..(video[2] + Tolerance)
                            ELSE output = NoOutput

\* An empty file shows whatever was reviewed.
LEMMA NothingShown ==
    ASSUME NEW frames, frames = <<>>
    PROVE  ShowsReview(frames)
BY DEF ShowsReview

\* Nothing was rendered before an export begins.
LEMMA RenderStarts ==
    ASSUME NEW video, RenderInit
    PROVE  RenderInv(video)
<1> USE DEF RenderInit, NoOutput
<1>1. Reviewed(snapshot)
  BY DEF Reviewed
<1>2. ShowsReview(written) /\ ShowsReview(output)
  BY NothingShown
<1>3. attempt \in 1..Len(Encoders)
  BY RenderingAssumption
<1> QED
  BY <1>1, <1>2, <1>3 DEF RenderInv, RenderSteps

\* The tracks may be replaced until then.
LEMMA ReviewMayChange ==
    ASSUME NEW video, RenderInv(video), step = "idle", Reviewed(snapshot)',
           UNCHANGED <<step, attempt, lookup, written, output>>
    PROVE  RenderInv(video)'
<1>1. written' = <<>> /\ output' = <<>>
  BY DEF RenderInv, NoOutput
<1>2. ShowsReview(written)' /\ ShowsReview(output)'
  BY <1>1 DEF ShowsReview
<1> QED
  BY <1>1, <1>2 DEF RenderInv

\* An attempt begins with a new lookup and an empty file.
LEMMA BeginAttemptKeeps ==
    ASSUME NEW video, RenderInv(video), BeginAttempt
    PROVE  RenderInv(video)'
<1> USE DEF BeginAttempt
<1>1. LookedUp(lookup', snapshot, -1) /\ Len(written) - 1 = -1
  BY NewLookupIsUnused DEF RenderInv
<1>2. LookedUp(lookup, snapshot, Len(written) - 1)'
  BY <1>1
<1>3. ShowsReview(written)' /\ ShowsReview(output)' /\ Reviewed(snapshot)'
  BY DEF RenderInv, ShowsReview, ShownFrames
<1> QED
  BY <1>2, <1>3 DEF RenderInv, RenderSteps

\* The next frame is looked up and written.
LEMMA RenderFrameKeeps ==
    ASSUME NEW video, RenderInv(video), RenderFrame(video)
    PROVE  RenderInv(video)'
<1> DEFINE n == Len(written)
           frame == FoundAt(lookup', snapshot, n)
<1>1. /\ step = "rendering" /\ n \in Nat /\ written' = Append(written, frame)
      /\ lookup' = MovedTo(lookup, snapshot, n)
      /\ UNCHANGED <<snapshot, step, attempt, output>>
  BY DEF RenderFrame, RenderInv, ShowsReview
<1>2. LookedUp(lookup', snapshot, n) /\ frame = RedactionsAt(snapshot, n)
  BY <1>1, LookupIsExact DEF RenderInv
<1> HIDE DEF frame
<1>3. written' \in Seq(ShownFrames) /\ Len(written') = n + 1 /\ written'[n + 1] = frame
      /\ \A i \in 1..n : written'[i] = written[i]
  <2>1. frame \in ShownFrames
    BY <1>1, <1>2 DEF ShownFrames
  <2> QED
    BY <1>1, <2>1 DEF RenderInv, ShowsReview
<1>4. \A i \in 1..(n + 1) : written'[i] = RedactionsAt(snapshot, i - 1)
  <2> TAKE i \in 1..(n + 1)
  <2>1. CASE i = n + 1
    BY <1>1, <1>2, <1>3, <2>1
  <2>2. CASE i # n + 1
    <3>1. i \in 1..n
      BY <1>1, <2>2
    <3> QED
      BY <1>3, <3>1 DEF RenderInv, ShowsReview
  <2> QED
    BY <2>1, <2>2
<1>5. ShowsReview(written)'
  BY <1>1, <1>3, <1>4 DEF ShowsReview, ShownFrames
<1>6. ShowsReview(output)' /\ Reviewed(snapshot)'
  BY <1>1 DEF RenderInv, ShowsReview, ShownFrames
<1>7. LookedUp(lookup, snapshot, Len(written) - 1)'
  <2>1. Len(written') - 1 = n
    BY <1>1, <1>3
  <2> QED
    BY <1>1, <1>2, <2>1
<1> QED
  BY <1>1, <1>5, <1>6, <1>7 DEF RenderInv

\* The first frames of what shows the review show it too.
LEMMA PrefixShows ==
    ASSUME NEW frames, ShowsReview(frames), NEW n \in 1..Len(frames)
    PROVE  ShowsReview(SubSeq(frames, 1, n))
<1>1. frames \in Seq(ShownFrames) /\ Len(frames) \in Nat
  BY DEF ShowsReview
<1>2. /\ SubSeq(frames, 1, n) \in Seq(ShownFrames) /\ Len(SubSeq(frames, 1, n)) = n
      /\ \A i \in 1..n : SubSeq(frames, 1, n)[i] = frames[i]
  BY <1>1
<1> QED
  BY <1>1, <1>2 DEF ShowsReview

\* The next encoder starts over; after the last the export has failed.
LEMMA NextAttemptKeeps ==
    ASSUME NEW video, RenderInv(video), step \notin {"idle", "exported"},
           NextAttempt \/ RenderingFails
    PROVE  RenderInv(video)'
<1> USE DEF NextAttempt, RenderingFails
<1>1. UNCHANGED <<snapshot, output>> /\ (written' = <<>> \/ (written' = written /\ step' = "failed"))
      /\ step' \in {"attempting", "failed"} /\ (step' = "attempting" => written' = <<>>)
  OBVIOUS
<1>2. attempt' \in 1..Len(Encoders)
  BY RenderingAssumption DEF RenderInv
<1>3. ShowsReview(written)'
  <2>1. CASE written' = <<>>
    BY <1>1, <2>1 DEF ShowsReview
  <2>2. CASE written' = written
    BY <1>1, <2>2 DEF RenderInv, ShowsReview, ShownFrames
  <2> QED
    BY <1>1, <2>1, <2>2
<1>4. ShowsReview(output)' /\ Reviewed(snapshot)'
  BY <1>1 DEF RenderInv, ShowsReview, ShownFrames
<1>5. step' = "attempting" => written' = <<>>
  BY <1>1
<1>6. output' = NoOutput
  BY <1>1 DEF RenderInv
<1>7. step' \in RenderSteps \ {"rendering", "exported", "idle"}
  BY <1>1 DEF RenderSteps
<1> QED
  BY <1>2, <1>3, <1>4, <1>5, <1>6, <1>7 DEF RenderInv

(***************************************************************************)
(* Every step of the renderer keeps its invariant.                         *)
(***************************************************************************)
LEMMA RenderingKeeps ==
    ASSUME NEW video, RenderInv(video), Render(video)
    PROVE  RenderInv(video)'
<1>1. CASE StopReading
  <2>1. ShowsReview(written)' /\ ShowsReview(output)' /\ Reviewed(snapshot)'
    BY <1>1 DEF StopReading, RenderInv, ShowsReview, ShownFrames
  <2> QED
    BY <1>1, <2>1 DEF StopReading, RenderInv, RenderSteps
<1>2. CASE EncoderFailure \/ RenderRaises
  BY <1>2, NextAttemptKeeps DEF EncoderFailure, RenderRaises
<1>3. CASE EncoderEnds
  <2>1. CASE written = <<>>
    BY <1>3, <2>1, NextAttemptKeeps DEF EncoderEnds
  <2>2. CASE written # <<>>
    <3>1. PICK n \in 1..Len(written) : written' = SubSeq(written, 1, n)
      BY <1>3, <2>2 DEF EncoderEnds
    <3>2. UNCHANGED <<snapshot, attempt, lookup, output>> /\ step' = "encoded" /\ step = "encoding"
      BY <1>3, <2>2 DEF EncoderEnds
    <3>3. ShowsReview(SubSeq(written, 1, n))
      BY PrefixShows DEF RenderInv
    <3>4. ShowsReview(written)' /\ ShowsReview(output)' /\ Reviewed(snapshot)'
      BY <3>1, <3>2, <3>3 DEF RenderInv, ShowsReview, ShownFrames
    <3> QED
      BY <3>2, <3>4 DEF RenderInv, RenderSteps
  <2> QED
    BY <2>1, <2>2
<1>4. CASE Validate(video)
  <2>1. CASE LengthIsPlausible(video)
    <3>1. step' = "exported" /\ output' = written /\ UNCHANGED <<snapshot, attempt, lookup, written>>
      BY <1>4, <2>1 DEF Validate
    <3>2. ShowsReview(written)' /\ ShowsReview(output)' /\ Reviewed(snapshot)'
      BY <3>1 DEF RenderInv, ShowsReview, ShownFrames
    <3> QED
      BY <2>1, <3>1, <3>2 DEF RenderInv, RenderSteps, LengthIsPlausible
  <2>2. CASE ~LengthIsPlausible(video)
    BY <1>4, <2>2, NextAttemptKeeps DEF Validate
  <2> QED
    BY <2>1, <2>2
<1> QED
  BY <1>1, <1>2, <1>3, <1>4, BeginAttemptKeeps, RenderFrameKeeps DEF Render

\* What the runs check follows.
LEMMA RenderedShowsReview ==
    ASSUME NEW video, RenderInv(video)
    PROVE  RenderedAsReviewed(video)
BY SMTT(30) DEF RenderInv, ShowsReview, RenderedAsReviewed
=============================================================================
