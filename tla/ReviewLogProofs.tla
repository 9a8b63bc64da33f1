--------------------------- MODULE ReviewLogProofs ---------------------------
(***************************************************************************)
(* Theorems about modules ReviewLog and ReviewHistory, for any tracks,     *)
(* track states, sessions and number of revisions.                         *)
(***************************************************************************)
EXTENDS ReviewHistory, SequenceTheorems, WellFoundedInduction, NaturalsInduction,
        TLAPS

(***************************************************************************)
(* The inductive invariant.  A draft is only bound to the log while the    *)
(* revision it was prepared for is the current one; the compare-and-set of *)
(* Reserve lets no other draft through.                                    *)
(***************************************************************************)
Touching(n, t) == {a \in log : a.revision <= n /\ t \in DOMAIN a.after}

\* Replaying is well defined: of the actions on a track one is the newest.
NewestExists ==
    \A n \in 0..revision, t \in Tracks :
        Touching(n, t) # {} =>
            \E a \in Touching(n, t) : \A b \in Touching(n, t) : b.revision <= a.revision

SameTracks == \A a \in log : DOMAIN a.before = DOMAIN a.after

\* What a payload may bring back: new values, or an older version.
Offers(payload) ==
    \/ \A t \in DOMAIN payload : payload[t] \in Values
    \/ \E n \in 0..revision : \A t \in DOMAIN payload : payload[t] = Snapshot(n)[t]

SessionsBehind ==
    \A s \in Sessions :
        stage[s] # "idle" => expected[s] <= revision /\ expected[s] < MaxRevision

DraftsHaveSameTracks ==
    \A s \in Sessions : DOMAIN draft[s].before = DOMAIN draft[s].after

CurrentDraftsAreTrue ==
    \A s \in Sessions :
        stage[s] = "drafted" /\ expected[s] = revision =>
            /\ \A t \in DOMAIN draft[s].before : draft[s].before[t] = Snapshot(revision)[t]
            /\ Offers(draft[s].after)

HistoryInv ==
    /\ TypeOK
    /\ LogIsGapFree
    /\ NewestExists
    /\ SameTracks
    /\ BeforeStatesAreTrue
    /\ SessionsBehind
    /\ DraftsHaveSameTracks
    /\ CurrentDraftsAreTrue

-----------------------------------------------------------------------------
(* Replaying.                                                              *)

LEMMA PayloadType ==
    ASSUME NEW p \in Payloads
    PROVE  /\ DOMAIN p \subseteq Tracks
           /\ \A t \in DOMAIN p : p[t] \in Values \cup {NoValue}
BY DEF Payloads

LEMMA FunctionIsPayload ==
    ASSUME NEW T \in SUBSET Tracks, NEW p \in [T -> Values \cup {NoValue}]
    PROVE  p \in Payloads
BY DEF Payloads

LEMMA LogType ==
    ASSUME TypeOK, NEW a \in log
    PROVE  /\ a.revision \in 1..MaxRevision
           /\ a.before \in Payloads
           /\ a.after \in Payloads
           /\ a.target \in 0..MaxRevision
BY DEF TypeOK, Actions

LEMMA SnapshotIs ==
    ASSUME NEW n, NEW t \in Tracks
    PROVE  Snapshot(n)[t] =
             IF Touching(n, t) = {} THEN Detected[t] ELSE Newest(Touching(n, t)).after[t]
<1>1. {a \in {b \in log : b.revision <= n} : t \in DOMAIN a.after} = Touching(n, t)
  BY DEF Touching
<1> QED
  BY <1>1 DEF Snapshot, Replay

LEMMA NewestIs ==
    ASSUME NEW S, NEW a \in S,
           \A b \in S : b.revision \in Nat /\ b.revision <= a.revision,
           \A b, c \in S : b.revision = c.revision => b = c
    PROVE  Newest(S) = a
<1> DEFINE N == Newest(S)
<1>1. N \in S /\ \A b \in S : b.revision <= N.revision
  BY DEF Newest
<1>2. N.revision <= a.revision /\ a.revision <= N.revision
  BY <1>1
<1>3. a.revision \in Nat /\ N.revision \in Nat
  BY <1>1
<1>4. N.revision = a.revision
  BY <1>2, <1>3
<1> QED
  BY <1>1, <1>4

LEMMA NewestTouching ==
    ASSUME TypeOK, LogIsGapFree, NEW n, NEW t, NEW a \in Touching(n, t),
           \A b \in Touching(n, t) : b.revision <= a.revision
    PROVE  Newest(Touching(n, t)) = a
<1>1. \A b \in Touching(n, t) : b \in log /\ b.revision \in Nat
  BY LogType DEF Touching
<1>2. \A b, c \in Touching(n, t) : b.revision = c.revision => b = c
  BY <1>1 DEF LogIsGapFree
<1> QED
  BY <1>1, <1>2, NewestIs

LEMMA SnapshotType ==
    ASSUME TypeOK, LogIsGapFree, NewestExists, NEW n \in 0..revision
    PROVE  Snapshot(n) \in [Tracks -> Values \cup {NoValue}]
<1>1. ASSUME NEW t \in Tracks PROVE Snapshot(n)[t] \in Values \cup {NoValue}
  <2>1. CASE Touching(n, t) = {}
    BY <2>1, SnapshotIs, ReviewAssumption
  <2>2. CASE Touching(n, t) # {}
    <3>1. PICK a \in Touching(n, t) : \A b \in Touching(n, t) : b.revision <= a.revision
      BY <2>2 DEF NewestExists
    <3>3. Newest(Touching(n, t)) = a
      BY <3>1, NewestTouching
    <3>4. a \in log /\ t \in DOMAIN a.after
      BY <3>1 DEF Touching
    <3>5. a.after[t] \in Values \cup {NoValue}
      BY <3>4, LogType, PayloadType
    <3> QED
      BY <2>2, <3>3, <3>5, SnapshotIs
  <2> QED
    BY <2>1, <2>2
<1>2. Snapshot(n) = [t \in Tracks |-> Snapshot(n)[t]]
  BY DEF Snapshot, Replay
<1> QED
  BY <1>1, <1>2

LEMMA CurrentIsLatest ==
    ASSUME TypeOK, LogIsGapFree
    PROVE  Current = Snapshot(revision)
<1>1. \A a \in log : a.revision \in 1..revision
  BY DEF LogIsGapFree
<1>2. {a \in log : a.revision <= revision} = log
  BY <1>1 DEF TypeOK
<1> QED
  BY <1>2 DEF Current, Snapshot

\* An action is the newest one on each of its tracks at its own revision.
LEMMA AfterStatesAreTrue ==
    ASSUME TypeOK, LogIsGapFree, NEW a \in log, NEW t \in DOMAIN a.after
    PROVE  Snapshot(a.revision)[t] = a.after[t]
<1>1. a \in Touching(a.revision, t)
  BY LogType DEF Touching
<1>2. \A b \in Touching(a.revision, t) : b.revision <= a.revision
  BY DEF Touching
<1>4. Newest(Touching(a.revision, t)) = a
  BY <1>1, <1>2, NewestTouching
<1>5. t \in Tracks
  BY LogType, PayloadType
<1> QED
  BY <1>1, <1>4, <1>5, SnapshotIs

-----------------------------------------------------------------------------
(* Appending one action.                                                   *)

LEMMA OldSnapshotsKeep ==
    ASSUME TypeOK, NEW r, r.revision = revision + 1, log' = log \cup {r},
           NEW n \in 0..revision
    PROVE  Snapshot(n)' = Snapshot(n)
<1>1. {a \in log' : a.revision <= n} = {a \in log : a.revision <= n}
  BY DEF TypeOK
<1> QED
  BY <1>1 DEF Snapshot, Replay

LEMMA NewestStillExists ==
    ASSUME TypeOK, LogIsGapFree, NewestExists,
           NEW r, r.revision = revision + 1, log' = log \cup {r}, revision' = revision + 1
    PROVE  NewestExists'
<1> SUFFICES ASSUME NEW n \in 0..(revision + 1), NEW t \in Tracks, Touching(n, t)' # {}
             PROVE  \E a \in Touching(n, t)' :
                        \A b \in Touching(n, t)' : b.revision <= a.revision
  BY DEF NewestExists
<1>1. revision \in Nat
  BY DEF TypeOK
<1>2. \A a \in log : a.revision \in 1..revision
  BY DEF LogIsGapFree
<1>3. Touching(n, t)' = {a \in log \cup {r} : a.revision <= n /\ t \in DOMAIN a.after}
  BY DEF Touching
<1>4. CASE n \in 0..revision
  <2>1. Touching(n, t)' = Touching(n, t)
    BY <1>1, <1>3, <1>4 DEF Touching
  <2> QED
    BY <2>1, <1>4 DEF NewestExists
<1>5. CASE n = revision + 1 /\ t \in DOMAIN r.after
  <2>1. r \in Touching(n, t)'
    BY <1>1, <1>3, <1>5
  <2>2. \A b \in Touching(n, t)' : b.revision <= r.revision
    BY <1>1, <1>2, <1>3, <1>5
  <2> QED
    BY <2>1, <2>2
<1>6. CASE n = revision + 1 /\ t \notin DOMAIN r.after
  <2>1. Touching(n, t)' = Touching(revision, t)
    BY <1>1, <1>2, <1>3, <1>6 DEF Touching
  <2> QED
    BY <2>1, <1>1 DEF NewestExists
<1> QED
  BY <1>1, <1>4, <1>5, <1>6

LEMMA NewSnapshot ==
    ASSUME TypeOK, LogIsGapFree, LogIsGapFree', NEW n, n = revision + 1,
           NEW r, r.revision = n, log' = log \cup {r}, NEW t \in Tracks
    PROVE  Snapshot(n)'[t] =
             IF t \in DOMAIN r.after THEN r.after[t] ELSE Snapshot(revision)[t]
<1>1. revision \in Nat
  BY DEF TypeOK
<1>2. \A a \in log : a.revision \in 1..revision
  BY DEF LogIsGapFree
<1> DEFINE S == {a \in {b \in log \cup {r} : b.revision <= n} : t \in DOMAIN a.after}
<1>3. Snapshot(n)'[t] = IF S = {} THEN Detected[t] ELSE Newest(S).after[t]
  BY DEF Snapshot, Replay
<1>4. CASE t \in DOMAIN r.after
  <2>1. r \in S /\ \A b \in S : b.revision \in Nat /\ b.revision <= r.revision
    BY <1>1, <1>2, <1>4
  <2>2. \A b, c \in S : b.revision = c.revision => b = c
    BY DEF LogIsGapFree
  <2>3. Newest(S) = r
    BY <2>1, <2>2, NewestIs
  <2> QED
    BY <1>3, <1>4, <2>1, <2>3
<1>5. CASE t \notin DOMAIN r.after
  <2>1. S = Touching(revision, t)
    BY <1>1, <1>2, <1>5 DEF Touching
  <2> QED
    BY <1>3, <1>5, <2>1, SnapshotIs
<1> QED
  BY <1>4, <1>5

-----------------------------------------------------------------------------
(* The invariant.                                                          *)

LEMMA NoDraftType == NoDraft \in Drafts
<1>1. NoTracks \in [{} -> Values \cup {NoValue}]
  BY DEF NoTracks
<1>2. NoTracks \in Payloads
  BY <1>1, FunctionIsPayload
<1> QED
  BY <1>2, ReviewAssumption DEF NoDraft, Drafts, Kinds

LEMMA InitInv == Init => HistoryInv
<1> SUFFICES ASSUME Init PROVE HistoryInv
  OBVIOUS
<1> USE ReviewAssumption DEF Init
<1>1. TypeOK
  BY NoDraftType DEF TypeOK
<1>2. LogIsGapFree /\ SameTracks /\ BeforeStatesAreTrue
  BY DEF LogIsGapFree, SameTracks, BeforeStatesAreTrue
<1>3. NewestExists
  BY DEF NewestExists, Touching
<1>4. SessionsBehind /\ DraftsHaveSameTracks /\ CurrentDraftsAreTrue
  BY DEF SessionsBehind, DraftsHaveSameTracks, CurrentDraftsAreTrue, NoDraft
<1> QED
  BY <1>1, <1>2, <1>3, <1>4 DEF HistoryInv

\* What a session prepares is true of the log it was prepared from.
Honest(d) ==
    /\ d \in Drafts
    /\ DOMAIN d.before = DOMAIN d.after
    /\ \A t \in DOMAIN d.before : d.before[t] = Snapshot(revision)[t]
    /\ Offers(d.after)

LEMMA EventIsHonest == Honest(NoDraft)
BY NoDraftType DEF Honest, NoDraft, NoTracks, Offers

LEMMA EditIsHonest ==
    ASSUME HistoryInv, NEW T \in SUBSET Tracks, NEW after \in [T -> Values]
    PROVE  Honest([kind |-> "edit", before |-> [t \in T |-> Current[t]],
                   after |-> after, target |-> 0])
<1>1. Current = Snapshot(revision) /\ Current \in [Tracks -> Values \cup {NoValue}]
  BY CurrentIsLatest, SnapshotType DEF HistoryInv, TypeOK
<1>2. [t \in T |-> Current[t]] \in Payloads
  BY <1>1, FunctionIsPayload
<1>3. after \in Payloads
  BY FunctionIsPayload
<1> QED
  BY <1>1, <1>2, <1>3, ReviewAssumption DEF Honest, Drafts, Kinds, Offers

LEMMA InverseIsHonest ==
    ASSUME HistoryInv, NEW a \in log, NEW kind \in {"undo", "redo"}, NEW desired,
           desired = IF kind = "undo" THEN a.before ELSE a.after
    PROVE  Honest(InversePayload(a, kind, desired))
<1>1. Current = Snapshot(revision) /\ Current \in [Tracks -> Values \cup {NoValue}]
  BY CurrentIsLatest, SnapshotType DEF HistoryInv, TypeOK
<1>2. /\ a.before \in Payloads /\ a.after \in Payloads /\ a.target \in 0..MaxRevision
      /\ a.revision \in 1..MaxRevision
      /\ DOMAIN a.before = DOMAIN a.after
  BY LogType DEF HistoryInv, SameTracks
<1>3. Touched(a) = DOMAIN a.before /\ Touched(a) \in SUBSET Tracks
  BY <1>2, PayloadType DEF Touched
<1>4. [t \in Touched(a) |-> Current[t]] \in Payloads
  BY <1>1, <1>3, FunctionIsPayload
<1>5. Offers(desired)
  <2>1. revision \in Nat /\ a.revision \in 1..revision
    BY DEF HistoryInv, TypeOK, LogIsGapFree
  <2>2. CASE kind = "undo"
    <3>1. a.revision - 1 \in 0..revision
      BY <2>1
    <3>2. \A t \in DOMAIN desired : desired[t] = Snapshot(a.revision - 1)[t]
      BY <2>2 DEF HistoryInv, BeforeStatesAreTrue
    <3> QED
      BY <3>1, <3>2 DEF Offers
  <2>3. CASE kind = "redo"
    <3>1. a.revision \in 0..revision
      BY <2>1
    <3>2. \A t \in DOMAIN desired : desired[t] = Snapshot(a.revision)[t]
      BY <2>3, AfterStatesAreTrue DEF HistoryInv
    <3> QED
      BY <3>1, <3>2 DEF Offers
  <2> QED
    BY <2>2, <2>3
<1>6. InversePayload(a, kind, desired) \in Drafts
  BY <1>2, <1>4, ReviewAssumption DEF InversePayload, Drafts, Kinds
<1> QED
  BY <1>1, <1>2, <1>3, <1>5, <1>6 DEF Honest, InversePayload

LEMMA SameSnapshots ==
    ASSUME UNCHANGED <<revision, log>>
    PROVE  /\ \A n : Snapshot(n)' = Snapshot(n)
           /\ \A p : Offers(p)' <=> Offers(p)
           /\ LogIsGapFree' <=> LogIsGapFree
           /\ NewestExists' <=> NewestExists
           /\ SameTracks' <=> SameTracks
           /\ BeforeStatesAreTrue' <=> BeforeStatesAreTrue
BY DEF Snapshot, Replay, Offers, LogIsGapFree, NewestExists, Touching, SameTracks,
       BeforeStatesAreTrue

LEMMA PrepareInv ==
    ASSUME HistoryInv, NEW s \in Sessions, NEW d, Honest(d), Prepare(s, d)
    PROVE  HistoryInv'
<1> USE DEF Prepare, HistoryInv
<1>1. TypeOK'
  BY DEF TypeOK, Honest
<1>2. LogIsGapFree' /\ NewestExists' /\ SameTracks' /\ BeforeStatesAreTrue'
  BY SameSnapshots
<1>3. SessionsBehind'
  BY DEF SessionsBehind, TypeOK
<1>4. DraftsHaveSameTracks'
  BY DEF DraftsHaveSameTracks, TypeOK, Honest
<1>5. CurrentDraftsAreTrue'
  <2> SUFFICES ASSUME NEW v \in Sessions, stage'[v] = "drafted", expected[v] = revision
               PROVE  /\ \A t \in DOMAIN draft'[v].before :
                            draft'[v].before[t] = Snapshot(revision)[t]
                      /\ Offers(draft'[v].after)
    BY SameSnapshots DEF CurrentDraftsAreTrue
  <2> QED
    BY DEF CurrentDraftsAreTrue, TypeOK, Honest
<1> QED
  BY <1>1, <1>2, <1>3, <1>4, <1>5

LEMMA BeginInv ==
    ASSUME HistoryInv, NEW s \in Sessions, Begin(s)
    PROVE  HistoryInv'
<1> USE DEF Begin, HistoryInv
<1>1. TypeOK'
  BY DEF TypeOK
<1>2. LogIsGapFree' /\ NewestExists' /\ SameTracks' /\ BeforeStatesAreTrue'
  BY SameSnapshots
<1>3. SessionsBehind'
  BY ReviewAssumption DEF SessionsBehind, TypeOK
<1>4. DraftsHaveSameTracks'
  BY DEF DraftsHaveSameTracks
<1>5. CurrentDraftsAreTrue'
  BY SameSnapshots DEF CurrentDraftsAreTrue, TypeOK
<1> QED
  BY <1>1, <1>2, <1>3, <1>4, <1>5

LEMMA FinishSessions ==
    ASSUME HistoryInv, NEW s \in Sessions, Finish(s)
    PROVE  /\ stage' \in [Sessions -> {"idle", "read", "drafted"}]
           /\ expected' \in [Sessions -> 0..MaxRevision]
           /\ draft' \in [Sessions -> Drafts]
           /\ DraftsHaveSameTracks'
           /\ \A v \in Sessions : stage'[v] # "idle" =>
                  /\ v # s
                  /\ stage'[v] = stage[v]
                  /\ expected'[v] = expected[v]
                  /\ draft'[v] = draft[v]
<1>1. DOMAIN NoDraft.before = DOMAIN NoDraft.after
  BY DEF NoDraft
<1>2. draft' \in [Sessions -> Drafts]
  BY NoDraftType DEF Finish, HistoryInv, TypeOK
<1>3. DraftsHaveSameTracks'
  BY <1>1 DEF Finish, HistoryInv, TypeOK, DraftsHaveSameTracks
<1> QED
  BY <1>2, <1>3, ReviewAssumption DEF Finish, HistoryInv, TypeOK

LEMMA AbandonInv ==
    ASSUME HistoryInv, NEW s \in Sessions, Abandon(s)
    PROVE  HistoryInv'
<1> USE DEF Abandon, HistoryInv
<1>1. TypeOK' /\ SessionsBehind' /\ DraftsHaveSameTracks'
  BY FinishSessions DEF TypeOK, SessionsBehind
<1>2. LogIsGapFree' /\ NewestExists' /\ SameTracks' /\ BeforeStatesAreTrue'
  BY SameSnapshots
<1>3. CurrentDraftsAreTrue'
  BY FinishSessions, SameSnapshots DEF CurrentDraftsAreTrue
<1> QED
  BY <1>1, <1>2, <1>3

LEMMA ReservedRow ==
    ASSUME HistoryInv, NEW s \in Sessions, Reserve(s)
    PROVE  \E r \in Actions :
              /\ r = Row(revision + 1, draft[s])
              /\ r.revision = revision + 1
              /\ r.before = draft[s].before
              /\ r.after = draft[s].after
              /\ log' = log \cup {r}
              /\ revision' = revision + 1
              /\ revision < MaxRevision
<1>1. revision + 1 \in 1..MaxRevision /\ revision < MaxRevision
  BY ReviewAssumption DEF HistoryInv, TypeOK, SessionsBehind, Reserve
<1>2. draft[s] \in Drafts
  BY DEF HistoryInv, TypeOK
<1>3. Row(revision + 1, draft[s]) \in Actions
  BY <1>1, <1>2 DEF Row, Drafts, Actions
<1> QED
  BY <1>1, <1>3 DEF Row, Reserve

LEMMA ReserveInv ==
    ASSUME HistoryInv, NEW s \in Sessions, Reserve(s)
    PROVE  HistoryInv'
<1>1. PICK r \in Actions :
        /\ r.revision = revision + 1
        /\ r.before = draft[s].before
        /\ r.after = draft[s].after
        /\ log' = log \cup {r}
        /\ revision' = revision + 1
        /\ revision < MaxRevision
  BY ReservedRow
<1>2. Finish(s) /\ stage[s] = "drafted" /\ expected[s] = revision
  BY DEF Reserve
<1>3. revision \in Nat /\ MaxRevision \in Nat /\ (\A a \in log : a.revision \in 1..revision)
  BY ReviewAssumption DEF HistoryInv, TypeOK, LogIsGapFree
<1>4. TypeOK'
  BY <1>1, <1>2, <1>3, FinishSessions DEF HistoryInv, TypeOK
<1>5. LogIsGapFree'
  <2>1. {a.revision : a \in log'} = 1..revision'
    <3>1. {a.revision : a \in log'} = {a.revision : a \in log} \cup {revision + 1}
      BY <1>1
    <3> QED
      BY <1>1, <1>3, <3>1 DEF HistoryInv, LogIsGapFree
  <2>2. \A a, b \in log' : a.revision = b.revision => a = b
    BY <1>1, <1>3 DEF HistoryInv, LogIsGapFree
  <2> QED
    BY <2>1, <2>2 DEF LogIsGapFree
<1>6. NewestExists'
  BY <1>1, NewestStillExists DEF HistoryInv
<1>7. SameTracks' /\ DraftsHaveSameTracks'
  BY <1>1, <1>2, FinishSessions DEF HistoryInv, SameTracks, DraftsHaveSameTracks
<1>8. BeforeStatesAreTrue'
  <2> SUFFICES ASSUME NEW a \in log', NEW t \in DOMAIN a.before, NEW n, n = a.revision - 1
               PROVE  a.before[t] = Snapshot(n)'[t]
    BY DEF BeforeStatesAreTrue
  <2>1. n \in 0..revision
    BY <1>1, <1>3
  <2>2. Snapshot(n)' = Snapshot(n)
    BY <1>1, <2>1, OldSnapshotsKeep DEF HistoryInv
  <2>3. CASE a \in log
    BY <2>2, <2>3 DEF HistoryInv, BeforeStatesAreTrue
  <2>4. CASE a = r
    <3>1. n = revision
      BY <1>1, <1>3, <2>4
    <3> QED
      BY <1>1, <1>2, <2>2, <2>4, <3>1 DEF HistoryInv, CurrentDraftsAreTrue
  <2> QED
    BY <1>1, <2>3, <2>4
<1>9. SessionsBehind'
  BY <1>1, <1>2, <1>3, FinishSessions DEF HistoryInv, SessionsBehind, TypeOK
<1>10. CurrentDraftsAreTrue'
  <2>1. \A v \in Sessions : stage'[v] # "idle" => expected'[v] # revision'
    BY <1>1, <1>2, <1>3, FinishSessions DEF HistoryInv, SessionsBehind, TypeOK
  <2> QED
    BY <2>1 DEF CurrentDraftsAreTrue
<1> QED
  BY <1>4, <1>5, <1>6, <1>7, <1>8, <1>9, <1>10 DEF HistoryInv

LEMMA NextInv == HistoryInv /\ [Next]_vars => HistoryInv'
<1> SUFFICES ASSUME HistoryInv, [Next]_vars PROVE HistoryInv'
  OBVIOUS
<1>1. ASSUME NEW s \in Sessions, Begin(s) PROVE HistoryInv'
  BY <1>1, BeginInv
<1>2. ASSUME NEW s \in Sessions, PrepareEdit(s) PROVE HistoryInv'
  BY <1>2, EditIsHonest, PrepareInv DEF PrepareEdit
<1>3. ASSUME NEW s \in Sessions, PrepareEvent(s) PROVE HistoryInv'
  BY <1>3, EventIsHonest, PrepareInv DEF PrepareEvent
<1>4. ASSUME NEW s \in Sessions, PrepareInverse(s) PROVE HistoryInv'
  <2>1. PICK a \in log :
          \/ Prepare(s, InversePayload(a, "undo", a.before))
          \/ Prepare(s, InversePayload(a, "redo", a.after))
    BY <1>4 DEF PrepareInverse
  <2>2. /\ Honest(InversePayload(a, "undo", a.before))
        /\ Honest(InversePayload(a, "redo", a.after))
    BY InverseIsHonest
  <2> QED
    BY <2>1, <2>2, PrepareInv
<1>5. ASSUME NEW s \in Sessions, Reserve(s) PROVE HistoryInv'
  BY <1>5, ReserveInv
<1>6. ASSUME NEW s \in Sessions, Abandon(s) PROVE HistoryInv'
  BY <1>6, AbandonInv
<1>7. CASE UNCHANGED vars
  <2>1. TypeOK' /\ SessionsBehind' /\ DraftsHaveSameTracks'
    BY <1>7 DEF vars, HistoryInv, TypeOK, SessionsBehind, DraftsHaveSameTracks
  <2>2. LogIsGapFree' /\ NewestExists' /\ SameTracks' /\ BeforeStatesAreTrue'
    BY <1>7, SameSnapshots DEF vars, HistoryInv
  <2>3. CurrentDraftsAreTrue'
    BY <1>7, SameSnapshots DEF vars, HistoryInv, CurrentDraftsAreTrue
  <2> QED
    BY <2>1, <2>2, <2>3 DEF HistoryInv
<1> QED
  BY <1>1, <1>2, <1>3, <1>4, <1>5, <1>6, <1>7 DEF Next

(***************************************************************************)
(* The inductive invariant holds in every state of the review log          *)
(* (services/review.py).                                                   *)
(***************************************************************************)
THEOREM HistoryInvariant == Spec => []HistoryInv
BY InitInv, NextInv, PTL DEF Spec

(***************************************************************************)
(* Counters, rows and drafts keep their types (services/review.py).        *)
(***************************************************************************)
THEOREM ReviewTypeCorrect == Spec => []TypeOK
<1>1. HistoryInv => TypeOK
  BY DEF HistoryInv
<1> QED
  BY <1>1, HistoryInvariant, PTL

(***************************************************************************)
(* For any number of racing sessions the log has exactly one action per    *)
(* revision (review.py:656-678, 725-746).                                  *)
(***************************************************************************)
THEOREM LogHasNoGaps == Spec => []LogIsGapFree
<1>1. HistoryInv => LogIsGapFree
  BY DEF HistoryInv
<1> QED
  BY <1>1, HistoryInvariant, PTL

(***************************************************************************)
(* Every recorded before_state is the state the action replaced            *)
(* (review.py:642-667).                                                    *)
(***************************************************************************)
THEOREM RecordedBeforeStates == Spec => []BeforeStatesAreTrue
<1>1. HistoryInv => BeforeStatesAreTrue
  BY DEF HistoryInv
<1> QED
  BY <1>1, HistoryInvariant, PTL

-----------------------------------------------------------------------------
(* Undo and redo.                                                          *)

\* Of any actions one is the newest.
SubsetsHaveNewest ==
    \A S \in SUBSET log : S # {} => \E a \in S : \A b \in S : b.revision <= a.revision

\* The rules of undo and redo, as the session that prepared d found them.
IsDue(d) ==
    \E a \in log :
        /\ d.target = a.revision
        /\ \/ d.kind = "undo" /\ ~IsUndone(a) /\ d.after = a.before
           \/ d.kind = "redo" /\ IsUndone(a) /\ d.after = a.after
        /\ Untouched(a)

CurrentInversesAreDue ==
    \A s \in Sessions :
        stage[s] = "drafted" /\ expected[s] = revision =>
            draft[s].target = 0 \/ IsDue(draft[s])

InversesFollow ==
    \A b \in log : b.target # 0 =>
        \E a \in log :
            /\ b.target = a.revision /\ a.revision < b.revision
            /\ Touched(b) = Touched(a)
            /\ \/ b.kind = "undo" /\ b.after = a.before
               \/ b.kind = "redo" /\ b.after = a.after

InverseInv ==
    /\ SubsetsHaveNewest
    /\ CurrentInversesAreDue
    /\ InversesFollow
    /\ InversesAlternate
    /\ NoEditIsLost

LEMMA NewestOf ==
    ASSUME SubsetsHaveNewest, NEW S \in SUBSET log, S # {}
    PROVE  Newest(S) \in S /\ \A b \in S : b.revision <= Newest(S).revision
BY DEF SubsetsHaveNewest, Newest

LEMMA InitInverses == Init => InverseInv
<1> SUFFICES ASSUME Init PROVE InverseInv
  OBVIOUS
<1>1. log = {} /\ stage = [s \in Sessions |-> "idle"]
  BY DEF Init
<1> QED
  BY <1>1 DEF InverseInv, SubsetsHaveNewest, CurrentInversesAreDue, InversesFollow,
     InversesAlternate, NoEditIsLost

LEMMA SameInverses ==
    ASSUME UNCHANGED <<revision, log>>
    PROVE  /\ SubsetsHaveNewest' <=> SubsetsHaveNewest
           /\ \A d : IsDue(d)' <=> IsDue(d)
           /\ InversesFollow' <=> InversesFollow
           /\ InversesAlternate' <=> InversesAlternate
           /\ NoEditIsLost' <=> NoEditIsLost
BY DEF SubsetsHaveNewest, IsDue, IsUndone, Untouched, LaterTouches, Inverses, InversesFollow,
   InversesAlternate, NoEditIsLost

\* Whatever is prepared is due when it is prepared.
LEMMA PreparedIsDue ==
    ASSUME HistoryInv, InverseInv, NEW s \in Sessions, NEW d, Prepare(s, d),
           d.target = 0 \/ IsDue(d)
    PROVE  InverseInv'
<1>1. /\ UNCHANGED <<revision, log, expected>>
      /\ \A v \in Sessions : stage'[v] = "drafted" =>
             (v = s /\ draft'[v] = d) \/ (stage[v] = "drafted" /\ draft'[v] = draft[v])
  BY DEF Prepare, HistoryInv, TypeOK
<1>2. CurrentInversesAreDue'
  BY <1>1, SameInverses DEF CurrentInversesAreDue, InverseInv
<1> QED
  BY <1>1, <1>2, SameInverses DEF InverseInv

LEMMA PrepareInverses ==
    ASSUME HistoryInv, InverseInv, NEW s \in Sessions,
           PrepareEdit(s) \/ PrepareEvent(s) \/ PrepareInverse(s)
    PROVE  InverseInv'
<1>1. CASE PrepareEdit(s)
  <2>1. PICK d : Prepare(s, d) /\ d.target = 0
    BY <1>1 DEF PrepareEdit
  <2> QED
    BY <2>1, PreparedIsDue
<1>2. CASE PrepareEvent(s)
  BY <1>2, PreparedIsDue DEF PrepareEvent, NoDraft
<1>3. CASE PrepareInverse(s)
  <2>1. PICK a \in log :
          \/ MayUndo(a) /\ Prepare(s, InversePayload(a, "undo", a.before))
          \/ MayRedo(a) /\ Prepare(s, InversePayload(a, "redo", a.after))
    BY <1>3 DEF PrepareInverse
  <2>2. MayUndo(a) => IsDue(InversePayload(a, "undo", a.before))
    BY DEF MayUndo, IsDue, InversePayload
  <2>3. MayRedo(a) => IsDue(InversePayload(a, "redo", a.after))
    BY DEF MayRedo, IsDue, InversePayload
  <2> QED
    BY <2>1, <2>2, <2>3, PreparedIsDue
<1> QED
  BY <1>1, <1>2, <1>3

LEMMA OtherInverses ==
    ASSUME HistoryInv, InverseInv, NEW s \in Sessions, Begin(s) \/ Abandon(s)
    PROVE  InverseInv'
<1>1. UNCHANGED <<revision, log>>
  BY DEF Begin, Abandon
<1>2. ASSUME NEW v \in Sessions, stage'[v] = "drafted"
      PROVE  stage[v] = "drafted" /\ expected'[v] = expected[v] /\ draft'[v] = draft[v]
  <2>1. CASE Begin(s)
    BY <1>2, <2>1 DEF Begin, HistoryInv, TypeOK
  <2>2. CASE Abandon(s)
    BY <1>2, <2>2, FinishSessions DEF Abandon
  <2> QED
    BY <2>1, <2>2
<1>3. CurrentInversesAreDue'
  BY <1>1, <1>2, SameInverses DEF CurrentInversesAreDue, InverseInv
<1> QED
  BY <1>1, <1>3, SameInverses DEF InverseInv

\* The row that Reserve appends, and the rows it finds.
LEMMA ReserveInverses ==
    ASSUME HistoryInv, InverseInv, NEW s \in Sessions, Reserve(s)
    PROVE  InverseInv'
<1>1. PICK r \in Actions :
        /\ r = Row(revision + 1, draft[s])
        /\ r.revision = revision + 1
        /\ r.before = draft[s].before
        /\ r.after = draft[s].after
        /\ log' = log \cup {r}
        /\ revision' = revision + 1
        /\ revision < MaxRevision
  BY ReservedRow
<1>2. /\ r.kind = draft[s].kind /\ r.target = draft[s].target
      /\ Finish(s) /\ stage[s] = "drafted" /\ expected[s] = revision
  BY <1>1 DEF Row, Reserve
<1>3. revision \in Nat /\ (\A a \in log : a.revision \in 1..revision)
  BY DEF HistoryInv, TypeOK, LogIsGapFree
<1>4. r.target = 0 \/ IsDue(r)
  BY <1>1, <1>2 DEF InverseInv, CurrentInversesAreDue, IsDue
<1>5. SubsetsHaveNewest'
  <2> SUFFICES ASSUME NEW S \in SUBSET log', S # {}
               PROVE  \E a \in S : \A b \in S : b.revision <= a.revision
    BY DEF SubsetsHaveNewest
  <2>1. CASE r \in S
    BY <1>1, <1>3, <2>1
  <2>2. CASE r \notin S
    BY <1>1, <2>2 DEF InverseInv, SubsetsHaveNewest
  <2> QED
    BY <2>1, <2>2
<1>6. CurrentInversesAreDue'
  <2>1. \A v \in Sessions : stage'[v] # "idle" => expected'[v] # revision'
    BY <1>1, <1>2, <1>3, FinishSessions DEF HistoryInv, SessionsBehind, TypeOK
  <2> QED
    BY <2>1 DEF CurrentInversesAreDue
<1>7. InversesFollow'
  <2> SUFFICES ASSUME NEW b \in log', b.target # 0
               PROVE  \E a \in log' :
                        /\ b.target = a.revision /\ a.revision < b.revision
                        /\ Touched(b) = Touched(a)
                        /\ \/ b.kind = "undo" /\ b.after = a.before
                           \/ b.kind = "redo" /\ b.after = a.after
    BY DEF InversesFollow, Touched
  <2>1. CASE b \in log
    BY <1>1, <2>1 DEF InverseInv, InversesFollow
  <2>2. CASE b = r
    <3>1. PICK a \in log : /\ r.target = a.revision
                           /\ \/ r.kind = "undo" /\ r.after = a.before
                              \/ r.kind = "redo" /\ r.after = a.after
      BY <1>4, <2>2 DEF IsDue
    <3>2. DOMAIN r.before = DOMAIN r.after /\ DOMAIN a.before = DOMAIN a.after
      BY <1>1 DEF HistoryInv, DraftsHaveSameTracks, SameTracks
    <3>3. Touched(r) = Touched(a)
      BY <3>1, <3>2 DEF Touched
    <3>4. a.revision < r.revision
      BY <1>1, <1>3
    <3> QED
      BY <1>1, <2>2, <3>1, <3>3, <3>4
  <2> QED
    BY <1>1, <2>1, <2>2
<1>8. /\ \A b \in log : b.target # r.revision
      /\ r.target # r.revision
  BY <1>1, <1>3, <1>4 DEF InverseInv, InversesFollow, IsDue
<1>9. InversesAlternate'
  <2> SUFFICES ASSUME NEW a \in log', NEW b \in log', b.target = a.revision
               PROVE  LET earlier == {c \in {x \in log' : x.target = a.revision} :
                                         c.revision < b.revision}
                      IN  b.kind = "undo" <=> (earlier = {} \/ Newest(earlier).kind = "redo")
    BY DEF InversesAlternate, Inverses
  <2>1. a \in log
    BY <1>1, <1>8
  <2>2. CASE b \in log
    <3>1. {c \in {x \in log' : x.target = a.revision} : c.revision < b.revision}
              = {c \in Inverses(a) : c.revision < b.revision}
      BY <1>1, <1>3, <2>2 DEF Inverses
    <3>2. b \in Inverses(a)
      BY <2>2 DEF Inverses
    <3> QED
      BY <2>1, <3>1, <3>2 DEF InverseInv, InversesAlternate
  <2>3. CASE b = r
    <3>1. {c \in {x \in log' : x.target = a.revision} : c.revision < b.revision} = Inverses(a)
      BY <1>1, <1>3, <2>3 DEF Inverses
    <3>2. \/ IsUndone(a) /\ r.kind = "redo"
          \/ ~IsUndone(a) /\ r.kind = "undo"
      <4>1. a.revision # 0
        BY <1>3, <2>1
      <4>2. PICK e \in log : /\ r.target = e.revision
                             /\ \/ IsUndone(e) /\ r.kind = "redo"
                                \/ ~IsUndone(e) /\ r.kind = "undo"
        BY <1>4, <2>3, <4>1 DEF IsDue
      <4>3. e = a
        BY <2>1, <2>3, <4>2 DEF HistoryInv, LogIsGapFree
      <4> QED
        BY <4>2, <4>3
    <3>3. ASSUME Inverses(a) # {}
          PROVE  Newest(Inverses(a)).kind \in {"undo", "redo"}
      <4>1. Newest(Inverses(a)) \in Inverses(a)
        BY <3>3, NewestOf DEF InverseInv, Inverses
      <4>2. /\ Newest(Inverses(a)) \in log
            /\ Newest(Inverses(a)).target = a.revision /\ a.revision # 0
        BY <1>3, <2>1, <4>1 DEF Inverses
      <4> QED
        BY <4>2 DEF InverseInv, InversesFollow
    <3> QED
      BY <2>3, <3>1, <3>2, <3>3 DEF IsUndone
  <2> QED
    BY <1>1, <2>2, <2>3
<1>10. NoEditIsLost'
  <2> SUFFICES ASSUME NEW a \in log', NEW b \in log', NEW c \in log',
                      b.target = a.revision,
                      a.revision < c.revision, c.revision < b.revision,
                      Touched(c) \cap Touched(a) # {}
               PROVE  c.target = a.revision
    BY DEF NoEditIsLost, Touched
  <2>1. a \in log /\ c \in log
    BY <1>1, <1>3
  <2>2. CASE b \in log
    BY <2>1, <2>2 DEF InverseInv, NoEditIsLost
  <2>3. CASE b = r
    <3>1. PICK e \in log : r.target = e.revision /\ Untouched(e)
      BY <1>3, <1>4, <2>1, <2>3 DEF IsDue
    <3>2. e = a
      BY <2>1, <2>3, <3>1 DEF HistoryInv, LogIsGapFree
    <3>3. c \in LaterTouches(a)
      BY <2>1 DEF LaterTouches
    <3>4. Inverses(a) # {} /\ Newest(LaterTouches(a)) = Newest(Inverses(a))
      BY <3>1, <3>2, <3>3 DEF Untouched
    <3> DEFINE m == Newest(Inverses(a))
    <3>5. m \in log /\ m.target = a.revision
      <4>1. m \in Inverses(a)
        BY <3>4, NewestOf DEF InverseInv, Inverses
      <4> QED
        BY <4>1 DEF Inverses
    <3>6. c.revision <= m.revision
      BY <3>3, <3>4, NewestOf DEF InverseInv, LaterTouches
    <3> HIDE DEF m
    <3>7. CASE c.revision = m.revision
      BY <2>1, <3>5, <3>7 DEF HistoryInv, LogIsGapFree
    <3>8. CASE c.revision # m.revision
      <4>1. c.revision < m.revision
        BY <1>3, <2>1, <3>5, <3>6, <3>8
      <4> QED
        BY <2>1, <3>5, <4>1 DEF InverseInv, NoEditIsLost
    <3> QED
      BY <3>7, <3>8
  <2> QED
    BY <1>1, <2>2, <2>3
<1> QED
  BY <1>5, <1>6, <1>7, <1>9, <1>10 DEF InverseInv

(***************************************************************************)
(* The second part of the inductive invariant, for undo and redo           *)
(* (services/review.py).                                                   *)
(***************************************************************************)
THEOREM InverseInvariant == Spec => []InverseInv
<1>1. HistoryInv /\ InverseInv /\ [Next]_vars => InverseInv'
  <2> SUFFICES ASSUME HistoryInv, InverseInv, [Next]_vars PROVE InverseInv'
    OBVIOUS
  <2>1. ASSUME NEW s \in Sessions, Reserve(s) PROVE InverseInv'
    BY <2>1, ReserveInverses
  <2>2. ASSUME NEW s \in Sessions, PrepareEdit(s) \/ PrepareEvent(s) \/ PrepareInverse(s)
        PROVE  InverseInv'
    BY <2>2, PrepareInverses
  <2>3. ASSUME NEW s \in Sessions, Begin(s) \/ Abandon(s) PROVE InverseInv'
    BY <2>3, OtherInverses
  <2>4. CASE UNCHANGED vars
    <3>1. CurrentInversesAreDue'
      BY <2>4, SameInverses DEF vars, InverseInv, CurrentInversesAreDue
    <3> QED
      BY <2>4, <3>1, SameInverses DEF vars, InverseInv
  <2> QED
    BY <2>1, <2>2, <2>3, <2>4 DEF Next
<1> QED
  BY InitInverses, <1>1, HistoryInvariant, PTL DEF Spec

(***************************************************************************)
(* Undo and redo never take away somebody else's later edit, for any       *)
(* number of reviewers and actions (review.py:568-584).                    *)
(***************************************************************************)
THEOREM UndoLosesNothing == Spec => []NoEditIsLost
<1>1. InverseInv => NoEditIsLost
  BY DEF InverseInv
<1> QED
  BY <1>1, InverseInvariant, PTL

(***************************************************************************)
(* The inverses of an action alternate, and each puts its tracks exactly   *)
(* to what they were before the action or after it (review.py:541-566,     *)
(* 586-619).                                                               *)
(***************************************************************************)
THEOREM UndoIsExact == Spec => []InversesAreExact
<1>1. HistoryInv /\ InverseInv => InversesRestore
  <2> SUFFICES ASSUME HistoryInv, InverseInv, NEW a \in log, NEW b \in Inverses(a),
                      NEW t \in Touched(a),
                      NEW then, then = IF b.kind = "undo" THEN a.revision - 1 ELSE a.revision
               PROVE  Snapshot(b.revision)[t] = Snapshot(then)[t]
    BY DEF InversesRestore
  <2>1. b \in log /\ b.target = a.revision /\ a.revision # 0
    BY LogType DEF HistoryInv, Inverses
  <2>2. PICK e \in log : /\ b.target = e.revision /\ Touched(b) = Touched(e)
                         /\ \/ b.kind = "undo" /\ b.after = e.before
                            \/ b.kind = "redo" /\ b.after = e.after
    BY <2>1 DEF InverseInv, InversesFollow
  <2>3. e = a
    BY <2>1, <2>2 DEF HistoryInv, LogIsGapFree
  <2>4. t \in DOMAIN a.before /\ t \in DOMAIN a.after /\ t \in DOMAIN b.after
    BY <2>1, <2>2, <2>3 DEF HistoryInv, SameTracks, Touched
  <2>5. Snapshot(b.revision)[t] = b.after[t] /\ Snapshot(a.revision)[t] = a.after[t]
    BY <2>1, <2>4, AfterStatesAreTrue DEF HistoryInv
  <2>6. Snapshot(a.revision - 1)[t] = a.before[t]
    BY <2>4 DEF HistoryInv, BeforeStatesAreTrue
  <2> QED
    BY <2>2, <2>3, <2>5, <2>6
<1>2. InverseInv => InversesAlternate
  BY DEF InverseInv
<1> QED
  BY <1>1, <1>2, HistoryInvariant, InverseInvariant, PTL DEF InversesAreExact

-----------------------------------------------------------------------------
(* The redo button of the workspace.  Its stack holds edits that are       *)
(* undone, each once, and that nothing but undos and redos of other edits  *)
(* followed; what the invariant says of inverses makes such an edit one    *)
(* the service accepts to redo.                                            *)

\* A set of numbers has a least one: induction, but without an operator.
LEMMA LeastNatural ==
    ASSUME NEW S \in SUBSET Nat, S # {}
    PROVE  \E m \in S : \A n \in S : m <= n
<1> DEFINE R == OpToRel(<, Nat)
<1>1. \A x, y \in Nat : x < y => <<x, y>> \in R
  BY SMT DEF OpToRel
<1>2. IsWellFoundedOn(R, Nat)
  BY NatLessThanWellFounded
<1> HIDE DEF R
<1>3. PICK m \in S : \A n \in S : <<n, m>> \notin R
  BY <1>2, WFMin
<1>4. ASSUME NEW n \in S PROVE m <= n
  <2>1. m \in Nat /\ n \in Nat /\ ~(n < m)
    BY <1>1, <1>3
  <2> QED
    BY <2>1
<1> QED
  BY <1>4

\* An undo or redo names an edit of the log, nothing else names anything.
Proper(d) ==
    /\ d.kind \in {"undo", "redo"} => \E a \in log : a.kind = "edit" /\ a.revision = d.target
    /\ d.kind \notin {"undo", "redo"} => d.target = 0
    /\ d.kind = "event" => Touched(d) = {}

\* Of the log and of every command a session prepared.
TargetsAreEdits == (\A b \in log : Proper(b)) /\ (\A s \in Sessions : Proper(draft[s]))

\* Each step writes and prepares only such commands.
LEMMA TargetsStayEdits == HistoryInv /\ TargetsAreEdits /\ [Next]_vars => TargetsAreEdits'
<1> SUFFICES ASSUME HistoryInv, TargetsAreEdits, [Next]_vars PROVE TargetsAreEdits'
  OBVIOUS
<1>1. draft \in [Sessions -> Drafts]
  BY DEF HistoryInv, TypeOK
<1>2. ASSUME log \subseteq log', NEW d, Proper(d) PROVE Proper(d)'
  BY <1>2 DEF Proper
<1>3. Proper(NoDraft)'
  BY DEF Proper, NoDraft, Touched, NoTracks
<1>4. ASSUME NEW s \in Sessions, NEW d, Proper(d), Prepare(s, d) PROVE TargetsAreEdits'
  <2>1. log' = log /\ \A v \in Sessions : draft'[v] = draft[v] \/ draft'[v] = d
    BY <1>1, <1>4 DEF Prepare
  <2> QED
    BY <1>2, <1>4, <2>1 DEF TargetsAreEdits, Proper
<1>5. ASSUME NEW s \in Sessions, PrepareEdit(s) \/ PrepareEvent(s) \/ PrepareInverse(s)
      PROVE  TargetsAreEdits'
  <2>1. CASE PrepareEdit(s)
    <3>1. PICK T \in SUBSET Tracks :
              \E after \in [T -> Values] :
                  Prepare(s, [kind |-> "edit", before |-> [t \in T |-> Current[t]],
                              after |-> after, target |-> 0])
      BY <2>1 DEF PrepareEdit
    <3>2. PICK after \in [T -> Values] :
              Prepare(s, [kind |-> "edit", before |-> [t \in T |-> Current[t]],
                          after |-> after, target |-> 0])
      BY <3>1
    <3> QED
      BY <1>4, <3>2 DEF Proper, Touched
  <2>2. CASE PrepareEvent(s)
    BY <1>4, <2>2 DEF PrepareEvent, Proper, NoDraft, Touched, NoTracks
  <2>3. CASE PrepareInverse(s)
    <3>1. PICK a \in log : \/ MayUndo(a) /\ Prepare(s, InversePayload(a, "undo", a.before))
                           \/ MayRedo(a) /\ Prepare(s, InversePayload(a, "redo", a.after))
      BY <2>3 DEF PrepareInverse
    <3>2. a.kind = "edit"
      BY <3>1 DEF MayUndo, MayRedo
    <3>3. \A kind \in {"undo", "redo"} : \A desired : Proper(InversePayload(a, kind, desired))
      BY <3>2 DEF Proper, InversePayload
    <3> QED
      BY <1>4, <3>1, <3>3
  <2> QED
    BY <1>5, <2>1, <2>2, <2>3
<1>6. ASSUME NEW s \in Sessions, Finish(s) PROVE \A v \in Sessions : draft'[v] = draft[v] \/ draft'[v] = NoDraft
  BY <1>1, <1>6 DEF Finish
<1>7. ASSUME NEW s \in Sessions, Reserve(s) PROVE TargetsAreEdits'
  <2>1. log' = log \cup {Row(expected[s] + 1, draft[s])} /\ Finish(s)
    BY <1>7 DEF Reserve
  <2>2. Proper(Row(expected[s] + 1, draft[s]))
    BY DEF TargetsAreEdits, Proper, Row, Touched
  <2> DEFINE row == Row(expected[s] + 1, draft[s])
  <2> HIDE DEF row
  <2>3. log \subseteq log' /\ \A b \in log' : b \in log \/ b = row
    BY <2>1 DEF row
  <2>4. \A b \in log' : Proper(b)'
    BY <1>2, <2>2, <2>3 DEF TargetsAreEdits, row
  <2> QED
    BY <1>2, <1>3, <1>6, <2>1, <2>3, <2>4 DEF TargetsAreEdits
<1>8. ASSUME NEW s \in Sessions, Begin(s) \/ Abandon(s) PROVE TargetsAreEdits'
  <2>1. log' = log /\ \A v \in Sessions : draft'[v] = draft[v] \/ draft'[v] = NoDraft
    BY <1>6, <1>8 DEF Begin, Abandon
  <2> QED
    BY <1>2, <1>3, <2>1 DEF TargetsAreEdits
<1>9. CASE UNCHANGED vars
  BY <1>9 DEF vars, TargetsAreEdits, Proper
<1> QED
  BY <1>5, <1>7, <1>8, <1>9 DEF Next

\* The action with a number, of which a log without gaps has one.
LEMMA ActionIs ==
    ASSUME HistoryInv, NEW n \in 1..revision
    PROVE  /\ ActionAt(n) \in log /\ ActionAt(n).revision = n
           /\ \A a \in log : a.revision = n => a = ActionAt(n)
<1>1. \E a \in log : a.revision = n
  BY DEF HistoryInv, LogIsGapFree
<1>2. ActionAt(n) \in log /\ ActionAt(n).revision = n
  BY <1>1 DEF ActionAt
<1> QED
  BY <1>2 DEF HistoryInv, LogIsGapFree

\* What is left of a list without a member.
IsRest(rest, stack, id) ==
    /\ rest \in Seq(Nat)
    /\ \A i \in 1..Len(rest) : rest[i] # id /\ \E j \in 1..Len(stack) : rest[i] = stack[j]
    /\ \A i, j \in 1..Len(rest) : rest[i] = rest[j] => i = j

\* One list after the other.
IsJoined(whole, s, t) ==
    /\ whole \in Seq(Nat) /\ Len(whole) = Len(s) + Len(t)
    /\ \A i \in 1..Len(s) : whole[i] = s[i]
    /\ \A i \in 1..Len(t) : whole[Len(s) + i] = t[i]

\* A concatenation has the members of both.
LEMMA Concatenation ==
    ASSUME NEW s \in Seq(Nat), NEW t \in Seq(Nat)
    PROVE  IsJoined(s \o t, s, t)
<1>1. s \o t \in Seq(Nat) /\ Len(s \o t) = Len(s) + Len(t)
  OBVIOUS
<1>2. \A i \in 1..Len(s) : (s \o t)[i] = s[i]
  OBVIOUS
<1>3. ASSUME NEW i \in 1..Len(t) PROVE (s \o t)[Len(s) + i] = t[i]
  <2>1. Len(s) \in Nat /\ Len(t) \in Nat /\ i \in Nat
    OBVIOUS
  <2> DEFINE k == Len(s) + i
  <2>2. k \in 1..(Len(s) + Len(t)) /\ ~(k <= Len(s)) /\ k - Len(s) = i
    BY <2>1
  <2>3. (s \o t)[k] = t[k - Len(s)]
    BY <2>2
  <2> QED
    BY <2>2, <2>3
<1> QED
  BY <1>1, <1>2, <1>3 DEF IsJoined

\* Taking the last occurrence of a member from a list that has none twice.
LEMMA WithoutHas ==
    ASSUME NEW stack \in Seq(Nat), NEW id,
           \A i, j \in 1..Len(stack) : stack[i] = stack[j] => i = j,
           NEW rest, rest = Without(stack, id)
    PROVE  IsRest(rest, stack, id)
<1> DEFINE I == {i \in 1..Len(stack) : stack[i] = id}
<1>1. CASE I = {}
  <2>1. rest = stack
    BY <1>1 DEF Without, SelectLastInSeq
  <2> QED
    BY <1>1, <2>1 DEF IsRest
<1>2. CASE I # {}
  <2>1. PICK k \in 1..Len(stack) : stack[k] = id
    BY <1>2
  <2>2. I = {k} /\ k \in Nat \ {0} /\ Len(stack) \in Nat /\ k <= Len(stack)
    BY <2>1
  <2>3. Max(I) = k
    BY <2>2 DEF Max
  <2> DEFINE left == SubSeq(stack, 1, k - 1)
             right == SubSeq(stack, k + 1, Len(stack))
             n == Len(stack)
             At(i) == IF i < k THEN i ELSE i + 1
  <2>4. rest = left \o right
    <3>1. SelectLastInSeq(stack, LAMBDA x : x = id) = k
      BY <1>2, <2>3 DEF SelectLastInSeq
    <3> QED
      BY <2>2, <3>1 DEF Without, RemoveAt
  <2>5. /\ left \in Seq(Nat) /\ Len(left) = k - 1
        /\ \A i \in 1..(k - 1) : left[i] = stack[i]
    BY <2>2
  <2>6. /\ right \in Seq(Nat) /\ Len(right) = n - k
        /\ \A i \in 1..(n - k) : right[i] = stack[k + i]
    BY <2>2
  <2> HIDE DEF left, right, I
  <2>7. /\ rest \in Seq(Nat) /\ Len(rest) = Len(left) + Len(right)
        /\ \A i \in 1..Len(left) : rest[i] = left[i]
        /\ \A i \in 1..Len(right) : rest[Len(left) + i] = right[i]
    <3>1. left \in Seq(Nat) /\ right \in Seq(Nat)
      BY <2>5, <2>6
    <3>2. IsJoined(left \o right, left, right)
      BY <3>1, Concatenation
    <3>3. IsJoined(rest, left, right)
      BY <3>2, <2>4
    <3> QED
      BY <3>3 DEF IsJoined
  <2>8. k \in Nat \ {0} /\ n \in Nat /\ k <= n
    BY <2>2
  <2> HIDE DEF n
  <2>9. Len(rest) = n - 1 /\ n - 1 \in Nat
    BY <2>5, <2>6, <2>7, <2>8
  <2>10. ASSUME NEW i \in 1..(n - 1)
         PROVE  At(i) \in 1..n /\ At(i) # k /\ rest[i] = stack[At(i)]
    <3>1. CASE i < k
      <4>1. i \in 1..(k - 1) /\ i \in 1..n
        BY <2>8, <3>1
      <4>2. rest[i] = left[i] /\ left[i] = stack[i]
        BY <2>5, <2>7, <4>1
      <4>3. At(i) = i /\ i # k
        BY <2>8, <3>1
      <4> QED
        BY <4>1, <4>2, <4>3
    <3>2. CASE ~(i < k)
      <4> DEFINE l == i - (k - 1)
      <4>1. l \in 1..(n - k) /\ k + l = i + 1 /\ (k - 1) + l = i /\ i + 1 \in 1..n /\ i + 1 # k
        BY <2>8, <3>2
      <4> HIDE DEF l
      <4>2. rest[i] = right[l]
        BY <2>5, <2>6, <2>7, <4>1
      <4>3. right[l] = stack[i + 1]
        BY <2>6, <4>1
      <4> QED
        BY <3>2, <4>1, <4>2, <4>3
    <3> QED
      BY <3>1, <3>2
  <2>11. \A i, j \in 1..(n - 1) : At(i) = At(j) => i = j
    BY <2>8
  <2>12. \A i, j \in 1..n : stack[i] = stack[j] => i = j
    BY DEF n
  <2> HIDE DEF At
  <2>13. \A i \in 1..(n - 1) : stack[At(i)] # id
    BY <2>1, <2>10, <2>12 DEF n
  <2>14. \A i, j \in 1..(n - 1) : rest[i] = rest[j] => i = j
    BY <2>10, <2>11, <2>12
  <2>15. \A i \in 1..(n - 1) : rest[i] # id /\ \E j \in 1..n : rest[i] = stack[j]
    BY <2>10, <2>13
  <2> QED
    BY <2>7, <2>9, <2>14, <2>15 DEF IsRest, n
<1> QED
  BY <1>1, <1>2

-----------------------------------------------------------------------------
\* After n actions the edit with number x is undone, and nothing since could have
\* touched it but an undo or redo of another.
Undone(x, n) ==
    /\ x \in 1..n /\ ActionAt(x).kind = "edit"
    /\ \E b \in log :
           /\ b.revision <= n /\ b.target = x /\ b.kind = "undo"
           /\ \A c \in log : b.revision < c.revision /\ c.revision <= n
                              => c.kind # "edit" /\ c.target # x

\* What the stack holds after n actions.
IsRedoStack(stack, n) ==
    /\ stack \in Seq(Nat)
    /\ \A i \in 1..Len(stack) : Undone(stack[i], n)
    /\ \A i, j \in 1..Len(stack) : stack[i] = stack[j] => i = j

\* Nobody undoes what is undone.
LEMMA UndoneOnce ==
    ASSUME HistoryInv, InverseInv, NEW n \in 1..revision, NEW x, Undone(x, n - 1),
           ActionAt(n).kind = "undo"
    PROVE  ActionAt(n).target # x
<1> SUFFICES ASSUME ActionAt(n).target = x PROVE FALSE
  OBVIOUS
<1> DEFINE u == ActionAt(n)
           a == ActionAt(x)
           earlier == {c \in Inverses(a) : c.revision < u.revision}
<1>1. x \in 1..revision /\ n \in Nat /\ revision \in Nat
  BY DEF Undone, HistoryInv, TypeOK
<1>2. u \in log /\ u.revision = n /\ a \in log /\ a.revision = x
  BY <1>1, ActionIs
<1>3. PICK b \in log : /\ b.revision <= n - 1 /\ b.target = x /\ b.kind = "undo"
                       /\ \A c \in log : b.revision < c.revision /\ c.revision <= n - 1 => c.target # x
  BY DEF Undone
<1>4. \A c \in log : c.revision \in Nat
  BY LogType DEF HistoryInv
<1>5. b \in earlier /\ u \in Inverses(a)
  BY <1>1, <1>2, <1>3, <1>4 DEF Inverses
<1>6. Newest(earlier).kind = "redo"
  <2>1. \A d \in Inverses(a) : d.kind = "undo" <=>
            LET before == {c \in Inverses(a) : c.revision < d.revision}
            IN  before = {} \/ Newest(before).kind = "redo"
    BY <1>2 DEF InverseInv, InversesAlternate
  <2>2. u.kind = "undo"
    OBVIOUS
  <2> HIDE DEF u, a
  <2> QED
    BY <1>5, <2>1, <2>2
<1>7. Newest(earlier) \in earlier /\ \A c \in earlier : c.revision <= Newest(earlier).revision
  <2>1. earlier \in SUBSET log
    BY DEF Inverses
  <2> HIDE DEF earlier
  <2> QED
    BY <1>5, <2>1, NewestOf DEF InverseInv
<1> DEFINE e == Newest(earlier)
<1>8. e \in log /\ e.target = x /\ e.revision <= n - 1 /\ b.revision <= e.revision
  <2> HIDE DEF u, a
  <2>1. e \in Inverses(a) /\ e.revision < u.revision
    BY <1>7
  <2>2. b.revision <= e.revision
    BY <1>5, <1>7
  <2> HIDE DEF e, earlier
  <2> QED
    BY <1>1, <1>2, <1>4, <2>1, <2>2 DEF Inverses
<1> HIDE DEF e
<1>9. e.revision = b.revision
  BY <1>3, <1>4, <1>8
<1>10. e = b
  BY <1>8, <1>9 DEF HistoryInv, LogIsGapFree
<1> QED
  BY <1>3, <1>6, <1>10 DEF e

\* What is undone stays so, but for an edit or its own redo.
LEMMA UndoneStays ==
    ASSUME HistoryInv, NEW n \in 1..revision, NEW x, Undone(x, n - 1),
           ActionAt(n).kind # "edit", ActionAt(n).target # x
    PROVE  Undone(x, n)
<1>1. n \in Nat /\ \A c \in log : c.revision \in Nat
  BY LogType DEF HistoryInv, TypeOK
<1>2. PICK b \in log : /\ b.revision <= n - 1 /\ b.target = x /\ b.kind = "undo"
                       /\ \A c \in log : b.revision < c.revision /\ c.revision <= n - 1
                              => c.kind # "edit" /\ c.target # x
  BY DEF Undone
<1>3. \A c \in log : b.revision < c.revision /\ c.revision <= n => c.kind # "edit" /\ c.target # x
  <2> TAKE c \in log
  <2>1. CASE c.revision = n
    BY <2>1, ActionIs
  <2>2. CASE c.revision # n
    BY <1>1, <1>2, <2>2
  <2> QED
    BY <2>1, <2>2
<1>4. x \in 1..n /\ ActionAt(x).kind = "edit" /\ b.revision <= n
  BY <1>1, <1>2 DEF Undone
<1> QED
  BY <1>2, <1>3, <1>4 DEF Undone

\* Each of the four kinds of action leaves the stack so.
LEMMA PushKeeps ==
    ASSUME HistoryInv, InverseInv, TargetsAreEdits, NEW n \in 1..revision,
           NEW stacks, IsRedoStack(stacks.redo, n - 1),
           NEW redo, redo = Push(stacks, ActionAt(n)).redo
    PROVE  IsRedoStack(redo, n)
<1> DEFINE u == ActionAt(n)
           x == u.target
           old == stacks.redo
<1>1. u \in log /\ u.revision = n /\ Proper(u) /\ u.kind \in Kinds /\ n \in Nat /\ revision \in Nat
  BY ActionIs DEF TargetsAreEdits, HistoryInv, TypeOK, Actions
<1>2. /\ old \in Seq(Nat) /\ Len(old) \in Nat /\ \A i \in 1..Len(old) : Undone(old[i], n - 1)
      /\ \A i, j \in 1..Len(old) : old[i] = old[j] => i = j
  BY DEF IsRedoStack
<1>3. \A y : Undone(y, n - 1) /\ u.kind # "edit" /\ y # x => Undone(y, n)
  BY UndoneStays
<1>4. CASE u.kind = "undo"
  <2>1. redo = Append(old, x)
    BY <1>4 DEF Push
  <2>2. \A i \in 1..Len(old) : Undone(old[i], n) /\ old[i] # x
    BY <1>2, <1>3, <1>4, UndoneOnce
  <2>3. Undone(x, n)
    <3>1. x # 0
      <4>1. PICK a \in log : a.revision = x
        BY <1>1, <1>4 DEF Proper
      <4> QED
        BY <4>1, LogType DEF HistoryInv
    <3>2. PICK a \in log : x = a.revision /\ a.revision < u.revision
      BY <1>1, <3>1 DEF InverseInv, InversesFollow
    <3>3. x \in 1..n /\ x \in 1..revision
      BY <1>1, <3>2, LogType DEF HistoryInv
    <3>4. a = ActionAt(x)
      BY <3>2, <3>3, ActionIs
    <3>5. ActionAt(x).kind = "edit"
      <4>1. PICK e \in log : e.kind = "edit" /\ e.revision = x
        BY <1>1, <1>4 DEF Proper
      <4> QED
        BY <3>3, <4>1, ActionIs
    <3>6. \A c \in log : ~(u.revision < c.revision /\ c.revision <= n)
      BY <1>1, LogType DEF HistoryInv
    <3> HIDE DEF x
    <3> QED
      BY <1>1, <1>4, <3>3, <3>5, <3>6 DEF Undone, x
  <2>4. x \in Nat
    BY <2>3 DEF Undone
  <2> HIDE DEF old, x, u
  <2>5. /\ redo \in Seq(Nat) /\ Len(redo) = Len(old) + 1 /\ redo[Len(old) + 1] = x
        /\ \A i \in 1..Len(old) : redo[i] = old[i]
    BY <1>2, <2>1, <2>4
  <2>6. \A i \in 1..Len(redo) : i \in 1..Len(old) \/ i = Len(old) + 1
    BY <1>2, <2>5
  <2> QED
    <3>1. \A i \in 1..Len(redo) : Undone(redo[i], n)
      BY <2>2, <2>3, <2>5, <2>6
    <3>2. ASSUME NEW i \in 1..Len(redo), NEW j \in 1..Len(redo), redo[i] = redo[j] PROVE i = j
      <4>1. CASE i \in 1..Len(old) /\ j \in 1..Len(old)
        BY <1>2, <2>5, <3>2, <4>1
      <4>2. CASE i \in 1..Len(old) /\ j = Len(old) + 1
        BY <2>2, <2>5, <3>2, <4>2
      <4>3. CASE j \in 1..Len(old) /\ i = Len(old) + 1
        BY <2>2, <2>5, <3>2, <4>3
      <4> QED
        BY <2>6, <4>1, <4>2, <4>3
    <3> QED
      BY <2>5, <3>1, <3>2 DEF IsRedoStack
<1>5. CASE u.kind = "redo"
  <2>1. redo = Without(old, x)
    BY <1>5 DEF Push
  <2> HIDE DEF u, x, old
  <2>2. IsRest(redo, old, x)
    BY <1>2, <2>1, WithoutHas
  <2> QED
    BY <1>2, <1>3, <1>5, <2>2 DEF IsRedoStack, IsRest
<1>6. CASE u.kind = "edit"
  <2>1. redo = <<>>
    BY <1>6 DEF Push, ClearRedo
  <2> QED
    BY <2>1 DEF IsRedoStack
<1>7. CASE u.kind = "event"
  <2>1. redo = old
    BY <1>7 DEF Push
  <2>2. x = 0 /\ \A i \in 1..Len(old) : old[i] # 0
    BY <1>1, <1>2, <1>7 DEF Proper, Undone
  <2> QED
    BY <1>2, <1>3, <1>7, <2>1, <2>2 DEF IsRedoStack
<1> QED
  BY <1>1, <1>4, <1>5, <1>6, <1>7 DEF Kinds

\* g computes the stacks of the first k actions.
Builds(g, k) ==
    \A n \in 0..k : g[n] = IF n = 0 THEN EmptyStacks ELSE Push(g[n - 1], ActionAt(n))

\* There is a function that does, or there would be a least k without one; so the
\* recursive definition has the value it says.
Built ==
    revision \in Nat =>
        \A n \in 0..revision :
            StacksAfter[n] = IF n = 0 THEN EmptyStacks ELSE Push(StacksAfter[n - 1], ActionAt(n))

LEMMA StacksAreBuilt == Built
<1> SUFFICES ASSUME revision \in Nat
             PROVE  \A n \in 0..revision :
                        StacksAfter[n] = IF n = 0 THEN EmptyStacks
                                         ELSE Push(StacksAfter[n - 1], ActionAt(n))
  BY DEF Built
<1> DEFINE T == {k \in 0..revision : ~\E g : Builds(g, k)}
<1>1. T = {}
  <2> SUFFICES ASSUME T # {} PROVE FALSE
    OBVIOUS
  <2>1. PICK k \in T : \A j \in T : k <= j
    <3>1. T \in SUBSET Nat
      OBVIOUS
    <3> HIDE DEF T
    <3> QED
      BY <3>1, LeastNatural
  <2>2. k \in Nat /\ k <= revision /\ ~\E g : Builds(g, k)
    BY <2>1
  <2>3. CASE k = 0
    <3> DEFINE g == [n \in {0} |-> EmptyStacks]
    <3>1. Builds(g, 0)
      BY DEF Builds
    <3> QED
      BY <2>2, <2>3, <3>1
  <2>4. CASE k # 0
    <3>1. k - 1 \in 0..revision /\ ~(k <= k - 1)
      BY <2>2, <2>4
    <3>2. PICK g : Builds(g, k - 1)
      BY <2>1, <3>1
    <3> DEFINE h == [n \in 0..k |-> IF n = k THEN Push(g[k - 1], ActionAt(k)) ELSE g[n]]
    <3>3. h[k] = Push(g[k - 1], ActionAt(k)) /\ \A n \in 0..(k - 1) : h[n] = g[n]
      BY <2>2, <2>4
    <3> HIDE DEF h
    <3>4. ASSUME NEW n \in 0..k
          PROVE  h[n] = IF n = 0 THEN EmptyStacks ELSE Push(h[n - 1], ActionAt(n))
      <4>1. CASE n = k
        <5>1. h[k - 1] = g[k - 1]
          BY <2>2, <2>4, <3>3
        <5> QED
          BY <2>4, <3>3, <4>1, <5>1
      <4>2. CASE n # k
        <5>1. n \in 0..(k - 1) /\ (n # 0 => n - 1 \in 0..(k - 1))
          BY <2>2, <4>2
        <5>2. g[n] = IF n = 0 THEN EmptyStacks ELSE Push(g[n - 1], ActionAt(n))
          BY <3>2, <5>1 DEF Builds
        <5> QED
          BY <3>3, <5>1, <5>2
      <4> QED
        BY <4>1, <4>2
    <3>5. Builds(h, k)
      BY <3>4 DEF Builds
    <3> QED
      BY <2>2, <3>5
  <2> QED
    BY <2>3, <2>4
<1>2. PICK g : Builds(g, revision)
  BY <1>1
<1> DEFINE f == [n \in 0..revision |-> g[n]]
<1>3. f = [n \in 0..revision |-> IF n = 0 THEN EmptyStacks ELSE Push(f[n - 1], ActionAt(n))]
  <2>1. ASSUME NEW n \in 0..revision
        PROVE  f[n] = IF n = 0 THEN EmptyStacks ELSE Push(f[n - 1], ActionAt(n))
    <3>1. g[n] = IF n = 0 THEN EmptyStacks ELSE Push(g[n - 1], ActionAt(n))
      BY <1>2 DEF Builds
    <3>2. f[n] = g[n] /\ (n # 0 => f[n - 1] = g[n - 1])
      <4>1. n # 0 => n - 1 \in 0..revision
        OBVIOUS
      <4> QED
        BY <4>1
    <3> HIDE DEF f
    <3> QED
      BY <3>1, <3>2
  <2>2. f = [n \in 0..revision |-> f[n]]
    OBVIOUS
  <2> HIDE DEF f
  <2> QED
    BY <2>1, <2>2
<1> HIDE DEF f
<1>4. StacksAfter = [n \in 0..revision |-> IF n = 0 THEN EmptyStacks ELSE Push(StacksAfter[n - 1], ActionAt(n))]
  BY <1>3 DEF StacksAfter
<1> DEFINE Rule(n) == IF n = 0 THEN EmptyStacks ELSE Push(StacksAfter[n - 1], ActionAt(n))
<1>5. StacksAfter = [n \in 0..revision |-> Rule(n)]
  BY <1>4
<1> HIDE DEF Rule
<1>6. \A n \in 0..revision : StacksAfter[n] = Rule(n)
  BY <1>5
<1> QED
  BY <1>6 DEF Rule

\* Along the log, or there would be a first action after which it is not.
LEMMA RedoStackIsUndone ==
    ASSUME HistoryInv, InverseInv, TargetsAreEdits
    PROVE  IsRedoStack(StacksAfter[revision].redo, revision)
<1> DEFINE T == {n \in 0..revision : ~IsRedoStack(StacksAfter[n].redo, n)}
<1>1. revision \in Nat
  BY DEF HistoryInv, TypeOK
<1>2. T = {}
  <2> SUFFICES ASSUME T # {} PROVE FALSE
    OBVIOUS
  <2>1. PICK n \in T : \A j \in T : n <= j
    <3>1. T \in SUBSET Nat
      BY <1>1
    <3> HIDE DEF T
    <3> QED
      BY <3>1, LeastNatural
  <2>2. n \in 0..revision /\ ~IsRedoStack(StacksAfter[n].redo, n)
    BY <2>1
  <2>3. CASE n = 0
    <3>1. StacksAfter[0] = EmptyStacks
      BY <1>1, <2>2, <2>3, StacksAreBuilt DEF Built
    <3>2. IsRedoStack(EmptyStacks.redo, 0)
      BY DEF IsRedoStack, EmptyStacks
    <3> QED
      BY <2>2, <2>3, <3>1, <3>2
  <2>4. CASE n # 0
    <3>1. n \in 1..revision /\ n - 1 \in 0..revision /\ ~(n <= n - 1)
      BY <1>1, <2>2, <2>4
    <3>2. IsRedoStack(StacksAfter[n - 1].redo, n - 1)
      BY <2>1, <3>1
    <3>3. StacksAfter[n] = Push(StacksAfter[n - 1], ActionAt(n))
      BY <1>1, <2>2, <2>4, StacksAreBuilt DEF Built
    <3> QED
      BY <2>2, <3>1, <3>2, <3>3, PushKeeps
  <2> QED
    BY <2>3, <2>4
<1> QED
  BY <1>1, <1>2

\* Whatever touched the tracks of an undone action since is one of its inverses:
\* another would have taken an edit away, or have been an edit.
LEMMA UndoneIsUntouched ==
    ASSUME HistoryInv, InverseInv, TargetsAreEdits, NEW x, Undone(x, revision)
    PROVE  MayRedo(ActionAt(x))
<1> DEFINE a == ActionAt(x)
<1>1. x \in 1..revision /\ a \in log /\ a.revision = x /\ a.kind = "edit" /\ revision \in Nat
  BY ActionIs DEF Undone, HistoryInv, TypeOK
<1>2. PICK u \in log : /\ u.revision <= revision /\ u.target = x /\ u.kind = "undo"
                       /\ \A c \in log : u.revision < c.revision /\ c.revision <= revision
                              => c.kind # "edit" /\ c.target # x
  BY DEF Undone
<1> HIDE DEF a
<1>3. /\ \A c \in log : c.revision \in 1..revision
      /\ \A b, c \in log : b.revision = c.revision => b = c
  BY DEF HistoryInv, LogIsGapFree
<1>4. \A b \in log : b.target # 0 => \E e \in log : /\ b.target = e.revision /\ e.revision < b.revision
                                                     /\ Touched(b) = Touched(e)
  BY DEF InverseInv, InversesFollow
<1>5. u \in Inverses(a) /\ \A b \in Inverses(a) : b.revision <= u.revision
  BY <1>1, <1>2, <1>3 DEF Inverses
<1>6. Newest(Inverses(a)) = u
  <2>1. \A b \in Inverses(a) : b \in log /\ b.revision \in Nat
    BY <1>3 DEF Inverses
  <2>2. \A b, c \in Inverses(a) : b.revision = c.revision => b = c
    BY <1>3, <2>1
  <2> QED
    BY <1>5, <2>1, <2>2, NewestIs
<1>7. Touched(u) = Touched(a) /\ a.revision < u.revision
  BY <1>1, <1>2, <1>3, <1>4
<1>8. ASSUME NEW c \in log, a.revision < c.revision, Touched(c) \cap Touched(a) # {}
      PROVE  c.revision <= u.revision
  <2> SUFFICES ASSUME u.revision < c.revision PROVE FALSE
    BY <1>2, <1>3
  <2>1. c.kind # "edit" /\ c.target # x
    BY <1>2, <1>3
  <2>2. Proper(c) /\ c.kind \in Kinds
    BY DEF TargetsAreEdits, HistoryInv, TypeOK, Actions
  <2>3. c.kind \in {"undo", "redo"}
    BY <1>8, <2>1, <2>2 DEF Proper, Kinds
  <2>4. PICK e \in log : e.kind = "edit" /\ e.revision = c.target
    BY <2>2, <2>3 DEF Proper
  <2>5. e.revision < c.revision /\ Touched(c) = Touched(e) /\ e.revision \in Nat \ {0}
    BY <1>3, <1>4, <2>4
  <2>6. e.target = 0 /\ a.target = 0
    BY <1>1, <2>4 DEF TargetsAreEdits, Proper
  <2>7. CASE u.revision < e.revision
    BY <1>2, <1>3, <2>4, <2>7
  <2>8. CASE e.revision = u.revision
    BY <1>2, <1>3, <2>4, <2>8
  <2>9. CASE a.revision < e.revision /\ e.revision < u.revision
    <3>1. e.target = a.revision
      BY <1>1, <1>2, <1>8, <2>4, <2>5, <2>9 DEF InverseInv, NoEditIsLost
    <3> QED
      BY <1>1, <2>6, <3>1
  <2>10. CASE e.revision < a.revision
    <3>1. a.target = e.revision
      BY <1>1, <1>8, <2>4, <2>5, <2>10 DEF InverseInv, NoEditIsLost
    <3> QED
      BY <2>5, <2>6, <3>1
  <2>11. e.revision # a.revision
    BY <1>1, <2>1, <2>4
  <2>12. a.revision \in Nat /\ u.revision \in Nat /\ e.revision \in Nat
    BY <1>1, <1>3, <2>4
  <2> QED
    BY <2>7, <2>8, <2>9, <2>10, <2>11, <2>12
<1>9. Untouched(a)
  <2> SUFFICES ASSUME LaterTouches(a) # {} PROVE Newest(LaterTouches(a)) = u
    BY <1>5, <1>6 DEF Untouched
  <2>1. u \in LaterTouches(a)
    BY <1>2, <1>7 DEF LaterTouches
  <2>2. \A c \in LaterTouches(a) : c \in log /\ c.revision \in Nat /\ c.revision <= u.revision
    BY <1>3, <1>8 DEF LaterTouches
  <2> QED
    BY <1>3, <2>1, <2>2, NewestIs
<1>10. IsUndone(a)
  BY <1>2, <1>5, <1>6 DEF IsUndone
<1>11. Matches(a.before)
  <2> SUFFICES ASSUME NEW t \in DOMAIN a.before PROVE Current[t] = a.before[t]
    BY DEF Matches
  <2>1. PICK e \in log : u.target = e.revision /\ u.after = e.before
    BY <1>1, <1>2 DEF InverseInv, InversesFollow
  <2>2. e = a
    BY <1>1, <1>2, <1>3, <2>1
  <2>3. t \in DOMAIN u.after /\ t \in Tracks /\ t \in Touched(a)
    BY <1>1, <2>1, <2>2, LogType, PayloadType DEF HistoryInv, Touched
  <2>4. u \in Touching(revision, t)
    BY <1>2, <2>3 DEF Touching
  <2>5. \A b \in Touching(revision, t) : b.revision <= u.revision
    <3> TAKE b \in Touching(revision, t)
    <3>1. b \in log /\ t \in Touched(b)
      BY DEF Touching, Touched
    <3>2. a.revision < b.revision => b.revision <= u.revision
      BY <1>8, <2>3, <3>1
    <3> QED
      BY <1>1, <1>2, <1>3, <1>7, <3>1, <3>2
  <2>6. Newest(Touching(revision, t)) = u
    BY <2>4, <2>5, NewestTouching DEF HistoryInv
  <2>7. Current[t] = u.after[t]
    BY <2>3, <2>4, <2>6, SnapshotIs, CurrentIsLatest DEF HistoryInv
  <2> QED
    BY <2>1, <2>2, <2>7
<1> QED
  BY <1>1, <1>9, <1>10, <1>11 DEF MayRedo, a

-----------------------------------------------------------------------------
(* The log under the workspaces: it only grows, so that what was rebuilt   *)
(* from it once is what would be rebuilt later.                            *)

Grown ==
    /\ revision' \in Nat /\ revision <= revision'
    /\ \A a \in log : a \in log'
    /\ \A a \in log' : a \in log \/ (a.revision = revision + 1 /\ revision' = revision + 1)
    /\ \A n \in 1..revision : ActionAt(n)' = ActionAt(n)

LEMMA LogGrows == HistoryInv /\ HistoryInv' /\ [Next]_vars => Grown
<1> SUFFICES ASSUME HistoryInv, HistoryInv', [Next]_vars PROVE Grown
  OBVIOUS
<1>1. revision \in Nat /\ revision' \in Nat
  BY DEF HistoryInv, TypeOK
<1> DEFINE Longer ==
        /\ revision <= revision' /\ \A a \in log : a \in log'
        /\ \A a \in log' : a \in log \/ (a.revision = revision + 1 /\ revision' = revision + 1)
<1>2. Longer
  <2>1. CASE UNCHANGED vars
    BY <1>1, <2>1 DEF vars
  <2>2. ASSUME NEW s \in Sessions, Reserve(s) PROVE Longer
    BY <1>1, <2>2, ReservedRow
  <2>3. ASSUME NEW s \in Sessions,
               Begin(s) \/ PrepareEdit(s) \/ PrepareEvent(s) \/ PrepareInverse(s) \/ Abandon(s)
        PROVE  Longer
    <3>1. revision' = revision /\ log' = log
      BY <2>3 DEF Begin, PrepareEdit, PrepareEvent, PrepareInverse, Prepare, Abandon
    <3> QED
      BY <1>1, <3>1
  <2> QED
    BY <2>1, <2>2, <2>3 DEF Next
<1>3. ASSUME NEW n \in 1..revision PROVE ActionAt(n)' = ActionAt(n)
  <2>1. ActionAt(n) \in log' /\ ActionAt(n).revision = n
    BY <1>2, ActionIs
  <2>2. \A a, b \in log' : a.revision = b.revision => a = b
    BY DEF HistoryInv, LogIsGapFree
  <2>3. ActionAt(n)' \in log' /\ (ActionAt(n)').revision = n
    BY <2>1 DEF ActionAt
  <2> QED
    BY <2>1, <2>2, <2>3
<1> QED
  BY <1>1, <1>2, <1>3 DEF Grown

\* So are the stacks of its first n actions.
LEMMA StacksKeep ==
    ASSUME revision \in Nat, Grown
    PROVE  \A n \in 0..revision : (StacksAfter')[n] = StacksAfter[n]
<1> DEFINE T == {n \in 0..revision : (StacksAfter')[n] # StacksAfter[n]}
<1>1. Built'
  BY StacksAreBuilt, PTL
<1>2. \A n \in 0..revision : StacksAfter[n] = IF n = 0 THEN EmptyStacks
                                               ELSE Push(StacksAfter[n - 1], ActionAt(n))
  BY StacksAreBuilt DEF Built
<1>3. \A n \in 0..revision : (StacksAfter')[n] = IF n = 0 THEN EmptyStacks
                                                  ELSE Push((StacksAfter')[n - 1], ActionAt(n))
  <2>1. \A n \in 0..revision' : (StacksAfter')[n] = IF n = 0 THEN EmptyStacks
                                        ELSE Push((StacksAfter')[n - 1], ActionAt(n)')
    BY <1>1 DEF Built, Grown, EmptyStacks, Push, Without, ClearRedo, SelectLastInSeq
  <2>2. \A n \in 0..revision : n \in 0..revision' /\ (n # 0 => ActionAt(n)' = ActionAt(n))
    BY DEF Grown
  <2> QED
    BY <2>1, <2>2
<1>4. T = {}
  <2> SUFFICES ASSUME T # {} PROVE FALSE
    OBVIOUS
  <2>1. PICK n \in T : \A j \in T : n <= j
    <3>1. T \in SUBSET Nat
      OBVIOUS
    <3> HIDE DEF T
    <3> QED
      BY <3>1, LeastNatural
  <2>2. n \in 0..revision /\ (StacksAfter')[n] # StacksAfter[n]
    BY <2>1
  <2>3. CASE n = 0
    BY <1>2, <1>3, <2>2, <2>3
  <2>4. CASE n # 0
    <3>1. n - 1 \in 0..revision /\ ~(n <= n - 1)
      BY <2>2, <2>4
    <3>2. (StacksAfter')[n - 1] = StacksAfter[n - 1]
      BY <2>1, <3>1
    <3> QED
      BY <1>2, <1>3, <2>2, <2>4, <3>2
  <2> QED
    BY <2>3, <2>4
<1> QED
  BY <1>4

\* Events move no stack.
LEMMA EventsMoveNothing ==
    ASSUME HistoryInv, NEW m \in 0..revision, NEW n \in m..revision, ~ChangeBetween(m, n)
    PROVE  StacksAfter[n] = StacksAfter[m]
<1> DEFINE T == {k \in m..n : StacksAfter[k] # StacksAfter[m]}
<1>1. revision \in Nat /\ m \in Nat /\ n \in Nat /\ m <= n /\ n <= revision
  BY DEF HistoryInv, TypeOK
<1>2. T = {}
  <2> SUFFICES ASSUME T # {} PROVE FALSE
    OBVIOUS
  <2>1. PICK k \in T : \A j \in T : k <= j
    <3>1. T \in SUBSET Nat
      BY <1>1
    <3> HIDE DEF T
    <3> QED
      BY <3>1, LeastNatural
  <2>2. k \in m..n /\ StacksAfter[k] # StacksAfter[m] /\ k # m
    BY <2>1
  <2>3. k \in 1..revision /\ k \in 0..revision /\ k # 0 /\ k - 1 \in m..n /\ ~(k <= k - 1) /\ m < k /\ k <= n
    BY <1>1, <2>2
  <2>4. StacksAfter[k - 1] = StacksAfter[m]
    BY <2>1, <2>3
  <2>5. StacksAfter[k] = Push(StacksAfter[k - 1], ActionAt(k))
    BY <1>1, <2>3, StacksAreBuilt DEF Built
  <2>6. ActionAt(k).kind = "event"
    BY <2>3, ActionIs DEF ChangeBetween
  <2>7. StacksAfter[k] = StacksAfter[k - 1]
    BY <2>5, <2>6 DEF Push
  <2> QED
    BY <2>2, <2>4, <2>7
<1> QED
  BY <1>1, <1>2

-----------------------------------------------------------------------------
(* What the stacks hold.                                                   *)

AreStacks(stacks) == stacks \in [undo : Seq(Edits), redo : Seq(Edits)]

\* Taking the last occurrence of what is last is taking the end.
LEMMA WithoutLast ==
    ASSUME NEW S, NEW stack \in Seq(S), stack # <<>>
    PROVE  Without(stack, Last(stack)) = Front(stack)
<1> DEFINE n == Len(stack)
           I == {i \in 1..n : stack[i] = Last(stack)}
<1>1. n \in Nat \ {0} /\ n \in I /\ \A i \in I : i \in Nat /\ i <= n
  BY DEF Last
<1>2. Max(I) = n
  BY <1>1 DEF Max
<1>3. SelectLastInSeq(stack, LAMBDA x : x = Last(stack)) = n
  BY <1>1, <1>2 DEF SelectLastInSeq
<1>4. Without(stack, Last(stack)) = SubSeq(stack, 1, n - 1) \o SubSeq(stack, n + 1, n)
  BY <1>1, <1>3 DEF Without, RemoveAt
<1>5. SubSeq(stack, n + 1, n) = <<>> /\ SubSeq(stack, 1, n - 1) \in Seq(S)
  BY <1>1
<1> HIDE DEF n, I
<1>6. SubSeq(stack, 1, n - 1) \o <<>> = SubSeq(stack, 1, n - 1)
  BY <1>5
<1> QED
  BY <1>4, <1>5, <1>6 DEF Front, n

\* Taking a member from a list leaves a list of the same kind.
LEMMA WithoutType ==
    ASSUME NEW S, NEW stack \in Seq(S), NEW id
    PROVE  Without(stack, id) \in Seq(S)
<1> DEFINE I == {i \in 1..Len(stack) : stack[i] = id}
           k == SelectLastInSeq(stack, LAMBDA x : x = id)
<1>1. Len(stack) \in Nat
  OBVIOUS
<1>2. k = 0 \/ k \in 1..Len(stack)
  <2>1. CASE I = {}
    BY <2>1 DEF SelectLastInSeq
  <2>2. CASE I # {}
    <3>1. k = Max(I)
      BY <2>2 DEF SelectLastInSeq
    <3>2. PICK m \in I : \A i \in I : i <= m
      <4> DEFINE J == {Len(stack) - i : i \in I}
      <4>1. J \in SUBSET Nat /\ J # {}
        BY <1>1, <2>2
      <4> HIDE DEF J
      <4>2. PICK j \in J : \A i \in J : j <= i
        BY <4>1, LeastNatural
      <4>3. PICK m \in I : j = Len(stack) - m
        BY DEF J
      <4>4. ASSUME NEW i \in I PROVE i <= m
        <5>1. Len(stack) - i \in J
          BY DEF J
        <5>2. Len(stack) - m <= Len(stack) - i
          BY <4>2, <4>3, <5>1
        <5> QED
          BY <1>1, <5>2
      <4> QED
        BY <4>4
    <3>3. Max(I) \in I
      BY <3>2 DEF Max
    <3> QED
      BY <3>1, <3>3
  <2> QED
    BY <2>1, <2>2
<1> HIDE DEF k
<1>3. CASE k = 0
  BY <1>3 DEF Without, k
<1>4. CASE k \in 1..Len(stack)
  <2>1. Without(stack, id) = SubSeq(stack, 1, k - 1) \o SubSeq(stack, k + 1, Len(stack))
    <3>1. k # 0
      BY <1>1, <1>4
    <3>2. Without(stack, id) = RemoveAt(stack, k)
      BY <3>1 DEF Without, k
    <3> QED
      BY <3>2 DEF RemoveAt
  <2>2. SubSeq(stack, 1, k - 1) \in Seq(S) /\ SubSeq(stack, k + 1, Len(stack)) \in Seq(S)
    BY <1>1, <1>4
  <2> QED
    BY <2>1, <2>2
<1> QED
  BY <1>2, <1>3, <1>4

\* An action puts nothing on a stack but an edit of the log.
LEMMA PushType ==
    ASSUME HistoryInv, TargetsAreEdits, NEW n \in 1..revision, NEW stacks, AreStacks(stacks)
    PROVE  AreStacks(Push(stacks, ActionAt(n)))
<1> DEFINE a == ActionAt(n)
<1>1. a \in log /\ a.revision = n /\ Proper(a) /\ a.kind \in Kinds
  BY ActionIs DEF TargetsAreEdits, HistoryInv, TypeOK, Actions
<1> HIDE DEF a
<1>2. a.kind = "edit" => a.revision \in Edits
  BY <1>1 DEF Edits
<1>3. a.kind \in {"undo", "redo"} => a.target \in Edits
  <2>1. ASSUME NEW e \in log PROVE e.revision \in 1..revision
    BY DEF HistoryInv, LogIsGapFree
  <2> QED
    BY <1>1, <2>1 DEF Proper, Edits
<1>4. stacks.undo \in Seq(Edits) /\ stacks.redo \in Seq(Edits)
  BY DEF AreStacks
<1>5. CASE a.kind = "undo"
  <2>1. Without(stacks.undo, a.target) \in Seq(Edits) /\ Append(stacks.redo, a.target) \in Seq(Edits)
    BY <1>3, <1>4, <1>5, WithoutType
  <2> QED
    BY <1>5, <2>1 DEF Push, AreStacks, a
<1>6. CASE a.kind = "redo"
  <2>1. Append(stacks.undo, a.target) \in Seq(Edits) /\ Without(stacks.redo, a.target) \in Seq(Edits)
    BY <1>3, <1>4, <1>6, WithoutType
  <2> QED
    BY <1>6, <2>1 DEF Push, AreStacks, a
<1>7. CASE a.kind = "edit"
  <2>1. Append(stacks.undo, a.revision) \in Seq(Edits) /\ <<>> \in Seq(Edits)
    BY <1>2, <1>4, <1>7
  <2> QED
    BY <1>7, <2>1 DEF Push, ClearRedo, AreStacks, a
<1>8. CASE a.kind = "event"
  BY <1>4, <1>8 DEF Push, AreStacks, a
<1> QED
  BY <1>1, <1>5, <1>6, <1>7, <1>8 DEF Kinds

LEMMA RebuiltType ==
    ASSUME HistoryInv, TargetsAreEdits
    PROVE  \A n \in 0..revision : AreStacks(StacksAfter[n])
<1> DEFINE T == {n \in 0..revision : ~AreStacks(StacksAfter[n])}
<1>1. revision \in Nat
  BY DEF HistoryInv, TypeOK
<1>2. T = {}
  <2> SUFFICES ASSUME T # {} PROVE FALSE
    OBVIOUS
  <2>1. PICK n \in T : \A j \in T : n <= j
    <3>1. T \in SUBSET Nat
      BY <1>1
    <3> HIDE DEF T
    <3> QED
      BY <3>1, LeastNatural
  <2>2. n \in 0..revision /\ ~AreStacks(StacksAfter[n])
    BY <2>1
  <2>3. CASE n = 0
    <3>1. StacksAfter[n] = EmptyStacks
      BY <1>1, <2>2, <2>3, StacksAreBuilt DEF Built
    <3> QED
      BY <2>2, <3>1 DEF AreStacks, EmptyStacks
  <2>4. CASE n # 0
    <3>1. n \in 1..revision /\ n - 1 \in 0..revision /\ ~(n <= n - 1)
      BY <1>1, <2>2, <2>4
    <3>2. AreStacks(StacksAfter[n - 1])
      BY <2>1, <3>1
    <3>3. StacksAfter[n] = Push(StacksAfter[n - 1], ActionAt(n))
      BY <1>1, <2>2, <2>4, StacksAreBuilt DEF Built
    <3> QED
      BY <2>2, <3>1, <3>2, <3>3, PushType
  <2> QED
    BY <2>3, <2>4
<1> QED
  BY <1>1, <1>2

-----------------------------------------------------------------------------
(* The undo stack while nothing is left to redo.                           *)

\* The newest change of the first n actions is edit number x, or has redone it.
IsLatest(x, n) ==
    \E c \in log :
        /\ c.revision <= n
        /\ \/ c.kind = "edit" /\ c.revision = x
           \/ c.kind = "redo" /\ c.target = x
        /\ \A b \in log : c.revision < b.revision /\ b.revision <= n => b.kind = "event"

IsUndoStack(stacks, n) ==
    stacks.redo = <<>> /\ stacks.undo # <<>> => IsLatest(Last(stacks.undo), n)

\* An edit or a redo is pushed, an undo leaves something to redo, an event nothing new.
LEMMA PushIsLatest ==
    ASSUME HistoryInv, TargetsAreEdits, NEW n \in 1..revision, NEW stacks,
           AreStacks(stacks), IsUndoStack(stacks, n - 1)
    PROVE  IsUndoStack(Push(stacks, ActionAt(n)), n)
<1> DEFINE a == ActionAt(n)
           pushed == Push(stacks, a)
<1>1. a \in log /\ a.revision = n /\ a.kind \in Kinds /\ n \in Nat
  BY ActionIs DEF HistoryInv, TypeOK, Actions
<1>2. \A c \in log : c.revision \in Nat
  BY LogType DEF HistoryInv
<1>3. stacks.undo \in Seq(Edits) /\ stacks.redo \in Seq(Edits)
  BY DEF AreStacks
<1>4. \A c \in log : ~(a.revision < c.revision /\ c.revision <= n)
  BY <1>1, <1>2
<1>5. a.kind \in {"undo", "redo"} => a.target \in Edits
  <2>1. \A e \in log : e.revision \in 1..revision
    BY DEF HistoryInv, LogIsGapFree
  <2> QED
    BY <1>1, <2>1 DEF TargetsAreEdits, Proper, Edits
<1>6. a.kind = "edit" => a.revision \in Edits
  BY <1>1 DEF Edits
<1>7. \A c \in log : c.revision = n => c = a
  BY ActionIs
<1> HIDE DEF a
<1>8. CASE a.kind = "undo"
  <2>1. pushed.redo = Append(stacks.redo, a.target)
    BY <1>8 DEF Push
  <2>2. Len(pushed.redo) = Len(stacks.redo) + 1 /\ Len(stacks.redo) \in Nat
    BY <1>3, <1>5, <1>8, <2>1
  <2>3. pushed.redo # <<>>
    BY <2>2
  <2> QED
    BY <2>3 DEF IsUndoStack, a
<1>9. CASE a.kind = "redo"
  <2>1. pushed.undo = Append(stacks.undo, a.target)
    BY <1>9 DEF Push
  <2>2. Last(pushed.undo) = a.target
    BY <1>3, <1>5, <1>9, <2>1 DEF Last
  <2> QED
    BY <1>1, <1>4, <1>9, <2>2 DEF IsUndoStack, IsLatest, a
<1>10. CASE a.kind = "edit"
  <2>1. pushed.undo = Append(stacks.undo, a.revision)
    BY <1>10 DEF Push
  <2>2. Last(pushed.undo) = a.revision
    BY <1>3, <1>6, <1>10, <2>1 DEF Last
  <2> QED
    BY <1>1, <1>4, <1>10, <2>2 DEF IsUndoStack, IsLatest, a
<1>11. CASE a.kind = "event"
  <2>1. pushed = stacks
    BY <1>11 DEF Push
  <2> SUFFICES ASSUME stacks.redo = <<>>, stacks.undo # <<>>
               PROVE  IsLatest(Last(stacks.undo), n)
    BY <2>1 DEF IsUndoStack, a
  <2>2. PICK c \in log :
            /\ c.revision <= n - 1
            /\ \/ c.kind = "edit" /\ c.revision = Last(stacks.undo)
               \/ c.kind = "redo" /\ c.target = Last(stacks.undo)
            /\ \A b \in log : c.revision < b.revision /\ b.revision <= n - 1 => b.kind = "event"
    BY DEF IsUndoStack, IsLatest
  <2>3. \A b \in log : b.revision <= n => b.revision <= n - 1 \/ b = a
    BY <1>1, <1>2, <1>7
  <2>4. c.revision <= n
    BY <1>1, <1>2, <2>2
  <2>5. \A b \in log : c.revision < b.revision /\ b.revision <= n => b.kind = "event"
    BY <1>11, <2>2, <2>3
  <2> QED
    BY <2>2, <2>4, <2>5 DEF IsLatest
<1> QED
  BY <1>1, <1>8, <1>9, <1>10, <1>11 DEF Kinds

LEMMA UndoStackIsLatest ==
    ASSUME HistoryInv, TargetsAreEdits
    PROVE  IsUndoStack(StacksAfter[revision], revision)
<1> DEFINE T == {n \in 0..revision : ~IsUndoStack(StacksAfter[n], n)}
<1>1. revision \in Nat
  BY DEF HistoryInv, TypeOK
<1>2. T = {}
  <2> SUFFICES ASSUME T # {} PROVE FALSE
    OBVIOUS
  <2>1. PICK n \in T : \A j \in T : n <= j
    <3>1. T \in SUBSET Nat
      BY <1>1
    <3> HIDE DEF T
    <3> QED
      BY <3>1, LeastNatural
  <2>2. n \in 0..revision /\ ~IsUndoStack(StacksAfter[n], n)
    BY <2>1
  <2>3. CASE n = 0
    <3>1. StacksAfter[n] = EmptyStacks
      BY <1>1, <2>2, <2>3, StacksAreBuilt DEF Built
    <3> QED
      BY <2>2, <3>1 DEF IsUndoStack, EmptyStacks
  <2>4. CASE n # 0
    <3>1. n \in 1..revision /\ n - 1 \in 0..revision /\ ~(n <= n - 1)
      BY <1>1, <2>2, <2>4
    <3>2. IsUndoStack(StacksAfter[n - 1], n - 1)
      BY <2>1, <3>1
    <3>3. StacksAfter[n] = Push(StacksAfter[n - 1], ActionAt(n))
      BY <1>1, <2>2, <2>4, StacksAreBuilt DEF Built
    <3>4. AreStacks(StacksAfter[n - 1])
      BY <3>1, RebuiltType
    <3> QED
      BY <2>2, <3>1, <3>2, <3>3, <3>4, PushIsLatest
  <2> QED
    BY <2>3, <2>4
<1> QED
  BY <1>1, <1>2

\* Nothing but events follows an edit that is the latest change, and nothing but
\* events follows its redo.
LEMMA LatestIsUndoable ==
    ASSUME HistoryInv, InverseInv, TargetsAreEdits, NEW x, IsLatest(x, revision)
    PROVE  MayUndo(ActionAt(x))
<1> DEFINE a == ActionAt(x)
<1>1. PICK c \in log :
          /\ c.revision <= revision
          /\ \/ c.kind = "edit" /\ c.revision = x
             \/ c.kind = "redo" /\ c.target = x
          /\ \A b \in log : c.revision < b.revision /\ b.revision <= revision => b.kind = "event"
  BY DEF IsLatest
<1>2. /\ \A b \in log : b.revision \in 1..revision
      /\ \A b, d \in log : b.revision = d.revision => b = d
      /\ revision \in Nat
  BY DEF HistoryInv, LogIsGapFree, TypeOK
<1>3. x \in 1..revision
  BY <1>1, <1>2 DEF TargetsAreEdits, Proper
<1>4. a \in log /\ a.revision = x /\ \A b \in log : b.revision = x => b = a
  BY <1>3, ActionIs
<1> HIDE DEF a
<1>5. a.kind = "edit"
  BY <1>1, <1>4 DEF TargetsAreEdits, Proper
<1>6. ASSUME NEW b \in log, b.target = x
      PROVE  /\ a.revision < b.revision /\ Touched(b) = Touched(a)
             /\ b.kind = "redo" => b.after = a.after
  <2>1. x # 0
    BY <1>3
  <2>2. PICK e \in log :
            /\ b.target = e.revision /\ e.revision < b.revision
            /\ Touched(b) = Touched(e)
            /\ \/ b.kind = "undo" /\ b.after = e.before
               \/ b.kind = "redo" /\ b.after = e.after
    BY <1>6, <2>1 DEF InverseInv, InversesFollow
  <2>3. e = a
    BY <1>4, <1>6, <2>2
  <2> QED
    BY <2>2, <2>3
<1>7. \A b \in log : c.revision < b.revision => b.target = 0 /\ Touched(b) = {}
  BY <1>1, <1>2 DEF TargetsAreEdits, Proper
<1>8. c = a \/ (c \in Inverses(a) /\ c.kind = "redo" /\ a.revision < c.revision
                /\ Touched(c) = Touched(a) /\ c.after = a.after)
  <2>1. CASE c.kind = "edit" /\ c.revision = x
    BY <1>4, <2>1
  <2>2. CASE c.kind = "redo" /\ c.target = x
    <3>1. /\ a.revision < c.revision /\ Touched(c) = Touched(a)
          /\ c.after = a.after
      BY <1>6, <2>2
    <3> QED
      BY <1>4, <2>2, <3>1 DEF Inverses
  <2> QED
    BY <1>1, <2>1, <2>2
<1>9. \A b \in Inverses(a) : b \in log /\ a.revision < b.revision /\ b.revision <= c.revision
  <2> SUFFICES ASSUME NEW b \in Inverses(a)
               PROVE  b \in log /\ a.revision < b.revision /\ b.revision <= c.revision
    OBVIOUS
  <2>1. b \in log /\ b.target = x /\ x # 0
    BY <1>3, <1>4 DEF Inverses
  <2>2. a.revision < b.revision
    BY <1>6, <2>1
  <2>3. ~(c.revision < b.revision)
    BY <1>7, <2>1
  <2> QED
    BY <1>2, <2>1, <2>2, <2>3
<1>10. \A b \in LaterTouches(a) : b \in log /\ a.revision < b.revision /\ b.revision <= c.revision
  <2> SUFFICES ASSUME NEW b \in LaterTouches(a) PROVE b \in log /\ a.revision < b.revision /\ b.revision <= c.revision
    OBVIOUS
  <2>1. b \in log /\ a.revision < b.revision /\ Touched(b) # {}
    BY DEF LaterTouches
  <2>2. ~(c.revision < b.revision)
    BY <1>7, <2>1
  <2> QED
    BY <1>2, <2>1, <2>2
<1>11. c \in Inverses(a) => Newest(Inverses(a)) = c
  <2>1. \A b \in Inverses(a) : b.revision \in Nat /\ b.revision <= c.revision
    BY <1>2, <1>9
  <2>2. \A b, d \in Inverses(a) : b.revision = d.revision => b = d
    BY <1>2, <1>9
  <2> QED
    BY <2>1, <2>2, NewestIs
<1>12. c = a => Inverses(a) = {} /\ LaterTouches(a) = {}
  BY <1>2, <1>9, <1>10
<1>13. ~IsUndone(a)
  BY <1>8, <1>11, <1>12 DEF IsUndone
<1>14. Untouched(a)
  <2> SUFFICES ASSUME LaterTouches(a) # {}
               PROVE  Inverses(a) # {} /\ Newest(LaterTouches(a)) = Newest(Inverses(a))
    BY DEF Untouched
  <2>1. c # a
    BY <1>12
  <2>2. c \in Inverses(a) /\ a.revision < c.revision /\ Touched(c) = Touched(a)
    BY <1>8, <2>1
  <2>3. c \in LaterTouches(a)
    <3>1. PICK b : b \in LaterTouches(a)
      OBVIOUS
    <3>2. Touched(a) # {}
      BY <3>1 DEF LaterTouches
    <3> QED
      BY <2>2, <3>2 DEF LaterTouches
  <2>4. \A b \in LaterTouches(a) : b.revision \in Nat /\ b.revision <= c.revision
    BY <1>2, <1>10
  <2>5. \A b, d \in LaterTouches(a) : b.revision = d.revision => b = d
    BY <1>2, <1>10
  <2>6. Newest(LaterTouches(a)) = c
    BY <2>3, <2>4, <2>5, NewestIs
  <2> QED
    BY <1>11, <2>2, <2>6
<1>15. Matches(a.after)
  <2> SUFFICES ASSUME NEW t \in DOMAIN a.after PROVE Current[t] = a.after[t]
    BY DEF Matches
  <2>1. t \in DOMAIN c.after /\ c.after[t] = a.after[t] /\ t \in Tracks
    BY <1>4, <1>8, LogType, PayloadType DEF HistoryInv
  <2>2. c \in Touching(revision, t)
    BY <1>1, <2>1 DEF Touching
  <2>3. \A b \in Touching(revision, t) : b.revision <= c.revision
    <3> TAKE b \in Touching(revision, t)
    <3>1. b \in log /\ t \in Touched(b)
      BY DEF Touching, Touched
    <3>2. ~(c.revision < b.revision)
      BY <1>7, <3>1
    <3> QED
      BY <1>2, <3>1, <3>2
  <2>4. Newest(Touching(revision, t)) = c
    BY <2>2, <2>3, NewestTouching DEF HistoryInv
  <2>5. Current[t] = c.after[t]
    BY <2>1, <2>2, <2>4, SnapshotIs, CurrentIsLatest DEF HistoryInv
  <2> QED
    BY <2>1, <2>5
<1> QED
  BY <1>5, <1>13, <1>14, <1>15 DEF MayUndo, a

-----------------------------------------------------------------------------
(* The invariant of the workspaces.                                        *)

AsAsked(w, a) ==
    /\ a.kind = asks[w].kind
    /\ asks[w].kind # "edit" => a.target = asks[w].target

\* A change under way names an edit, and the service drafts and appends what it asks.
UnderWay(w) ==
    /\ stage[w] = "idle" => asks[w] = NoAsk \/ asks[w].answer # 0
    /\ stage[w] # "idle" => asks[w].kind # "none" /\ asks[w].answer = 0
    /\ asks[w].kind \in {"undo", "redo"} => asks[w].target \in Edits
    /\ stage[w] = "drafted" => AsAsked(w, draft[w])
    /\ asks[w].answer # 0 => asks[w].kind # "none"
    /\ \A n \in 1..revision : asks[w].answer = n => AsAsked(w, ActionAt(n))

\* Stacks that are not torn are those of the log up to upTo, and a change under way
\* was made on them.
AreRebuilt(w) ==
    /\ [undo |-> desk[w].undo, redo |-> desk[w].redo] = StacksAfter[desk[w].upTo]
    /\ asks[w].kind = "undo" => desk[w].undo # <<>> /\ asks[w].target = Last(desk[w].undo)
    /\ asks[w].kind = "redo" => desk[w].redo # <<>> /\ asks[w].target = Last(desk[w].redo)
    /\ asks[w].kind # "none" /\ asks[w].answer = 0 => desk[w].upTo <= expected[w]
    /\ asks[w].answer # 0 => desk[w].upTo < asks[w].answer

DeskInv ==
    /\ DeskTypeOK
    /\ \A w \in Workspaces : UnderWay(w) /\ (~torn[w] => AreRebuilt(w))

LEMMA InitDesk == DeskInit => DeskInv
<1> SUFFICES ASSUME DeskInit PROVE DeskInv
  OBVIOUS
<1>1. revision = 0 /\ revision \in Nat
  BY DEF DeskInit, Init
<1>2. StacksAfter[0] = EmptyStacks
  BY <1>1, StacksAreBuilt DEF Built
<1>3. DeskTypeOK
  BY <1>1 DEF DeskInit, DeskTypeOK, NoAsk
<1>4. ASSUME NEW w \in Workspaces PROVE UnderWay(w) /\ AreRebuilt(w)
  BY <1>1, <1>2, WorkspaceAssumption DEF DeskInit, Init, UnderWay, AreRebuilt, NoAsk, EmptyStacks
<1> QED
  BY <1>3, <1>4 DEF DeskInv

\* Every step of the workspaces is one of the log, or leaves it alone.
LEMMA WorkStepIsLogStep == DeskInv /\ [WorkspaceNext]_workVars => [Next]_vars
<1> SUFFICES ASSUME DeskInv, WorkspaceNext, ~UNCHANGED vars PROVE Next
  BY DEF workVars
<1>1. ASSUME NEW w \in Workspaces, Resolve(w) PROVE PrepareEdit(w) \/ PrepareInverse(w)
  <2>1. asks[w].kind \in {"undo", "redo"} => ActionAt(asks[w].target) \in log
    BY DEF DeskInv, UnderWay, Edits, ActionAt
  <2> QED
    BY <1>1, <2>1 DEF Resolve, PrepareInverse
<1>2. ASSUME NEW w \in Workspaces, ReloadSnapshot(w) \/ LoadAudit(w) \/ Answer(w) \/ LoseAnswer(w)
      PROVE  FALSE
  BY <1>2 DEF ReloadSnapshot, LoadAudit, Answer, LoseAnswer
<1>3. ASSUME NEW w \in Workspaces, Click(w) PROVE Begin(w)
  BY <1>3 DEF Click, Send
<1> QED
  BY <1>1, <1>2, <1>3, WorkspaceAssumption DEF WorkspaceNext, OthersNext, Next, Commit, Refuse

\* The context of a step.
Stepping == HistoryInv /\ HistoryInv' /\ TargetsAreEdits /\ DeskInv /\ Grown

LEMMA EditsGrow == Stepping => Edits \subseteq Edits' /\ 0..revision \subseteq 0..revision'
  BY DEF Stepping, Grown, Edits, HistoryInv, TypeOK

LEMMA MoreStacks == ASSUME NEW S, NEW T, S \subseteq T PROVE Seq(S) \subseteq Seq(T)
  OBVIOUS

Same(w) ==
    /\ desk'[w] = desk[w] /\ asks'[w] = asks[w] /\ torn'[w] = torn[w]
    /\ stage'[w] = stage[w] /\ draft'[w] = draft[w] /\ expected'[w] = expected[w]

\* What a workspace knows of the log stays true of it.
LEMMA KnownStays ==
    ASSUME Stepping, NEW w \in Workspaces
    PROVE  /\ desk[w].upTo \in 0..revision
           /\ (StacksAfter')[desk[w].upTo] = StacksAfter[desk[w].upTo]
           /\ asks[w].answer \in 0..revision
<1>1. revision \in Nat /\ desk[w].upTo \in 0..revision /\ asks[w].answer \in 0..revision
  BY DEF Stepping, HistoryInv, TypeOK, DeskInv, DeskTypeOK
<1> QED
  BY <1>1, StacksKeep DEF Stepping, Grown

\* So nothing changes for the workspaces a step leaves alone.
LEMMA OtherDesks ==
    ASSUME Stepping, NEW w \in Workspaces, Same(w)
    PROVE  UnderWay(w)' /\ (~torn[w] => AreRebuilt(w)')
<1>1. UnderWay(w) /\ (~torn[w] => AreRebuilt(w))
  BY DEF Stepping, DeskInv
<1>2. /\ desk[w].upTo \in 0..revision /\ asks[w].answer \in 0..revision
      /\ (StacksAfter')[desk[w].upTo] = StacksAfter[desk[w].upTo]
  BY KnownStays
<1>3. Edits \subseteq Edits'
  BY EditsGrow
<1>4. ASSUME NEW n \in 1..revision', asks[w].answer = n PROVE AsAsked(w, ActionAt(n))'
  <2>1. n \in 1..revision
    BY <1>2, <1>4 DEF Stepping, HistoryInv, TypeOK
  <2>2. ActionAt(n)' = ActionAt(n) /\ AsAsked(w, ActionAt(n))
    BY <1>1, <1>4, <2>1 DEF Stepping, Grown, UnderWay
  <2> QED
    BY <2>2 DEF AsAsked, Same
<1>5. stage[w] = "drafted" => AsAsked(w, draft[w])'
  BY <1>1 DEF UnderWay, AsAsked, Same
<1>6. UnderWay(w)'
  BY <1>1, <1>3, <1>4, <1>5 DEF UnderWay, Same
<1>7. ASSUME ~torn[w] PROVE AreRebuilt(w)'
  BY <1>1, <1>2, <1>7 DEF AreRebuilt, Same
<1> QED
  BY <1>6, <1>7

\* The variables of the workspaces, when one of them moves.
LEMMA DeskTypes ==
    ASSUME Stepping
    PROVE  /\ stage \in [Sessions -> {"idle", "read", "drafted"}]
           /\ expected \in [Sessions -> 0..MaxRevision]
           /\ draft \in [Sessions -> Drafts]
           /\ Workspaces \subseteq Sessions
           /\ desk \in [Workspaces -> [seen : 0..revision', upTo : 0..revision',
                                       undo : Seq(Edits'), redo : Seq(Edits')]]
           /\ asks \in [Workspaces -> [kind : {"none", "edit", "undo", "redo"},
                                       target : Edits' \cup {0}, answer : 0..revision']]
           /\ torn \in [Workspaces -> BOOLEAN]
<1>1. Edits \subseteq Edits' /\ 0..revision \subseteq 0..revision' /\ Seq(Edits) \subseteq Seq(Edits')
  BY EditsGrow, MoreStacks
<1>2. DeskTypeOK /\ TypeOK
  BY DEF Stepping, DeskInv, HistoryInv
<1>3. ASSUME NEW w \in Workspaces
      PROVE  /\ desk[w] \in [seen : 0..revision', upTo : 0..revision',
                             undo : Seq(Edits'), redo : Seq(Edits')]
             /\ asks[w] \in [kind : {"none", "edit", "undo", "redo"},
                             target : Edits' \cup {0}, answer : 0..revision']
  <2>1. /\ desk[w] \in [seen : 0..revision, upTo : 0..revision, undo : Seq(Edits), redo : Seq(Edits)]
        /\ asks[w] \in [kind : {"none", "edit", "undo", "redo"},
                        target : Edits \cup {0}, answer : 0..revision]
    BY <1>2 DEF DeskTypeOK
  <2>2. ASSUME NEW d \in [seen : 0..revision, upTo : 0..revision, undo : Seq(Edits), redo : Seq(Edits)]
        PROVE  d \in [seen : 0..revision', upTo : 0..revision', undo : Seq(Edits'), redo : Seq(Edits')]
    BY <1>1
  <2>3. ASSUME NEW d \in [kind : {"none", "edit", "undo", "redo"},
                          target : Edits \cup {0}, answer : 0..revision]
        PROVE  d \in [kind : {"none", "edit", "undo", "redo"},
                      target : Edits' \cup {0}, answer : 0..revision']
    BY <1>1
  <2> QED
    BY <2>1, <2>2, <2>3
<1> QED
  BY <1>2, <1>3, WorkspaceAssumption DEF TypeOK, DeskTypeOK

LEMMA ReloadDesk ==
    ASSUME Stepping, NEW w \in Workspaces, ReloadSnapshot(w)
    PROVE  DeskInv'
<1>1. PICK n \in 0..revision : desk' = [desk EXCEPT ![w].seen = n]
  BY DEF ReloadSnapshot
<1>2. UNCHANGED <<vars, asks, torn>> /\ n \in 0..revision'
  BY EditsGrow DEF ReloadSnapshot
<1>3. DeskTypeOK'
  BY <1>1, <1>2, DeskTypes DEF DeskTypeOK
<1>4. ASSUME NEW v \in Workspaces
      PROVE  UnderWay(v)' /\ (~torn[v] => AreRebuilt(v)')
  <2>1. UnderWay(v) /\ (~torn[v] => AreRebuilt(v))
    BY DEF Stepping, DeskInv
  <2>2. /\ desk'[v].upTo = desk[v].upTo /\ desk'[v].undo = desk[v].undo /\ desk'[v].redo = desk[v].redo
    BY <1>1, DeskTypes
  <2>3. (StacksAfter')[desk[v].upTo] = StacksAfter[desk[v].upTo]
    BY KnownStays
  <2>4. UnderWay(v)'
    BY <1>2, <2>1 DEF UnderWay, AsAsked, vars, ActionAt, Edits
  <2>5. ASSUME ~torn[v] PROVE AreRebuilt(v)'
    BY <1>2, <2>1, <2>2, <2>3, <2>5 DEF AreRebuilt, vars
  <2> QED
    BY <2>4, <2>5
<1> QED
  BY <1>2, <1>3, <1>4 DEF DeskInv

LEMMA AuditDesk ==
    ASSUME Stepping, NEW w \in Workspaces, LoadAudit(w)
    PROVE  DeskInv'
<1>1. PICK n \in 0..revision :
          desk' = [desk EXCEPT ![w] = [seen |-> desk[w].seen, upTo |-> n,
                                       undo |-> StacksAfter[n].undo, redo |-> StacksAfter[n].redo]]
  BY DEF LoadAudit
<1>2. /\ UNCHANGED <<vars, asks>> /\ torn' = [torn EXCEPT ![w] = asks[w] # NoAsk]
      /\ n \in 0..revision' /\ revision \in Nat
  BY EditsGrow DEF LoadAudit, Stepping, HistoryInv, TypeOK
<1>3. AreStacks(StacksAfter[n])
  BY RebuiltType DEF Stepping
<1>4. StacksAfter[n].undo \in Seq(Edits') /\ StacksAfter[n].redo \in Seq(Edits')
  BY <1>3, EditsGrow, MoreStacks DEF AreStacks
<1>5. desk[w].seen \in 0..revision'
  BY DeskTypes
<1>6. DeskTypeOK'
  BY <1>1, <1>2, <1>4, <1>5, DeskTypes DEF DeskTypeOK
<1>7. ASSUME NEW v \in Workspaces, v # w PROVE UnderWay(v)' /\ (~torn'[v] => AreRebuilt(v)')
  <2>1. Same(v)
    BY <1>1, <1>2, <1>7, DeskTypes DEF Same, vars
  <2> QED
    BY <2>1, OtherDesks DEF Same
<1>8. UnderWay(w)'
  <2>1. UnderWay(w)
    BY DEF Stepping, DeskInv
  <2> QED
    BY <1>2, <2>1 DEF UnderWay, AsAsked, vars, ActionAt, Edits
<1>9. ASSUME ~torn'[w] PROVE AreRebuilt(w)'
  <2>1. asks'[w] = NoAsk
    BY <1>2, <1>9, DeskTypes
  <2>2. desk'[w] = [seen |-> desk[w].seen, upTo |-> n,
                    undo |-> StacksAfter[n].undo, redo |-> StacksAfter[n].redo]
    BY <1>1, DeskTypes
  <2>3. (StacksAfter')[n] = StacksAfter[n]
    BY <1>2, StacksKeep DEF Stepping
  <2>4. StacksAfter[n] = [undo |-> StacksAfter[n].undo, redo |-> StacksAfter[n].redo]
    BY <1>3 DEF AreStacks
  <2> QED
    BY <2>1, <2>2, <2>3, <2>4 DEF AreRebuilt, NoAsk
<1> QED
  BY <1>6, <1>7, <1>8, <1>9 DEF DeskInv

LEMMA ClickDesk ==
    ASSUME Stepping, NEW w \in Workspaces, Click(w)
    PROVE  DeskInv'
<1> DEFINE Top(kind, target) ==
        \/ kind = "edit" /\ target = 0
        \/ kind = "undo" /\ desk[w].undo # <<>> /\ target = Last(desk[w].undo)
        \/ kind = "redo" /\ desk[w].redo # <<>> /\ target = Last(desk[w].redo)
<1>1. PICK kind, target : Top(kind, target) /\ Send(w, kind, target)
  BY DEF Click
<1> DEFINE ask == [kind |-> kind, target |-> target, answer |-> 0]
<1>2. /\ asks' = [asks EXCEPT ![w] = ask] /\ desk' = desk /\ torn' = torn
      /\ stage' = [stage EXCEPT ![w] = "read"]
      /\ expected' = [expected EXCEPT ![w] = revision]
      /\ UNCHANGED <<revision, log, draft>>
  BY <1>1 DEF Send, Begin
<1>3. desk[w].undo \in Seq(Edits) /\ desk[w].redo \in Seq(Edits) /\ desk[w].upTo \in 0..revision
  BY DEF Stepping, DeskInv, DeskTypeOK
<1>4. \A stack \in Seq(Edits) : stack # <<>> => Last(stack) \in Edits
  BY DEF Last
<1>5. /\ kind \in {"edit", "undo", "redo"} /\ target \in Edits \cup {0}
      /\ kind \in {"undo", "redo"} => target \in Edits
  BY <1>1, <1>3, <1>4
<1>6. ask \in [kind : {"none", "edit", "undo", "redo"}, target : Edits' \cup {0}, answer : 0..revision']
  BY <1>5, EditsGrow DEF Stepping, HistoryInv, TypeOK
<1>7. DeskTypeOK'
  BY <1>2, <1>6, DeskTypes DEF DeskTypeOK
<1>8. ASSUME NEW v \in Workspaces, v # w PROVE UnderWay(v)' /\ (~torn'[v] => AreRebuilt(v)')
  <2>1. Same(v)
    BY <1>2, <1>8, DeskTypes DEF Same
  <2> QED
    BY <2>1, OtherDesks DEF Same
<1>9. asks'[w] = ask /\ desk'[w] = desk[w] /\ stage'[w] = "read" /\ expected'[w] = revision /\ torn'[w] = torn[w]
  BY <1>2, DeskTypes
<1>10. ask.kind = kind /\ ask.target = target /\ ask.answer = 0
  OBVIOUS
<1> HIDE DEF ask
<1>11. UnderWay(w)'
  BY <1>5, <1>9, <1>10, EditsGrow DEF UnderWay
<1>12. ASSUME ~torn[w] PROVE AreRebuilt(w)'
  <2>1. AreRebuilt(w)
    BY <1>12 DEF Stepping, DeskInv
  <2>2. (StacksAfter')[desk[w].upTo] = StacksAfter[desk[w].upTo]
    BY KnownStays
  <2>3. desk[w].upTo <= revision
    BY <1>3 DEF Stepping, HistoryInv, TypeOK
  <2> QED
    BY <1>1, <1>9, <1>10, <2>1, <2>2, <2>3 DEF AreRebuilt
<1> QED
  BY <1>7, <1>8, <1>9, <1>11, <1>12 DEF DeskInv

LEMMA ResolveDesk ==
    ASSUME Stepping, NEW w \in Workspaces, Resolve(w)
    PROVE  DeskInv'
<1> DEFINE IsDraft(d) == /\ Prepare(w, d) /\ d.kind = asks[w].kind
                         /\ asks[w].kind # "edit" => d.target = asks[w].target
<1>1. PICK d : IsDraft(d)
  <2>1. CASE asks[w].kind = "edit" /\ PrepareEdit(w)
    <3>1. PICK T \in SUBSET Tracks : \E after \in [T -> Values] :
              Prepare(w, [kind |-> "edit", before |-> [t \in T |-> Current[t]],
                          after |-> after, target |-> 0])
      BY <2>1 DEF PrepareEdit
    <3> QED
      BY <2>1, <3>1
  <2>2. ASSUME NEW kind \in {"undo", "redo"}, NEW desired, asks[w].kind = kind,
               Prepare(w, InversePayload(ActionAt(asks[w].target), kind, desired))
        PROVE  \E d : IsDraft(d)
    <3>1. ASSUME NEW a
          PROVE  InversePayload(a, kind, desired).kind = kind
                 /\ InversePayload(a, kind, desired).target = a.revision
      BY DEF InversePayload
    <3>2. ActionAt(asks[w].target).revision = asks[w].target
      <4>1. UnderWay(w)
        BY DEF Stepping, DeskInv
      <4> QED
        BY <2>2, <4>1 DEF UnderWay, Edits, ActionAt
    <3> QED
      BY <2>2, <3>1, <3>2
  <2> QED
    BY <2>1, <2>2 DEF Resolve
<1>2. /\ UNCHANGED <<revision, log, expected, desk, asks, torn>>
      /\ stage[w] = "read" /\ stage' = [stage EXCEPT ![w] = "drafted"]
      /\ draft' = [draft EXCEPT ![w] = d]
  BY <1>1 DEF Resolve, Prepare
<1>3. DeskTypeOK'
  BY <1>2, DeskTypes DEF DeskTypeOK
<1>4. ASSUME NEW v \in Workspaces, v # w PROVE UnderWay(v)' /\ (~torn'[v] => AreRebuilt(v)')
  <2>1. Same(v)
    BY <1>2, <1>4, DeskTypes DEF Same
  <2> QED
    BY <2>1, OtherDesks DEF Same
<1>5. stage'[w] = "drafted" /\ draft'[w] = d
  BY <1>2, DeskTypes
<1>6. UnderWay(w)'
  <2>1. UnderWay(w) /\ asks[w].answer = 0
    BY <1>2 DEF Stepping, DeskInv, UnderWay
  <2>2. AsAsked(w, draft[w])'
    BY <1>1, <1>2, <1>5 DEF AsAsked
  <2>3. ~(\E n \in 1..revision' : asks'[w].answer = n)
    BY <1>2, <2>1
  <2> QED
    BY <1>2, <1>5, <2>1, <2>2, <2>3, EditsGrow DEF UnderWay
<1>7. ASSUME ~torn[w] PROVE AreRebuilt(w)'
  <2>1. AreRebuilt(w) /\ (StacksAfter')[desk[w].upTo] = StacksAfter[desk[w].upTo]
    BY <1>7, KnownStays DEF Stepping, DeskInv
  <2> QED
    BY <1>2, <2>1 DEF AreRebuilt
<1> QED
  BY <1>2, <1>3, <1>4, <1>6, <1>7 DEF DeskInv

LEMMA CommitDesk ==
    ASSUME Stepping, NEW w \in Workspaces, Commit(w)
    PROVE  DeskInv'
<1>0. PICK n \in Nat : n = revision + 1
  BY DEF Stepping, HistoryInv, TypeOK
<1>1. /\ stage[w] = "drafted" /\ revision = expected[w] /\ revision' = n /\ revision \in Nat
      /\ log' = log \cup {Row(n, draft[w])}
      /\ Finish(w) /\ desk' = desk /\ torn' = torn
      /\ asks' = [asks EXCEPT ![w].answer = n]
  BY <1>0 DEF Commit, Reserve, Stepping, HistoryInv, TypeOK
<1>2. DeskTypeOK'
  <2>1. n \in 0..revision'
    BY <1>0, <1>1
  <2> QED
    BY <1>1, <2>1, DeskTypes DEF DeskTypeOK
<1>3. ASSUME NEW v \in Workspaces, v # w PROVE UnderWay(v)' /\ (~torn'[v] => AreRebuilt(v)')
  <2>1. Same(v)
    BY <1>1, <1>3, DeskTypes DEF Same, Finish
  <2> QED
    BY <2>1, OtherDesks DEF Same
<1>4. /\ asks'[w].kind = asks[w].kind /\ asks'[w].target = asks[w].target /\ asks'[w].answer = n
      /\ stage'[w] = "idle"
  BY <1>1, DeskTypes DEF Finish
<1>5. UnderWay(w)
  BY DEF Stepping, DeskInv
<1>6. AsAsked(w, ActionAt(n))'
  <2>1. /\ Row(n, draft[w]).kind = draft[w].kind /\ Row(n, draft[w]).target = draft[w].target
        /\ Row(n, draft[w]).revision = n
    BY DEF Row
  <2>2. \A a, b \in log' : a.revision = b.revision => a = b
    BY DEF Stepping, HistoryInv, LogIsGapFree
  <2>3. Row(n, draft[w]) \in log'
    BY <1>1
  <2>4. ActionAt(n)' = Row(n, draft[w])
    <3>1. ActionAt(n)' = CHOOSE a \in log' : a.revision = n
      BY <1>1 DEF ActionAt
    <3> QED
      BY <2>1, <2>2, <2>3, <3>1
  <2>5. AsAsked(w, draft[w])
    BY <1>1, <1>5 DEF UnderWay
  <2> QED
    BY <1>4, <2>1, <2>4, <2>5 DEF AsAsked
<1>7. UnderWay(w)'
  <2>1. n # 0
    BY <1>0, <1>1
  <2>2. \A k \in 1..revision' : asks'[w].answer = k => AsAsked(w, ActionAt(k))'
    BY <1>4, <1>6
  <2> QED
    BY <1>1, <1>4, <1>5, <2>1, <2>2, EditsGrow DEF UnderWay
<1>8. ASSUME ~torn[w] PROVE AreRebuilt(w)'
  <2>1. AreRebuilt(w) /\ (StacksAfter')[desk[w].upTo] = StacksAfter[desk[w].upTo] /\ desk[w].upTo \in 0..revision
    BY <1>8, KnownStays DEF Stepping, DeskInv
  <2>2. desk[w].upTo < n
    BY <1>0, <1>1, <2>1
  <2> QED
    BY <1>1, <1>4, <2>1, <2>2 DEF AreRebuilt
<1> QED
  BY <1>1, <1>2, <1>3, <1>7, <1>8 DEF DeskInv

LEMMA RefuseDesk ==
    ASSUME Stepping, NEW w \in Workspaces, Refuse(w) \/ LoseAnswer(w)
    PROVE  DeskInv'
<1>1. /\ asks' = [asks EXCEPT ![w] = NoAsk] /\ desk' = desk /\ torn' = torn
      /\ UNCHANGED <<revision, log>>
  BY DEF Refuse, Abandon, LoseAnswer, vars
<1>2. stage'[w] = "idle" /\ \A v \in Workspaces : v # w =>
          stage'[v] = stage[v] /\ draft'[v] = draft[v] /\ expected'[v] = expected[v]
  <2>1. CASE Refuse(w)
    BY <2>1, DeskTypes DEF Refuse, Abandon, Finish
  <2>2. CASE LoseAnswer(w)
    <3>1. UnderWay(w) /\ stage[w] \in {"idle", "read", "drafted"}
      BY DeskTypes DEF Stepping, DeskInv
    <3> QED
      BY <2>2, <3>1 DEF LoseAnswer, UnderWay, vars
  <2> QED
    BY <2>1, <2>2
<1>3. DeskTypeOK'
  <2>1. NoAsk \in [kind : {"none", "edit", "undo", "redo"}, target : Edits' \cup {0}, answer : 0..revision']
    BY DEF NoAsk, Stepping, Grown
  <2> QED
    BY <1>1, <2>1, DeskTypes DEF DeskTypeOK
<1>4. ASSUME NEW v \in Workspaces, v # w PROVE UnderWay(v)' /\ (~torn'[v] => AreRebuilt(v)')
  <2>1. Same(v)
    BY <1>1, <1>2, <1>4, DeskTypes DEF Same
  <2> QED
    BY <2>1, OtherDesks DEF Same
<1>5. asks'[w] = NoAsk /\ NoAsk.kind = "none" /\ NoAsk.answer = 0
  BY <1>1, DeskTypes DEF NoAsk
<1>6. UnderWay(w)'
  BY <1>2, <1>5 DEF UnderWay
<1>7. ASSUME ~torn[w] PROVE AreRebuilt(w)'
  <2>1. AreRebuilt(w) /\ (StacksAfter')[desk[w].upTo] = StacksAfter[desk[w].upTo]
    BY <1>7, KnownStays DEF Stepping, DeskInv
  <2> QED
    BY <1>1, <1>5, <2>1 DEF AreRebuilt
<1> QED
  BY <1>1, <1>3, <1>4, <1>6, <1>7 DEF DeskInv

\* What the workspace makes of its stacks is what a rebuild makes of the action.
LEMMA MovedIsPushed ==
    ASSUME NEW stacks, NEW S, stacks \in [undo : Seq(S), redo : Seq(S)], NEW ask, NEW a,
           ask.kind \in {"edit", "undo", "redo"}, a.kind = ask.kind,
           ask.kind # "edit" => a.target = ask.target,
           ask.kind = "edit" => a.revision = ask.answer,
           ask.kind = "undo" => stacks.undo # <<>> /\ ask.target = Last(stacks.undo),
           ask.kind = "redo" => stacks.redo # <<>> /\ ask.target = Last(stacks.redo)
    PROVE  Moved(stacks, ask) = Push(stacks, a)
<1>1. CASE ask.kind = "undo"
  <2>1. Without(stacks.undo, a.target) = Front(stacks.undo)
    BY <1>1, WithoutLast
  <2> QED
    BY <1>1, <2>1 DEF Moved, Push
<1>2. CASE ask.kind = "redo"
  <2>1. Without(stacks.redo, a.target) = Front(stacks.redo)
    BY <1>2, WithoutLast
  <2> QED
    BY <1>2, <2>1 DEF Moved, Push
<1>3. CASE ask.kind = "edit"
  BY <1>3 DEF Moved, Push
<1> QED
  BY <1>1, <1>2, <1>3

LEMMA AnswerDesk ==
    ASSUME Stepping, NEW w \in Workspaces, Answer(w)
    PROVE  DeskInv'
<1> DEFINE moved == Moved(desk[w], asks[w])
<1>1. PICK n \in 1..revision : n = asks[w].answer
  BY KnownStays DEF Answer, Stepping, HistoryInv, TypeOK
<1>2. /\ desk' = [desk EXCEPT ![w] = [seen |-> n, upTo |-> n, undo |-> moved.undo, redo |-> moved.redo]]
      /\ torn' = [torn EXCEPT ![w] = torn[w] \/ ChangeBetween(desk[w].upTo, n - 1)]
      /\ asks' = [asks EXCEPT ![w] = NoAsk]
      /\ UNCHANGED vars
  BY <1>1 DEF Answer
<1>3. UnderWay(w) /\ (~torn[w] => AreRebuilt(w))
  BY DEF Stepping, DeskInv
<1>4. /\ desk[w] \in [seen : 0..revision, upTo : 0..revision, undo : Seq(Edits), redo : Seq(Edits)]
      /\ asks[w].kind \in {"edit", "undo", "redo"}
      /\ n \in Nat \ {0} /\ revision \in Nat
  BY <1>1, <1>3 DEF Stepping, DeskInv, DeskTypeOK, UnderWay, HistoryInv, TypeOK
<1>5. /\ ActionAt(n) \in log /\ ActionAt(n).revision = n
      /\ AsAsked(w, ActionAt(n))
  BY <1>1, <1>3, ActionIs DEF UnderWay, Stepping
<1>6. moved.undo \in Seq(Edits) /\ moved.redo \in Seq(Edits)
  <2>1. asks[w].kind = "edit" => n \in Edits
    BY <1>1, <1>5 DEF AsAsked, Edits
  <2>2. asks[w].kind # "edit" => asks[w].target \in Edits
    BY <1>3, <1>4 DEF UnderWay
  <2>3. \A stack \in Seq(Edits) : Front(stack) \in Seq(Edits)
    BY DEF Front
  <2>4. desk[w].undo \in Seq(Edits) /\ desk[w].redo \in Seq(Edits) /\ <<>> \in Seq(Edits)
    BY <1>4
  <2>5. \A stack \in Seq(Edits) : \A x \in Edits : Append(stack, x) \in Seq(Edits)
    OBVIOUS
  <2> QED
    BY <1>1, <1>4, <2>1, <2>2, <2>3, <2>4, <2>5 DEF Moved, ClearRedo
<1>7. NoAsk \in [kind : {"none", "edit", "undo", "redo"}, target : Edits' \cup {0}, answer : 0..revision']
  BY DEF NoAsk, Stepping, Grown
<1> HIDE DEF moved
<1>8. DeskTypeOK'
  <2>1. moved.undo \in Seq(Edits') /\ moved.redo \in Seq(Edits') /\ n \in 0..revision'
    BY <1>2, <1>4, <1>6, EditsGrow, MoreStacks
  <2> QED
    BY <1>2, <1>7, <2>1, DeskTypes DEF DeskTypeOK
<1>9. ASSUME NEW v \in Workspaces, v # w PROVE UnderWay(v)' /\ (~torn'[v] => AreRebuilt(v)')
  <2>1. Same(v)
    BY <1>2, <1>9, DeskTypes DEF Same, vars
  <2> QED
    BY <2>1, OtherDesks DEF Same
<1>10. /\ asks'[w] = NoAsk /\ NoAsk.kind = "none" /\ NoAsk.answer = 0
       /\ desk'[w] = [seen |-> n, upTo |-> n, undo |-> moved.undo, redo |-> moved.redo]
       /\ torn'[w] = (torn[w] \/ ChangeBetween(desk[w].upTo, n - 1))
  BY <1>2, DeskTypes DEF NoAsk
<1>11. UnderWay(w)'
  <2>1. stage[w] = "idle"
    BY <1>1, <1>3, <1>4, DeskTypes DEF UnderWay
  <2> QED
    BY <1>2, <1>10, <2>1 DEF UnderWay, vars
<1>12. ASSUME ~torn'[w] PROVE AreRebuilt(w)'
  <2>1. ~torn[w] /\ ~ChangeBetween(desk[w].upTo, n - 1)
    BY <1>10, <1>12
  <2>2. AreRebuilt(w) /\ desk[w].upTo \in 0..revision /\ desk[w].upTo < n
    BY <1>1, <1>3, <1>4, <2>1 DEF AreRebuilt
  <2> DEFINE stacks == [undo |-> desk[w].undo, redo |-> desk[w].redo]
  <2>3. stacks = StacksAfter[n - 1]
    <3>1. n - 1 \in desk[w].upTo..revision
      BY <1>4, <2>2
    <3>2. StacksAfter[n - 1] = StacksAfter[desk[w].upTo]
      BY <2>1, <2>2, <3>1, EventsMoveNothing DEF Stepping
    <3> QED
      BY <2>2, <3>2 DEF AreRebuilt
  <2>4. moved = Moved(stacks, asks[w])
    BY DEF moved, Moved
  <2>5. stacks \in [undo : Seq(Edits), redo : Seq(Edits)]
    BY <1>4
  <2>6. /\ stacks.undo = desk[w].undo /\ stacks.redo = desk[w].redo
    OBVIOUS
  <2> HIDE DEF stacks
  <2>7. moved = Push(stacks, ActionAt(n))
    BY <1>1, <1>4, <1>5, <2>2, <2>4, <2>5, <2>6, MovedIsPushed DEF AsAsked, AreRebuilt
  <2>8. StacksAfter[n] = moved
    BY <1>4, <2>3, <2>7, StacksAreBuilt DEF Built
  <2>9. (StacksAfter')[n] = StacksAfter[n] /\ AreStacks(StacksAfter[n])
    BY <1>4, StacksKeep, RebuiltType DEF Stepping
  <2>10. moved = [undo |-> moved.undo, redo |-> moved.redo]
    BY <2>8, <2>9 DEF AreStacks
  <2> QED
    BY <1>10, <2>8, <2>9, <2>10 DEF AreRebuilt
<1> QED
  BY <1>8, <1>9, <1>10, <1>11, <1>12 DEF DeskInv

LEMMA OthersDesk ==
    ASSUME Stepping, OthersNext
    PROVE  DeskInv'
<1>1. PICK s \in Sessions \ Workspaces :
          Begin(s) \/ PrepareEdit(s) \/ PrepareEvent(s) \/ PrepareInverse(s) \/ Reserve(s) \/ Abandon(s)
  BY DEF OthersNext
<1>2. UNCHANGED <<desk, asks, torn>>
  BY DEF OthersNext
<1> DEFINE Kept(v) == stage'[v] = stage[v] /\ draft'[v] = draft[v] /\ expected'[v] = expected[v]
<1>3. ASSUME NEW v \in Workspaces PROVE Kept(v)
  <2>1. v # s /\ v \in Sessions
    BY DeskTypes
  <2>2. ASSUME NEW d, Prepare(s, d) PROVE Kept(v)
    BY <2>1, <2>2, DeskTypes DEF Prepare
  <2>3. CASE Begin(s)
    BY <2>1, <2>3, DeskTypes DEF Begin
  <2>4. CASE Reserve(s) \/ Abandon(s)
    BY <2>1, <2>4, DeskTypes DEF Reserve, Abandon, Finish
  <2>5. CASE PrepareEdit(s) \/ PrepareEvent(s) \/ PrepareInverse(s)
    BY <2>2, <2>5 DEF PrepareEdit, PrepareEvent, PrepareInverse
  <2> QED
    BY <1>1, <2>3, <2>4, <2>5
<1>4. DeskTypeOK'
  BY <1>2, DeskTypes DEF DeskTypeOK
<1>5. ASSUME NEW v \in Workspaces PROVE UnderWay(v)' /\ (~torn'[v] => AreRebuilt(v)')
  <2>1. Same(v)
    BY <1>2, <1>3 DEF Same
  <2> QED
    BY <2>1, OtherDesks DEF Same
<1> QED
  BY <1>4, <1>5 DEF DeskInv

LEMMA NextDesk ==
    HistoryInv /\ HistoryInv' /\ TargetsAreEdits /\ DeskInv /\ [WorkspaceNext]_workVars => DeskInv'
<1> SUFFICES ASSUME HistoryInv, HistoryInv', TargetsAreEdits, DeskInv, [WorkspaceNext]_workVars
             PROVE  DeskInv'
  OBVIOUS
<1>0. Stepping
  BY WorkStepIsLogStep, LogGrows DEF Stepping
<1>1. CASE UNCHANGED workVars
  <2>1. UNCHANGED <<revision, log, stage, expected, draft, desk, asks, torn>>
    BY <1>1 DEF workVars, vars
  <2>2. ASSUME NEW v \in Workspaces PROVE UnderWay(v)' /\ (~torn'[v] => AreRebuilt(v)')
    BY <1>0, <2>1, OtherDesks DEF Same
  <2>3. DeskTypeOK'
    BY <1>0, <2>1, DeskTypes DEF DeskTypeOK
  <2> QED
    BY <2>2, <2>3 DEF DeskInv
<1>2. CASE WorkspaceNext
  <2> QED
    BY <1>0, <1>2, ReloadDesk, AuditDesk, ClickDesk, ResolveDesk, CommitDesk, RefuseDesk, AnswerDesk,
       OthersDesk DEF WorkspaceNext
<1> QED
  BY <1>1, <1>2

(***************************************************************************)
(* Each session of a workspace is one of the log's, so what is proved of   *)
(* the log holds under workspaces (review.py:622-707).                     *)
(***************************************************************************)
THEOREM WorkspacesUseTheLog == WorkspaceSpec => Spec /\ []DeskInv
<1>1. DeskInit => Init /\ HistoryInv /\ TargetsAreEdits /\ DeskInv
  BY InitInv, InitDesk DEF DeskInit, Init, TargetsAreEdits, Proper, NoDraft, Touched, NoTracks
<1> DEFINE Inv == HistoryInv /\ TargetsAreEdits /\ DeskInv
<1>2. Inv /\ [WorkspaceNext]_workVars => [Next]_vars /\ Inv'
  BY WorkStepIsLogStep, NextInv, TargetsStayEdits, NextDesk
<1> HIDE DEF Inv
<1>3. DeskInit => Inv
  BY <1>1 DEF Inv
<1>4. Inv => DeskInv
  BY DEF Inv
<1> QED
  BY <1>1, <1>2, <1>3, <1>4, PTL DEF WorkspaceSpec, Spec

(***************************************************************************)
(* The stacks of a workspace name edits of the log only                    *)
(* (ReviewWorkspace.tsx:90-111, 605-667; review.py:527-539).               *)
(***************************************************************************)
THEOREM StacksNameEdits == WorkspaceSpec => []DeskTypeOK
<1>1. DeskInv => DeskTypeOK
  BY DEF DeskInv
<1> QED
  BY <1>1, WorkspacesUseTheLog, PTL

(***************************************************************************)
(* The stacks of a workspace that is in step are what it would rebuild     *)
(* from the log, in whatever order its changes, those of others, and late  *)
(* answers come (ReviewWorkspace.tsx:90-111, 505-506, 626-627, 660-661).   *)
(***************************************************************************)
THEOREM LocalStacksAgree == WorkspaceSpec => []StacksAreRebuilt
<1>1. HistoryInv /\ DeskInv => StacksAreRebuilt
  <2> SUFFICES ASSUME HistoryInv, DeskInv, NEW w \in Workspaces, InStep(w)
               PROVE  [undo |-> desk[w].undo, redo |-> desk[w].redo] = StacksAfter[revision]
    BY DEF StacksAreRebuilt
  <2>1. [undo |-> desk[w].undo, redo |-> desk[w].redo] = StacksAfter[desk[w].upTo]
    BY DEF DeskInv, AreRebuilt, InStep
  <2>2. desk[w].upTo \in 0..revision /\ revision \in Nat
    BY DEF DeskInv, DeskTypeOK, HistoryInv, TypeOK
  <2>3. revision \in desk[w].upTo..revision
    BY <2>2
  <2>4. StacksAfter[revision] = StacksAfter[desk[w].upTo]
    BY <2>2, <2>3, EventsMoveNothing DEF InStep
  <2> QED
    BY <2>1, <2>4
<1> QED
  BY <1>1, WorkspacesUseTheLog, HistoryInvariant, PTL

(***************************************************************************)
(* The redo a workspace in step offers is one the service accepts: the     *)
(* action on top of its stack is undone, its tracks are as they were       *)
(* before it and nobody touched them since                                 *)
(* (ReviewWorkspace.tsx:90-111, 649-667; review.py:559-585).               *)
(***************************************************************************)
THEOREM RedoIsAccepted == WorkspaceSpec => []OfferedRedoIsAccepted
<1>1. HistoryInv /\ InverseInv /\ TargetsAreEdits /\ StacksAreRebuilt => OfferedRedoIsAccepted
  <2> SUFFICES ASSUME HistoryInv, InverseInv, TargetsAreEdits, StacksAreRebuilt,
                      NEW w \in Workspaces, InStep(w), desk[w].redo # <<>>
               PROVE  MayRedo(ActionAt(Last(desk[w].redo)))
    BY DEF OfferedRedoIsAccepted
  <2> DEFINE stack == StacksAfter[revision].redo
  <2>1. IsRedoStack(stack, revision)
    BY RedoStackIsUndone
  <2>2. stack = desk[w].redo
    <3>1. [undo |-> desk[w].undo, redo |-> desk[w].redo] = StacksAfter[revision]
      BY DEF StacksAreRebuilt
    <3> QED
      BY <3>1
  <2> HIDE DEF stack
  <2>3. Len(stack) \in 1..Len(stack)
    BY <2>1, <2>2 DEF IsRedoStack
  <2>4. Undone(stack[Len(stack)], revision)
    BY <2>1, <2>3 DEF IsRedoStack
  <2> QED
    BY <2>2, <2>4, UndoneIsUntouched DEF Last
<1>2. Init => TargetsAreEdits
  BY DEF Init, TargetsAreEdits, Proper, NoDraft, Touched, NoTracks
<1>3. Spec => []TargetsAreEdits
  BY <1>2, TargetsStayEdits, HistoryInvariant, PTL DEF Spec
<1> QED
  BY <1>1, <1>3, WorkspacesUseTheLog, LocalStacksAgree, HistoryInvariant, InverseInvariant, PTL

(***************************************************************************)
(* While nothing is left to redo, the undo a workspace in step offers is   *)
(* one the service accepts: it names the newest change of the log or what  *)
(* that change has redone (ReviewWorkspace.tsx:90-111, 612-630;            *)
(* review.py:559-585).                                                     *)
(***************************************************************************)
THEOREM UndoIsAccepted == WorkspaceSpec => []OfferedUndoIsAccepted
<1>1. HistoryInv /\ InverseInv /\ TargetsAreEdits /\ StacksAreRebuilt => OfferedUndoIsAccepted
  <2> SUFFICES ASSUME HistoryInv, InverseInv, TargetsAreEdits, StacksAreRebuilt,
                      NEW w \in Workspaces, InStep(w), desk[w].redo = <<>>, desk[w].undo # <<>>
               PROVE  MayUndo(ActionAt(Last(desk[w].undo)))
    BY DEF OfferedUndoIsAccepted
  <2>1. [undo |-> desk[w].undo, redo |-> desk[w].redo] = StacksAfter[revision]
    BY DEF StacksAreRebuilt
  <2>2. IsUndoStack(StacksAfter[revision], revision)
    BY UndoStackIsLatest
  <2>3. StacksAfter[revision].undo = desk[w].undo /\ StacksAfter[revision].redo = desk[w].redo
    BY <2>1
  <2>4. IsLatest(Last(desk[w].undo), revision)
    BY <2>2, <2>3 DEF IsUndoStack
  <2> QED
    BY <2>4, LatestIsUndoable
<1>2. Init => TargetsAreEdits
  BY DEF Init, TargetsAreEdits, Proper, NoDraft, Touched, NoTracks
<1>3. Spec => []TargetsAreEdits
  BY <1>2, TargetsStayEdits, HistoryInvariant, PTL DEF Spec
<1> QED
  BY <1>1, <1>3, WorkspacesUseTheLog, LocalStacksAgree, HistoryInvariant, InverseInvariant, PTL

-----------------------------------------------------------------------------
(* The refinement.                                                         *)

Versions == [n \in 1..(revision + 1) |-> Snapshot(n - 1)]

LEMMA InitDocument == Init => Document!DocumentInit
<1> SUFFICES ASSUME Init PROVE Document!DocumentInit
  OBVIOUS
<1>1. HistoryInv /\ revision = 0
  BY InitInv DEF Init
<1>2. Snapshot(0) \in Document!Document
  BY <1>1, SnapshotType DEF HistoryInv, Document!Document
<1>3. [n \in 1..(revision + 1) |-> Snapshot(n - 1)] = <<Snapshot(0)>>
  BY <1>1
<1> QED
  BY <1>2, <1>3 DEF Document!DocumentInit

LEMMA OneMore ==
    ASSUME NEW k \in Nat, NEW S, NEW v \in [1..(k + 1) -> S], NEW x \in S,
           NEW w \in [1..(k + 2) -> S],
           w[k + 2] = x, \A n \in 1..(k + 1) : w[n] = v[n]
    PROVE  /\ Len(v) = k + 1
           /\ Len(w) = k + 2
           /\ w[k + 2] = x
           /\ w = Append(v, x)
<1>1. v \in Seq(S) /\ Len(v) = k + 1
  BY k + 1 \in Nat
<1>2. w \in Seq(S) /\ Len(w) = k + 2
  BY k + 2 \in Nat
<1>3. Append(v, x) \in Seq(S) /\ Len(Append(v, x)) = k + 2
  BY <1>1
<1>4. \A n \in 1..(k + 2) : w[n] = Append(v, x)[n]
  BY <1>1
<1>5. w = Append(v, x)
  BY <1>2, <1>3, <1>4, SeqEqual
<1> QED
  BY <1>1, <1>2, <1>5

LEMMA ReserveCommits ==
    ASSUME HistoryInv, HistoryInv', NEW s \in Sessions, Reserve(s)
    PROVE  Document!Commit
<1>1. PICK r \in Actions :
        /\ r.revision = revision + 1
        /\ r.after = draft[s].after
        /\ log' = log \cup {r}
        /\ revision' = revision + 1
  BY ReservedRow
<1>2. revision \in Nat
  BY DEF HistoryInv, TypeOK
<1>3. PICK last : last = revision + 1
  OBVIOUS
<1> DEFINE old == Snapshot(revision)
           new == Snapshot(last)'
<1>4. \A t \in Tracks : new[t] = IF t \in DOMAIN r.after THEN r.after[t] ELSE old[t]
  BY <1>1, <1>3, NewSnapshot DEF HistoryInv
<1>5. old \in [Tracks -> Values \cup {NoValue}] /\ new \in [Tracks -> Values \cup {NoValue}]
  <2>1. old \in [Tracks -> Values \cup {NoValue}]
    BY <1>2, SnapshotType DEF HistoryInv
  <2>2. \A t \in Tracks : new[t] \in Values \cup {NoValue}
    BY <1>1, <1>4, <2>1, PayloadType DEF Actions
  <2>3. new = [t \in Tracks |-> new[t]]
    BY DEF Snapshot, Replay
  <2> QED
    BY <2>1, <2>2, <2>3
<1>6. \A n \in 1..(revision + 1) : Snapshot(n - 1)' = Snapshot(n - 1)
  <2> SUFFICES ASSUME NEW n \in 1..(revision + 1), NEW m, m = n - 1
               PROVE  Snapshot(m)' = Snapshot(m)
    OBVIOUS
  <2> QED
    BY <1>1, <1>2, OldSnapshotsKeep DEF HistoryInv
<1>7. Versions' = [n \in 1..(revision + 2) |->
                      IF n = revision + 2 THEN new ELSE Versions[n]]
  BY <1>1, <1>2, <1>3, <1>6 DEF Versions
<1>8. /\ Len(Versions) = revision + 1
      /\ Len(Versions') = revision + 2
      /\ Versions[revision + 1] = old
      /\ Versions'[revision + 2] = new
      /\ Versions' = Append(Versions, new)
  <2>1. Versions \in [1..(revision + 1) -> [Tracks -> Values \cup {NoValue}]]
    <3>1. \A n \in 1..(revision + 1) : Snapshot(n - 1) \in [Tracks -> Values \cup {NoValue}]
      BY <1>2, SnapshotType DEF HistoryInv
    <3> QED
      BY <3>1 DEF Versions
  <2>2. Versions[revision + 1] = old
    BY <1>2 DEF Versions
  <2> HIDE DEF new, old
  <2> DEFINE S == [Tracks -> Values \cup {NoValue}]
             v == Versions
             w == Versions'
  <2>3. /\ revision \in Nat /\ v \in [1..(revision + 1) -> S] /\ new \in S
        /\ w \in [1..(revision + 2) -> S]
        /\ w[revision + 2] = new /\ (\A n \in 1..(revision + 1) : w[n] = v[n])
    BY <1>2, <1>5, <1>7, <2>1
  <2> HIDE DEF S, v, w
  <2>4. /\ Len(v) = revision + 1 /\ Len(w) = revision + 2
        /\ w[revision + 2] = new /\ w = Append(v, new)
    BY <2>3, OneMore
  <2> QED
    BY <2>2, <2>4 DEF v, w
<1>9. Offers(draft[s].after)
  BY DEF HistoryInv, CurrentDraftsAreTrue, Reserve
<1>10. Document!Edit(old, new) \/ Document!Revert(old, new)
  <2>1. CASE \A t \in DOMAIN r.after : r.after[t] \in Values
    BY <1>4, <2>1 DEF Document!Edit
  <2>2. CASE \E n \in 0..revision : \A t \in DOMAIN r.after : r.after[t] = Snapshot(n)[t]
    <3>1. PICK n \in 0..revision : \A t \in DOMAIN r.after : r.after[t] = Snapshot(n)[t]
      BY <2>2
    <3>2. n + 1 \in 1..Len(Versions) /\ Versions[n + 1] = Snapshot(n)
      BY <1>2, <1>8 DEF Versions
    <3>3. \A t \in Tracks : new[t] \in {Versions[n + 1][t], old[t]}
      BY <1>4, <3>1, <3>2
    <3> QED
      BY <3>2, <3>3 DEF Document!Revert, Versions
  <2> QED
    BY <1>1, <1>9, <2>1, <2>2 DEF Offers
<1>11. Len(Versions) + 1 = revision + 2 /\ new \in Document!Document
  BY <1>2, <1>5, <1>8 DEF Document!Document
<1> HIDE DEF new, old
<1>12. /\ Len(Versions') = Len(Versions) + 1
       /\ Versions' = Append(Versions, Versions'[Len(Versions) + 1])
       /\ Versions'[Len(Versions) + 1] \in Document!Document
       /\ \/ Document!Edit(Versions[Len(Versions)], Versions'[Len(Versions) + 1])
          \/ Document!Revert(Versions[Len(Versions)], Versions'[Len(Versions) + 1])
  <2>1. Versions'[Len(Versions) + 1] = new /\ Versions[Len(Versions)] = old
    BY <1>8, <1>11
  <2> QED
    BY <1>8, <1>10, <1>11, <2>1
<1> QED
  BY <1>12 DEF Document!Commit, Versions

LEMMA OthersStutter ==
    ASSUME UNCHANGED <<revision, log>>
    PROVE  Versions' = Versions
BY SameSnapshots DEF Versions

(***************************************************************************)
(* The review log implements a document with linear history: a frozen      *)
(* revision is the same document whenever it is replayed (review.py:       *)
(* 146-151, 622-707).                                                      *)
(***************************************************************************)
THEOREM LogImplementsDocument == Spec => ImplementsDocument
<1>1. Init => Document!DocumentInit
  BY InitDocument
<1>2. HistoryInv /\ HistoryInv' /\ [Next]_vars
        => [Document!Commit]_([n \in 1..(revision + 1) |-> Snapshot(n - 1)])
  <2> SUFFICES ASSUME HistoryInv, HistoryInv', [Next]_vars
               PROVE  Document!Commit \/ Versions' = Versions
    BY DEF Versions
  <2>1. ASSUME NEW s \in Sessions, Reserve(s) PROVE Document!Commit
    BY <2>1, ReserveCommits
  <2>2. ASSUME NEW s \in Sessions,
               Begin(s) \/ PrepareEdit(s) \/ PrepareEvent(s) \/ PrepareInverse(s) \/ Abandon(s)
        PROVE  UNCHANGED <<revision, log>>
    BY <2>2 DEF Begin, PrepareEdit, PrepareEvent, PrepareInverse, Prepare, Abandon
  <2>3. CASE UNCHANGED vars
    BY <2>3, OthersStutter DEF vars
  <2> QED
    BY <2>1, <2>2, <2>3, OthersStutter DEF Next
<1> QED
  BY <1>1, <1>2, HistoryInvariant, PTL DEF Spec, ImplementsDocument, Document!DocumentSpec

=============================================================================
