----------------------------- MODULE EpisodePullProofs -----------------------------
(***************************************************************************)
(* What EpisodePull promises, for all devices, actions, pages and times.   *)
(* The invariant follows the time a device asks from, and the time an      *)
(* answer under way will give it: the device knows, or is about to be      *)
(* told, everything up to that time except what came late.                 *)
(***************************************************************************)
EXTENDS EpisodePull, EpisodeTablesProofs, FiniteSetTheorems, WellFoundedInduction, TLAPS

After(n) == {k \in Nat : k > n}

\* Everything that t offers a device that asks in mode m is in S or has a time in T.
Covers(t, m, S, T) ==
    IF m = "history"
    THEN \A h \in DOMAIN t.hist \ S : t.hist[h].ts \in T
    ELSE \A i \in DOMAIN t.episodes :
            \/ t.episodes[i].ts \in T
            \/ \E g \in S \cap DOMAIN t.hist :
                  t.hist[g].episode = i /\ t.hist[g].ts = t.episodes[i].ts

\* A device knows its own actions.
KnowsOwn(t, d, known) == \A h \in DOMAIN t.hist : t.hist[h].device = d => h \in known

\* The times an answer leaves for the next request.
TimesLeft(poll) == IF poll.phase = "read" /\ poll.at = 0 THEN {} ELSE After(poll.at)

\* Only /updates knows the time of its answer before it reads.
AskedAt(m, poll) == poll.phase = "asked" /\ m # "updates" => poll.at = 0

\* Device d, which asks in mode m, is in state c, and L is what came late for it.
Follows(t, d, m, c, L) ==
    /\ KnowsOwn(t, d, c.known)
    /\ Covers(t, m, c.known \cup L, After(c.since))
    /\ AskedAt(m, c.poll)
    /\ c.poll.phase \in {"read", "answered"} =>
          Covers(t, m, c.known \cup L \cup c.poll.rows, TimesLeft(c.poll))

LateOf(d) == {h \in HistIds : <<d, h>> \in late}

FollowsInv == \A d \in Pollers : Follows(db, d, mode[d], client[d], LateOf(d))

Sound(t) == t \in Tables /\ Consistent(t) /\ IsFiniteSet(DOMAIN t.hist)

IInv == TypeOK /\ Sound(db) /\ FollowsInv

-----------------------------------------------------------------------------

\* A finite set of history rows has a last one.
LEMMA LastExists ==
    ASSUME NEW S, IsFiniteSet(S), S # {}, NEW f, \A h \in S : f[h] \in Nat
    PROVE  \E h \in S : \A g \in S : f[g] <= f[h]
  <1> DEFINE HasLast(X) == \E h \in X : \A g \in X : f[g] <= f[h]
             T == {X \in SUBSET S : X # {} /\ ~HasLast(X)}
  <1> SUFFICES ASSUME ~HasLast(S) PROVE FALSE
    OBVIOUS
  <1>1. IsWellFoundedOn(StrictSubsetOrdering(S), FiniteSubsetsOf(S))
    BY FS_StrictSubsetOrderingWellFounded
  <1>2. T \subseteq FiniteSubsetsOf(S)
    BY FS_FiniteSubsetsOfFinite
  <1>3. T # {}
    OBVIOUS
  <1>4. PICK X \in T : \A Y \in T : <<Y, X>> \notin StrictSubsetOrdering(S)
    <2> HIDE DEF T
    <2> QED BY <1>1, <1>2, <1>3, WFMin
  <1>5. PICK x \in X : TRUE
    OBVIOUS
  <1>6. X \ {x} \notin T
    BY <1>4, <1>5 DEF StrictSubsetOrdering
  <1>7. CASE X = {x}
    BY <1>5, <1>7
  <1>8. CASE X # {x}
    <2>1. HasLast(X \ {x})
      BY <1>5, <1>6, <1>8
    <2>2. PICK h \in X \ {x} : \A g \in X \ {x} : f[g] <= f[h]
      BY <2>1
    <2>3. f[h] \in Nat /\ f[x] \in Nat /\ \A g \in X : f[g] \in Nat
      BY <1>5, <2>2
    <2>4. CASE f[x] <= f[h]
      <3>1. \A g \in X : f[g] <= f[h]
        BY <2>2, <2>4
      <3> QED BY <3>1, <2>2
    <2>5. CASE ~(f[x] <= f[h])
      <3>1. \A g \in X : f[g] <= f[x]
        BY <2>2, <2>3, <2>5
      <3> QED BY <3>1, <1>5
    <2> QED BY <2>4, <2>5
  <1> QED BY <1>7, <1>8

\* The time of the last row of a page is the time of a row.
LEMMA LastTsOfRow ==
    ASSUME NEW t \in Tables, NEW S \in SUBSET DOMAIN t.hist, IsFiniteSet(S), S # {}
    PROVE  LastTs(t, S) \in {t.hist[h].ts : h \in S}
  <1> DEFINE f == [h \in S |-> t.hist[h].ts]
  <1>1. \A h \in S : f[h] \in Nat
    BY TablesDef, TablesAssumption DEF HistRow
  <1>2. PICK h \in S : \A g \in S : f[g] <= f[h]
    <2> HIDE DEF f
    <2> QED BY <1>1, LastExists
  <1>3. t.hist[h].ts \in {t.hist[k].ts : k \in S} /\ \A g \in S : t.hist[g].ts <= t.hist[h].ts
    BY <1>2
  <1> QED BY <1>3 DEF LastTs

\* The times of actions are past the first second, and so are their whole seconds.
LEMMA WholeSecondBounds ==
    ASSUME NEW n \in Nat, n >= Second
    PROVE  WholeSecond(n) \in Nat /\ WholeSecond(n) > 0 /\ WholeSecond(n) <= n
  <1>1. Second \in Nat /\ Second > 0
    BY PullAssumption
  <1>2. n % Second \in 0 .. Second - 1
    BY <1>1
  <1> QED BY <1>1, <1>2 DEF WholeSecond

\* The time of a page is not 0, nor after the time of any row that is not on it.
LEMMA PageTime ==
    ASSUME NEW t \in Tables, NEW rows \in SUBSET DOMAIN t.hist, IsFiniteSet(rows),
           NEW S \in Pages(t, rows), S # {}
    PROVE  /\ WholeSecond(LastTs(t, S)) \in Nat /\ WholeSecond(LastTs(t, S)) > 0
           /\ \A g \in rows \ S : WholeSecond(LastTs(t, S)) <= t.hist[g].ts
  <1> DEFINE n == LastTs(t, S)
  <1>1. S \in SUBSET rows /\ \A h \in S, g \in rows \ S : t.hist[h].ts <= t.hist[g].ts
    BY DEF Pages
  <1>2. IsFiniteSet(S)
    BY <1>1, FS_Subset
  <1>3. n \in {t.hist[h].ts : h \in S}
    BY <1>1, <1>2, LastTsOfRow
  <1>4. \A h \in DOMAIN t.hist : t.hist[h].ts \in Nat /\ t.hist[h].ts >= Second
    BY TablesDef, TablesAssumption, PullAssumption DEF HistRow
  <1> HIDE DEF n
  <1>5. n \in Nat /\ n >= Second /\ \A g \in rows \ S : n <= t.hist[g].ts
    BY <1>1, <1>3, <1>4
  <1>6. WholeSecond(n) \in Nat /\ WholeSecond(n) > 0 /\ WholeSecond(n) <= n
    BY <1>5, WholeSecondBounds
  <1>7. \A g \in rows \ S : WholeSecond(n) <= t.hist[g].ts
    <2> SUFFICES ASSUME NEW g \in rows \ S PROVE WholeSecond(n) <= t.hist[g].ts
      OBVIOUS
    <2>1. t.hist[g].ts \in Nat /\ n <= t.hist[g].ts
      BY <1>4, <1>5
    <2> HIDE DEF n
    <2> QED BY <1>5, <1>6, <2>1
  <1> QED BY <1>6, <1>7 DEF n

\* A page is empty only when there is nothing.
LEMMA EmptyPage ==
    ASSUME NEW t, NEW rows, {} \in Pages(t, rows)
    PROVE  rows = {}
  <1>1. {} = rows \/ Cardinality({}) = PageLimit
    BY DEF Pages
  <1>2. Cardinality({}) = 0 /\ PageLimit # 0
    BY FS_EmptySet, PullAssumption
  <1> QED BY <1>1, <1>2

-----------------------------------------------------------------------------
\* What the statements do to what a device has to know.

\* Knowing more, or finding more, covers no less.
LEMMA CoversMore ==
    ASSUME NEW t, NEW m, NEW S, NEW T, NEW S2, NEW T2,
           Covers(t, m, S, T), S \cap DOMAIN t.hist \subseteq S2, T \subseteq T2
    PROVE  Covers(t, m, S2, T2)
  BY DEF Covers

\* Podcasts and devices do not matter.
LEMMA CoversSameRows ==
    ASSUME NEW t, NEW s, s.episodes = t.episodes, s.hist = t.hist
    PROVE  /\ \A m, S, T : Covers(t, m, S, T) => Covers(s, m, S, T)
           /\ \A d, S : KnowsOwn(t, d, S) => KnowsOwn(s, d, S)
  BY DEF Covers, KnowsOwn

\* What SaveAction writes: one episode row and one history row.
LEMMA SaveActionRows ==
    ASSUME NEW t \in Tables, NEW a \in Upload, NEW i \in TargetIds(t, a), NEW h \in FreeHistIds(t),
           NEW s, s = SaveAction(t, a, i, h)
    PROVE  /\ DOMAIN s.episodes = DOMAIN t.episodes \cup {i}
           /\ DOMAIN s.hist = DOMAIN t.hist \cup {h}
           /\ h \notin DOMAIN t.hist
           /\ s.hist[h].episode = i /\ s.hist[h].ts = a.ts /\ s.hist[h].device = a.device
           /\ \A j \in DOMAIN t.episodes : j # i => s.episodes[j] = t.episodes[j]
           /\ \A k \in DOMAIN t.hist : s.hist[k] = t.hist[k]
           /\ i \in DOMAIN t.episodes /\ s.episodes[i].ts # a.ts =>
                 s.episodes[i].ts = t.episodes[i].ts
           /\ i \notin DOMAIN t.episodes => s.episodes[i].ts = a.ts
           /\ i \in DOMAIN t.episodes =>
                 /\ s.episodes[i].podcast = t.episodes[i].podcast
                 /\ s.episodes[i].guid = t.episodes[i].guid
           /\ i \notin DOMAIN t.episodes => s.episodes[i] = a /\ MatchingEpisodes(t, a) = {}
  <1> DEFINE row == EpisodeAfter(t, a, i)
             rec == [episode |-> i, action |-> a.action, device |-> a.device, ts |-> a.ts]
  <1>1. h \notin DOMAIN t.hist
    BY DEF FreeHistIds
  <1>2. s.episodes = PutRow(t.episodes, i, row) /\ s.hist = PutRow(t.hist, h, rec)
    BY DEF SaveAction, Tables
  <1>3. /\ DOMAIN s.episodes = DOMAIN t.episodes \cup {i}
        /\ DOMAIN s.hist = DOMAIN t.hist \cup {h}
        /\ s.episodes[i] = row
        /\ s.hist[h] = rec
        /\ \A j \in DOMAIN t.episodes : j # i => s.episodes[j] = t.episodes[j]
        /\ \A k \in DOMAIN t.hist : s.hist[k] = t.hist[k]
    BY <1>1, <1>2 DEF PutRow
  <1>4. CASE i \notin DOMAIN t.episodes
    <2>1. row = a
      BY <1>4 DEF EpisodeAfter
    <2>2. MatchingEpisodes(t, a) = {}
      BY <1>4 DEF TargetIds, MatchingEpisodes
    <2> QED BY <1>1, <1>3, <1>4, <2>1, <2>2
  <1>5. CASE i \in DOMAIN t.episodes
    <2>1. t.episodes[i] \in EpisodeRow
      BY <1>5, TablesDef
    <2>2. /\ row.podcast = t.episodes[i].podcast /\ row.guid = t.episodes[i].guid
          /\ row.ts = a.ts \/ row.ts = t.episodes[i].ts
      BY <1>5, <2>1 DEF EpisodeAfter, EpisodeRow
    <2> QED BY <1>1, <1>3, <1>5, <2>2
  <1> QED BY <1>4, <1>5

\* An action that is known, or has a time still to be asked for, leaves everything covered.
LEMMA SaveActionCovers ==
    ASSUME NEW t \in Tables, NEW a \in Upload, NEW i \in TargetIds(t, a), NEW h \in FreeHistIds(t),
           NEW m, NEW S, NEW S2, NEW T, S \subseteq S2, h \in S2 \/ a.ts \in T, Covers(t, m, S, T)
    PROVE  Covers(SaveAction(t, a, i, h), m, S2, T)
  <1>1. PICK s : s = SaveAction(t, a, i, h)
    OBVIOUS
  <1>2. /\ DOMAIN s.episodes = DOMAIN t.episodes \cup {i}
        /\ DOMAIN s.hist = DOMAIN t.hist \cup {h}
        /\ s.hist[h].episode = i /\ s.hist[h].ts = a.ts
        /\ \A j \in DOMAIN t.episodes : j # i => s.episodes[j] = t.episodes[j]
        /\ \A k \in DOMAIN t.hist : s.hist[k] = t.hist[k]
        /\ i \in DOMAIN t.episodes /\ s.episodes[i].ts # a.ts => s.episodes[i].ts = t.episodes[i].ts
        /\ i \notin DOMAIN t.episodes => s.episodes[i].ts = a.ts
    BY <1>1, SaveActionRows
  <1>3. CASE m = "history"
    BY <1>2, <1>3, <1>1 DEF Covers
  <1>4. CASE m # "history"
    <2> SUFFICES ASSUME NEW j \in DOMAIN s.episodes
                 PROVE  \/ s.episodes[j].ts \in T
                        \/ \E g \in S2 \cap DOMAIN s.hist :
                              s.hist[g].episode = j /\ s.hist[g].ts = s.episodes[j].ts
      BY <1>1, <1>4 DEF Covers
    <2>1. CASE j = i /\ s.episodes[i].ts = a.ts
      BY <1>2, <2>1
    <2>2. CASE j \in DOMAIN t.episodes /\ s.episodes[j].ts = t.episodes[j].ts
      <3>1. \/ t.episodes[j].ts \in T
            \/ \E g \in S \cap DOMAIN t.hist :
                  t.hist[g].episode = j /\ t.hist[g].ts = t.episodes[j].ts
        BY <1>4, <2>2 DEF Covers
      <3> QED BY <1>2, <2>2, <3>1
    <2> QED BY <1>2, <2>1, <2>2
  <1> QED BY <1>3, <1>4

\* A device row that goes away takes nothing with it.
LEMMA WithoutDeviceRows ==
    ASSUME NEW t \in Tables, NEW d \in Devices, NEW s, s = WithoutDevice(t, d)
    PROVE  /\ DOMAIN s.episodes = DOMAIN t.episodes
           /\ DOMAIN s.hist = DOMAIN t.hist
           /\ \A i \in DOMAIN t.episodes : /\ s.episodes[i].ts = t.episodes[i].ts
                                           /\ s.episodes[i].podcast = t.episodes[i].podcast
                                           /\ s.episodes[i].guid = t.episodes[i].guid
           /\ \A h \in DOMAIN t.hist : /\ s.hist[h].episode = t.hist[h].episode
                                       /\ s.hist[h].ts = t.hist[h].ts
                                       /\ s.hist[h].device \in {t.hist[h].device, None}
  <1> DEFINE erow(i) == IF t.episodes[i].device = d
                        THEN [t.episodes[i] EXCEPT !.device = None] ELSE t.episodes[i]
             hrow(h) == IF t.hist[h].device = d
                        THEN [t.hist[h] EXCEPT !.device = None] ELSE t.hist[h]
             eps == [i \in DOMAIN t.episodes |-> erow(i)]
             hst == [h \in DOMAIN t.hist |-> hrow(h)]
  <1>1. \A i \in DOMAIN t.episodes : /\ erow(i).ts = t.episodes[i].ts
                                     /\ erow(i).podcast = t.episodes[i].podcast
                                     /\ erow(i).guid = t.episodes[i].guid
    BY TablesDef DEF EpisodeRow
  <1>2. \A h \in DOMAIN t.hist : /\ hrow(h).episode = t.hist[h].episode
                                 /\ hrow(h).ts = t.hist[h].ts
                                 /\ hrow(h).device \in {t.hist[h].device, None}
    BY TablesDef DEF HistRow
  <1>3. s.episodes = eps /\ s.hist = hst
    BY DEF WithoutDevice, Tables
  <1> QED BY <1>1, <1>2, <1>3

LEMMA WithoutDeviceCovers ==
    ASSUME NEW t \in Tables, NEW d \in Devices
    PROVE  /\ \A m, S, T : Covers(t, m, S, T) => Covers(WithoutDevice(t, d), m, S, T)
           /\ \A e \in Devices : \A S : KnowsOwn(t, e, S) => KnowsOwn(WithoutDevice(t, d), e, S)
  <1>1. PICK s : s = WithoutDevice(t, d)
    OBVIOUS
  <1>2. /\ DOMAIN s.episodes = DOMAIN t.episodes
        /\ DOMAIN s.hist = DOMAIN t.hist
        /\ \A i \in DOMAIN t.episodes : /\ s.episodes[i].ts = t.episodes[i].ts
                                        /\ s.episodes[i].podcast = t.episodes[i].podcast
                                        /\ s.episodes[i].guid = t.episodes[i].guid
        /\ \A h \in DOMAIN t.hist : /\ s.hist[h].episode = t.hist[h].episode
                                    /\ s.hist[h].ts = t.hist[h].ts
                                    /\ s.hist[h].device \in {t.hist[h].device, None}
    BY <1>1, WithoutDeviceRows
  <1>3. \A m, S, T : Covers(t, m, S, T) => Covers(s, m, S, T)
    BY <1>2 DEF Covers
  <1>4. \A e \in Devices : \A S : KnowsOwn(t, e, S) => KnowsOwn(s, e, S)
    BY <1>2, TablesAssumption DEF KnowsOwn
  <1> QED BY <1>1, <1>3, <1>4

\* A podcast that goes away takes its episodes and their history, and nothing else.
LEMMA WithoutPodcastCovers ==
    ASSUME NEW t \in Tables, NEW p \in Podcasts, NEW s, s = WithoutPodcast(t, p)
    PROVE  /\ DOMAIN s.hist \subseteq DOMAIN t.hist
           /\ \A m, S, T : Covers(t, m, S, T) => Covers(s, m, S \cap DOMAIN s.hist, T)
           /\ \A d, S : KnowsOwn(t, d, S) => KnowsOwn(s, d, S \cap DOMAIN s.hist)
  <1> DEFINE left == {i \in DOMAIN t.episodes : t.episodes[i].podcast # p}
             kept == {h \in DOMAIN t.hist : t.hist[h].episode \in left}
  <1>1. s.episodes = KeepRows(t.episodes, left) /\ s.hist = KeepRows(t.hist, kept)
    BY DEF WithoutPodcast, Tables
  <1>2. /\ DOMAIN s.episodes = left /\ DOMAIN s.hist = kept
        /\ \A i \in left : s.episodes[i] = t.episodes[i]
        /\ \A h \in kept : s.hist[h] = t.hist[h]
    BY <1>1 DEF KeepRows
  <1>3. ASSUME NEW m, NEW S, NEW T, Covers(t, m, S, T)
        PROVE  Covers(s, m, S \cap DOMAIN s.hist, T)
    <2>1. CASE m = "history"
      BY <1>2, <1>3, <2>1 DEF Covers
    <2>2. CASE m # "history"
      BY <1>2, <1>3, <2>2 DEF Covers
    <2> QED BY <2>1, <2>2
  <1>4. \A d, S : KnowsOwn(t, d, S) => KnowsOwn(s, d, S \cap DOMAIN s.hist)
    BY <1>2 DEF KnowsOwn
  <1> QED BY <1>2, <1>3, <1>4

\* A device that uploads knows what it uploaded, and the others' rows are not its own.
LEMMA SaveActionOwn ==
    ASSUME NEW t \in Tables, NEW a \in Upload, NEW i \in TargetIds(t, a), NEW h \in FreeHistIds(t),
           NEW d, NEW S, NEW S2, S \subseteq S2, a.device = d => h \in S2, KnowsOwn(t, d, S)
    PROVE  KnowsOwn(SaveAction(t, a, i, h), d, S2)
  <1>1. PICK s : s = SaveAction(t, a, i, h)
    OBVIOUS
  <1>2. /\ DOMAIN s.hist = DOMAIN t.hist \cup {h}
        /\ s.hist[h].device = a.device
        /\ \A k \in DOMAIN t.hist : s.hist[k] = t.hist[k]
    BY <1>1, SaveActionRows
  <1> QED BY <1>1, <1>2 DEF KnowsOwn

LEMMA EmptySound == Sound(EmptyTables)
  <1>1. DOMAIN EmptyTables.hist = {} /\ DOMAIN EmptyTables.episodes = {}
    BY DEF EmptyTables
  <1> QED BY <1>1, EmptyConsistent, FS_EmptySet DEF Sound

\* The tables after an upload of one action: its podcast and device are there first.
LEMMA UploadSound ==
    ASSUME NEW t0, Sound(t0), NEW a \in Upload, a.device # None,
           NEW t, t = EnsureDevice(EnsurePodcast(t0, a.podcast), a.device),
           NEW i \in TargetIds(t, a), NEW h \in FreeHistIds(t)
    PROVE  /\ t \in Tables /\ t.episodes = t0.episodes /\ t.hist = t0.hist
           /\ Sound(SaveAction(t, a, i, h))
  <1>1. a.podcast \in Podcasts /\ a.device \in Devices
    BY DEF Upload, EpisodeRow
  <1> DEFINE u == EnsurePodcast(t0, a.podcast)
  <1>2. u \in Tables /\ Consistent(u) /\ u.episodes = t0.episodes /\ u.hist = t0.hist
    BY <1>1, EnsurePodcastConsistent DEF Sound, EnsurePodcast, Tables
  <1>3. t \in Tables /\ Consistent(t) /\ t.episodes = t0.episodes /\ t.hist = t0.hist
    BY <1>1, <1>2, EnsureDeviceConsistent DEF EnsureDevice, Tables
  <1>4. Ready(t, a)
    BY ResolveMakesReady DEF Sound
  <1>5. SaveAction(t, a, i, h) \in Tables /\ Consistent(SaveAction(t, a, i, h))
    BY <1>3, <1>4, SaveActionConsistent
  <1>7. DOMAIN SaveAction(t, a, i, h).hist = DOMAIN t.hist \cup {h}
    BY <1>3, SaveActionRows
  <1>8. IsFiniteSet(DOMAIN SaveAction(t, a, i, h).hist)
    BY <1>3, <1>7, FS_AddElement DEF Sound
  <1> QED BY <1>3, <1>5, <1>8 DEF Sound

LEMMA EnsureDeviceSound ==
    ASSUME NEW t, Sound(t), NEW d \in Devices
    PROVE  /\ Sound(EnsureDevice(t, d))
           /\ EnsureDevice(t, d).episodes = t.episodes /\ EnsureDevice(t, d).hist = t.hist
  <1>1. EnsureDevice(t, d).episodes = t.episodes /\ EnsureDevice(t, d).hist = t.hist
    BY DEF Sound, EnsureDevice, Tables
  <1> QED BY <1>1, EnsureDeviceConsistent DEF Sound

LEMMA WithoutDeviceSound ==
    ASSUME NEW t, Sound(t), NEW d \in Devices
    PROVE  Sound(WithoutDevice(t, d))
  <1>1. DOMAIN WithoutDevice(t, d).hist = DOMAIN t.hist
    BY WithoutDeviceRows DEF Sound
  <1> QED BY <1>1, WithoutDeviceConsistent DEF Sound

LEMMA WithoutPodcastSound ==
    ASSUME NEW t, Sound(t), NEW p \in Podcasts
    PROVE  Sound(WithoutPodcast(t, p))
  <1>1. DOMAIN WithoutPodcast(t, p).hist \subseteq DOMAIN t.hist
    BY WithoutPodcastCovers DEF Sound
  <1>2. IsFiniteSet(DOMAIN WithoutPodcast(t, p).hist)
    BY <1>1, FS_Subset DEF Sound
  <1> QED BY <1>2, WithoutPodcastConsistent DEF Sound

-----------------------------------------------------------------------------
\* What an answer covers.

\* A device that asks for the history: what a page leaves out comes later or is cut off.
LEMMA HistoryCovered ==
    ASSUME IInv, NEW d \in Pollers, mode[d] = "history", NEW S \in Answers(d), S # {}
    PROVE  LET at == WholeSecond(LastTs(db, S))
           IN  /\ at \in Nat /\ at > 0
               /\ Covers(db, "history",
                         client[d].known \cup LateOf(d) \cup CutOff(d, S, at) \cup S, After(at))
  <1> DEFINE rows == HistoryRows(db, d, client[d].since)
             at == WholeSecond(LastTs(db, S))
  <1>1. Found(d) = rows /\ S \in Pages(db, rows)
    BY DEF Answers, Found
  <1>2. rows \in SUBSET DOMAIN db.hist /\ IsFiniteSet(rows)
    BY FS_Subset DEF IInv, Sound, HistoryRows
  <1>3. at \in Nat /\ at > 0 /\ \A g \in rows \ S : at <= db.hist[g].ts
    <2> HIDE DEF rows
    <2> QED BY <1>1, <1>2, PageTime DEF IInv, Sound
  <1> HIDE DEF at
  <1>4. ASSUME NEW h \in DOMAIN db.hist, h \notin S, h \notin client[d].known \cup LateOf(d),
               h \notin CutOff(d, S, at)
        PROVE  db.hist[h].ts \in After(at)
    <2>1. db.hist[h].ts \in After(client[d].since) /\ db.hist[h].device # d
      BY <1>4 DEF IInv, FollowsInv, Follows, Covers, KnowsOwn
    <2>2. h \in rows \ S
      BY <1>4, <2>1 DEF HistoryRows, After
    <2>3. db.hist[h].ts # at
      BY <1>1, <1>4, <2>2 DEF CutOff
    <2>4. db.hist[h].ts \in Nat /\ at <= db.hist[h].ts
      BY <1>3, <2>1, <2>2 DEF After
    <2> QED BY <1>3, <2>3, <2>4 DEF After
  <1> QED BY <1>3, <1>4 DEF Covers, at

\* An episode the device does not know the last action of is after the time it asks from.
LEMMA EpisodesFollow ==
    ASSUME IInv, NEW d \in Pollers, mode[d] # "history", NEW i \in DOMAIN db.episodes
    PROVE  \/ \E g \in (client[d].known \cup LateOf(d)) \cap DOMAIN db.hist :
                 db.hist[g].episode = i /\ db.hist[g].ts = db.episodes[i].ts
           \/ db.episodes[i].ts \in After(client[d].since) /\ db.episodes[i].device # d
  <1>1. \/ \E g \in (client[d].known \cup LateOf(d)) \cap DOMAIN db.hist :
              db.hist[g].episode = i /\ db.hist[g].ts = db.episodes[i].ts
        \/ db.episodes[i].ts \in After(client[d].since)
    BY DEF IInv, FollowsInv, Follows, Covers
  <1>2. PICK h \in DOMAIN db.hist : Shows(db, i, h)
    BY DEF IInv, Sound, Consistent, ShowsLatest
  <1>3. db.episodes[i].device = d => h \in client[d].known
    BY <1>2 DEF IInv, FollowsInv, Follows, KnowsOwn, Shows
  <1> QED BY <1>1, <1>2, <1>3 DEF Shows

\* A device that asks for updates is shown every such episode.
LEMMA UpdatesCovered ==
    ASSUME IInv, NEW d \in Pollers, mode[d] = "updates", NEW S \in Answers(d), NEW T
    PROVE  Covers(db, "updates", client[d].known \cup LateOf(d) \cup S, T)
  <1>1. S = ShownRows(db, client[d].since)
    BY DEF Answers, Found
  <1> SUFFICES ASSUME NEW i \in DOMAIN db.episodes,
                      ~ \E g \in (client[d].known \cup LateOf(d)) \cap DOMAIN db.hist :
                           db.hist[g].episode = i /\ db.hist[g].ts = db.episodes[i].ts
               PROVE  \E g \in S \cap DOMAIN db.hist :
                         db.hist[g].episode = i /\ db.hist[g].ts = db.episodes[i].ts
    BY DEF Covers
  <1>2. db.episodes[i].ts > client[d].since
    BY EpisodesFollow DEF After
  <1>3. PICK h \in DOMAIN db.hist : Shows(db, i, h)
    BY DEF IInv, Sound, Consistent, ShowsLatest
  <1>4. h \in S
    BY <1>1, <1>2, <1>3 DEF ShownRows, Shows
  <1> QED BY <1>3, <1>4 DEF Shows

\* The subquery finds the last action of every such episode.
LEMMA LastFound ==
    ASSUME IInv, NEW d \in Pollers, mode[d] = "aggregated", NEW X \in OneEach(db, Found(d)),
           NEW i \in DOMAIN db.episodes,
           ~ \E g \in (client[d].known \cup LateOf(d)) \cap DOMAIN db.hist :
                db.hist[g].episode = i /\ db.hist[g].ts = db.episodes[i].ts
    PROVE  \E g \in X : db.hist[g].episode = i /\ db.hist[g].ts = db.episodes[i].ts
  <1>1. db.episodes[i].ts > client[d].since /\ db.episodes[i].device # d
    BY EpisodesFollow DEF After
  <1>2. PICK h \in DOMAIN db.hist : Shows(db, i, h)
    BY DEF IInv, Sound, Consistent, ShowsLatest
  <1>3. \A g \in DOMAIN db.hist : db.hist[g].episode = i => db.hist[g].ts <= db.episodes[i].ts
    BY DEF IInv, Sound, Consistent, ShowsLatest
  <1>4. h \in LastRows(db, i)
    BY <1>2, <1>3 DEF LastRows, Shows
  <1>5. Found(d) = LastOtherRows(db, d, client[d].since)
    BY DEF Found
  <1>6. h \in Found(d)
    BY <1>1, <1>2, <1>4, <1>5 DEF LastOtherRows, Shows
  <1>7. PICK g \in X : db.hist[g].episode = i
    BY <1>2, <1>6 DEF OneEach, Shows
  <1>8. g \in Found(d)
    BY DEF OneEach
  <1>9. g \in DOMAIN db.hist /\ g \in LastRows(db, i)
    BY <1>5, <1>7, <1>8 DEF LastOtherRows
  <1>10. db.hist[h].ts <= db.hist[g].ts /\ db.hist[g].ts <= db.episodes[i].ts
    BY <1>2, <1>3, <1>7, <1>9 DEF LastRows, Shows
  <1>11. db.hist[h].ts = db.episodes[i].ts
    BY <1>2 DEF Shows
  <1>12. db.hist[g].ts \in Nat /\ db.episodes[i].ts \in Nat
    BY <1>9, TablesDef, TablesAssumption DEF HistRow, EpisodeRow, IInv, Sound
  <1>13. db.hist[g].ts = db.episodes[i].ts
    BY <1>10, <1>11, <1>12
  <1> QED BY <1>7, <1>13

\* A device that asks for the last action of each episode.
LEMMA AggregatedCovered ==
    ASSUME IInv, NEW d \in Pollers, mode[d] = "aggregated", NEW S \in Answers(d), S # {}
    PROVE  LET at == WholeSecond(LastTs(db, S))
           IN  /\ at \in Nat /\ at > 0
               /\ Covers(db, "aggregated",
                         client[d].known \cup LateOf(d) \cup CutOff(d, S, at) \cup S, After(at))
  <1> DEFINE at == WholeSecond(LastTs(db, S))
  <1>1. PICK X \in OneEach(db, Found(d)) : S \in Pages(db, X)
    BY DEF Answers
  <1>2. Found(d) \in SUBSET DOMAIN db.hist
    BY DEF Found, LastOtherRows
  <1>3. X \in SUBSET DOMAIN db.hist /\ X \subseteq Found(d)
    BY <1>2 DEF OneEach
  <1>4. IsFiniteSet(X)
    BY <1>3, FS_Subset DEF IInv, Sound
  <1>5. at \in Nat /\ at > 0 /\ \A g \in X \ S : at <= db.hist[g].ts
    BY <1>1, <1>3, <1>4, PageTime DEF IInv, Sound
  <1> HIDE DEF at
  <1>6. ASSUME NEW i \in DOMAIN db.episodes,
               ~ \E g \in (client[d].known \cup LateOf(d)) \cap DOMAIN db.hist :
                    db.hist[g].episode = i /\ db.hist[g].ts = db.episodes[i].ts
        PROVE  \/ db.episodes[i].ts \in After(at)
               \/ \E g \in (CutOff(d, S, at) \cup S) \cap DOMAIN db.hist :
                     db.hist[g].episode = i /\ db.hist[g].ts = db.episodes[i].ts
    <2>1. PICK g \in X : db.hist[g].episode = i /\ db.hist[g].ts = db.episodes[i].ts
      BY <1>6, LastFound
    <2>2. CASE g \in S \/ db.hist[g].ts = at
      BY <1>3, <2>1, <2>2 DEF CutOff
    <2>3. CASE g \notin S /\ db.hist[g].ts # at
      <3>1. db.episodes[i].ts \in Nat
        BY TablesDef, TablesAssumption DEF EpisodeRow, IInv, Sound
      <3> QED BY <1>5, <2>1, <2>3, <3>1 DEF After
    <2> QED BY <2>2, <2>3
  <1>7. Covers(db, "aggregated",
               client[d].known \cup LateOf(d) \cup CutOff(d, S, at) \cup S, After(at))
    BY <1>6 DEF Covers
  <1> QED BY <1>5, <1>7 DEF at

\* An empty answer leaves nothing.
LEMMA EmptyAnswer ==
    ASSUME IInv, NEW d \in Pollers, mode[d] # "updates", {} \in Answers(d), NEW T
    PROVE  Covers(db, mode[d], client[d].known \cup LateOf(d), T)
  <1>1. CASE mode[d] = "history"
    <2>1. HistoryRows(db, d, client[d].since) = {}
      BY <1>1, EmptyPage DEF Answers, Found
    <2>2. ASSUME NEW h \in DOMAIN db.hist PROVE h \in client[d].known \cup LateOf(d)
      BY <1>1, <2>1, <2>2 DEF HistoryRows, IInv, FollowsInv, Follows, Covers, KnowsOwn, After
    <2> QED BY <1>1, <2>2 DEF Covers
  <1>2. CASE mode[d] = "aggregated"
    <2>1. PICK X \in OneEach(db, Found(d)) : {} \in Pages(db, X)
      BY <1>2 DEF Answers
    <2>2. X = {}
      BY <2>1, EmptyPage
    <2>3. ASSUME NEW i \in DOMAIN db.episodes
          PROVE  \E g \in (client[d].known \cup LateOf(d)) \cap DOMAIN db.hist :
                    db.hist[g].episode = i /\ db.hist[g].ts = db.episodes[i].ts
      BY <1>2, <2>1, <2>2, LastFound
    <2> QED BY <1>2, <2>3 DEF Covers
  <1>3. mode[d] \in Modes
    BY DEF IInv, TypeOK
  <1> QED BY <1>1, <1>2, <1>3 DEF Modes

\* An answer covers what is not after the time it carries.
LEMMA AnswerCovers ==
    ASSUME IInv, NEW d \in Pollers, client[d].poll.phase = "asked", NEW S \in Answers(d),
           NEW at, at = IF mode[d] # "updates" /\ S # {} THEN WholeSecond(LastTs(db, S))
                        ELSE client[d].poll.at
    PROVE  /\ S \subseteq HistIds
           /\ at \in Nat
           /\ Covers(db, mode[d], client[d].known \cup LateOf(d) \cup CutOff(d, S, at) \cup S,
                     IF at = 0 THEN {} ELSE After(at))
  <1>1. S \subseteq HistIds
    <2>1. Found(d) \subseteq DOMAIN db.hist
      BY DEF Found, ShownRows, HistoryRows, LastOtherRows
    <2>2. S \subseteq Found(d)
      BY DEF Answers, Pages, OneEach
    <2> QED BY <2>1, <2>2, TablesDef DEF IInv, Sound
  <1>2. client[d].poll.at \in Nat /\ (mode[d] # "updates" => client[d].poll.at = 0)
    <2>1. client[d].poll \in Poll
      BY DEF IInv, TypeOK, Client
    <2>2. client[d].poll.at \in Nat
      BY <2>1 DEF Poll, NoPoll
    <2> QED BY <2>2 DEF IInv, FollowsInv, Follows, AskedAt
  <1>3. CASE mode[d] = "updates"
    <2> DEFINE T == IF at = 0 THEN {} ELSE After(at)
    <2>1. Covers(db, mode[d], client[d].known \cup LateOf(d) \cup S, T)
      BY <1>3, UpdatesCovered
    <2> HIDE DEF T
    <2>2. Covers(db, mode[d], client[d].known \cup LateOf(d) \cup CutOff(d, S, at) \cup S, T)
      BY <2>1, CoversMore
    <2> QED BY <1>1, <1>2, <1>3, <2>2 DEF T
  <1>4. CASE mode[d] # "updates" /\ S = {}
    <2> DEFINE T == IF at = 0 THEN {} ELSE After(at)
    <2>1. Covers(db, mode[d], client[d].known \cup LateOf(d), T)
      BY <1>4, EmptyAnswer
    <2> HIDE DEF T
    <2>2. Covers(db, mode[d], client[d].known \cup LateOf(d) \cup CutOff(d, S, at) \cup S, T)
      BY <2>1, CoversMore
    <2> QED BY <1>1, <1>2, <1>4, <2>2 DEF T
  <1>5. CASE mode[d] = "history" /\ S # {}
    BY <1>1, <1>5, HistoryCovered
  <1>6. CASE mode[d] = "aggregated" /\ S # {}
    BY <1>1, <1>6, AggregatedCovered
  <1>7. mode[d] \in Modes
    BY DEF IInv, TypeOK
  <1> QED BY <1>3, <1>4, <1>5, <1>6, <1>7 DEF Modes

-----------------------------------------------------------------------------
\* The steps of the devices.

\* More that came late asks for less.
LEMMA FollowsMore ==
    ASSUME NEW t, NEW d, NEW m, NEW c, NEW L, NEW L2, L \subseteq L2, Follows(t, d, m, c, L)
    PROVE  Follows(t, d, m, c, L2)
  <1>1. Covers(t, m, c.known \cup L2, After(c.since))
    BY CoversMore DEF Follows
  <1>2. c.poll.phase \in {"read", "answered"} =>
           Covers(t, m, c.known \cup L2 \cup c.poll.rows, TimesLeft(c.poll))
    BY CoversMore DEF Follows
  <1> QED BY <1>1, <1>2 DEF Follows

\* A step of device d that leaves the tables alone keeps the invariant if d still follows.
LEMMA SyncStep ==
    ASSUME IInv, NEW d \in Pollers, UNCHANGED <<db, clock, mode>>,
           client' \in [Pollers -> Client], \A e \in Pollers : e # d => client'[e] = client[e],
           late \subseteq late', late' \subseteq Pollers \X HistIds,
           Follows(db, d, mode[d], client'[d], LateOf(d)')
    PROVE  IInv'
  <1>1. TypeOK'
    BY DEF IInv, TypeOK
  <1>2. Sound(db')
    BY DEF IInv
  <1>3. ASSUME NEW e \in Pollers
        PROVE  Follows(db', e, mode'[e], client'[e], LateOf(e)')
    <2>1. CASE e = d
      BY <2>1
    <2>2. CASE e # d
      <3>1. Follows(db, e, mode[e], client[e], LateOf(e))
        BY DEF IInv, FollowsInv
      <3>2. LateOf(e) \subseteq LateOf(e)'
        BY DEF LateOf
      <3>3. client'[e] = client[e]
        BY <2>2
      <3> QED BY <3>1, <3>2, <3>3, FollowsMore
    <2> QED BY <2>1, <2>2
  <1> QED BY <1>1, <1>2, <1>3 DEF IInv, FollowsInv

\* What device d has, field by field.
LEMMA ClientDef ==
    ASSUME IInv, NEW d \in Pollers
    PROVE  /\ client \in [Pollers -> Client]
           /\ client[d].known \in SUBSET HistIds /\ client[d].since \in Nat
           /\ client[d].poll \in Poll
           /\ Follows(db, d, mode[d], client[d], LateOf(d))
  BY DEF IInv, TypeOK, Client, FollowsInv

LEMMA AskKeeps ==
    ASSUME IInv, NEW d \in Pollers, Ask(d)
    PROVE  IInv'
  <1> DEFINE poll == [phase |-> "asked", at |-> IF mode[d] = "updates" THEN clock ELSE 0]
             c == [client[d] EXCEPT !.poll = poll]
  <1>1. client' = [client EXCEPT ![d] = c]
    BY DEF Ask
  <1>2. clock \in Nat
    BY PullAssumption DEF IInv, TypeOK
  <1>3. poll \in Poll
    BY <1>2 DEF Poll
  <1>4. /\ c \in Client /\ c.known = client[d].known /\ c.since = client[d].since
        /\ c.poll.phase = "asked" /\ c.poll.at = IF mode[d] = "updates" THEN clock ELSE 0
    BY <1>3, ClientDef DEF Client, IInv, TypeOK
  <1> HIDE DEF c, poll
  <1>5. client' \in [Pollers -> Client] /\ client'[d] = c
    BY <1>1, <1>4, ClientDef
  <1>6. Follows(db, d, mode[d], c, LateOf(d))
    BY <1>4, ClientDef DEF Follows, AskedAt
  <1>7. LateOf(d)' = LateOf(d) /\ late' = late /\ UNCHANGED <<db, clock, mode>>
    BY DEF Ask, LateOf
  <1>8. \A e \in Pollers : e # d => client'[e] = client[e]
    BY <1>1, ClientDef
  <1>9. late' \subseteq Pollers \X HistIds
    BY <1>7 DEF IInv, TypeOK
  <1> QED BY <1>5, <1>6, <1>7, <1>8, <1>9, SyncStep

LEMMA ReadKeeps ==
    ASSUME IInv, NEW d \in Pollers, Read(d)
    PROVE  IInv'
  <1>1. client[d].poll.phase = "asked" /\ UNCHANGED <<db, clock, mode>>
    BY DEF Read
  <1> DEFINE time(S) == IF mode[d] # "updates" /\ S # {} THEN WholeSecond(LastTs(db, S))
                        ELSE client[d].poll.at
  <1>2. PICK S \in Answers(d) :
           /\ client' = [client EXCEPT ![d].poll = [phase |-> "read", at |-> time(S), rows |-> S]]
           /\ late' = late \cup ({d} \X CutOff(d, S, time(S)))
    BY DEF Read
  <1> DEFINE at == time(S)
             poll == [phase |-> "read", at |-> at, rows |-> S]
             c == [client[d] EXCEPT !.poll = poll]
  <1>3. /\ S \subseteq HistIds /\ at \in Nat
        /\ Covers(db, mode[d], client[d].known \cup LateOf(d) \cup CutOff(d, S, at) \cup S,
                  IF at = 0 THEN {} ELSE After(at))
    BY <1>1, <1>2, AnswerCovers
  <1>4. client' = [client EXCEPT ![d] = c]
    BY <1>2
  <1>5. /\ c \in Client /\ c.known = client[d].known /\ c.since = client[d].since
        /\ c.poll.phase = "read" /\ c.poll.at = at /\ c.poll.rows = S
    <2> HIDE DEF at
    <2> QED BY <1>3, ClientDef DEF Client, Poll, IInv, TypeOK
  <1>6. late' = late \cup ({d} \X CutOff(d, S, at))
    BY <1>2
  <1> HIDE DEF c, poll, at
  <1>7. client' \in [Pollers -> Client] /\ client'[d] = c
    BY <1>4, <1>5, ClientDef
  <1>8. CutOff(d, S, at) \subseteq HistIds
    BY TablesDef DEF CutOff, Found, ShownRows, HistoryRows, LastOtherRows, IInv, Sound
  <1>9. LateOf(d)' = LateOf(d) \cup CutOff(d, S, at)
    BY <1>6, <1>8 DEF LateOf
  <1>10. Covers(db, mode[d], c.known \cup LateOf(d)', After(c.since))
    <2>1. Covers(db, mode[d], client[d].known \cup LateOf(d), After(client[d].since))
      BY ClientDef DEF Follows
    <2>2. Covers(db, mode[d], client[d].known \cup LateOf(d)', After(client[d].since))
      BY <1>9, <2>1, CoversMore
    <2> QED BY <1>5, <2>2
  <1>11. Covers(db, mode[d], c.known \cup LateOf(d)' \cup c.poll.rows, TimesLeft(c.poll))
    <2>1. TimesLeft(c.poll) = IF at = 0 THEN {} ELSE After(at)
      BY <1>5 DEF TimesLeft
    <2>2. Covers(db, mode[d], client[d].known \cup LateOf(d)' \cup S,
                 IF at = 0 THEN {} ELSE After(at))
      BY <1>3, <1>9, CoversMore
    <2> QED BY <1>5, <2>1, <2>2
  <1>12. Follows(db, d, mode[d], c, LateOf(d)')
    BY <1>5, <1>10, <1>11, ClientDef DEF Follows, AskedAt
  <1>13. \A e \in Pollers : e # d => client'[e] = client[e]
    BY <1>4, ClientDef
  <1>14. late \subseteq late' /\ late' \subseteq Pollers \X HistIds
    BY <1>6, <1>8 DEF IInv, TypeOK
  <1> QED BY <1>1, <1>7, <1>12, <1>13, <1>14, SyncStep

LEMMA AnswerKeeps ==
    ASSUME IInv, NEW d \in Pollers, Answer(d)
    PROVE  IInv'
  <1>1. client[d].poll.phase = "read" /\ UNCHANGED <<db, clock, mode, late>>
    BY DEF Answer
  <1>2. /\ client[d].poll \in [phase : {"read", "answered"}, at : Nat, rows : SUBSET HistIds]
        /\ clock \in Nat
    BY <1>1, ClientDef, PullAssumption DEF Poll, NoPoll, IInv, TypeOK
  <1> DEFINE at == IF client[d].poll.at = 0 THEN clock ELSE client[d].poll.at
             poll == [phase |-> "answered", at |-> at, rows |-> client[d].poll.rows]
             c == [client[d] EXCEPT !.poll = poll]
  <1>3. client' = [client EXCEPT ![d] = c]
    BY DEF Answer
  <1>4. /\ c \in Client /\ c.known = client[d].known /\ c.since = client[d].since
        /\ c.poll.phase = "answered" /\ c.poll.at = at /\ c.poll.rows = client[d].poll.rows
    BY <1>2, ClientDef DEF Client, Poll, IInv, TypeOK
  <1>5. TimesLeft(client[d].poll) \subseteq After(at)
    BY <1>1 DEF TimesLeft
  <1> HIDE DEF c, poll, at
  <1>6. client' \in [Pollers -> Client]
    BY <1>3, <1>4, ClientDef
  <1>7. Covers(db, mode[d], c.known \cup LateOf(d) \cup c.poll.rows, TimesLeft(c.poll))
    <2>1. TimesLeft(c.poll) = After(at)
      BY <1>4 DEF TimesLeft
    <2>2. Covers(db, mode[d], client[d].known \cup LateOf(d) \cup client[d].poll.rows,
                 TimesLeft(client[d].poll))
      BY <1>1, ClientDef DEF Follows
    <2>3. Covers(db, mode[d], client[d].known \cup LateOf(d) \cup client[d].poll.rows, After(at))
      BY <1>5, <2>2, CoversMore
    <2> QED BY <1>4, <2>1, <2>3
  <1>8. Follows(db, d, mode[d], c, LateOf(d))
    BY <1>4, <1>7, ClientDef DEF Follows, AskedAt
  <1>9. LateOf(d)' = LateOf(d) /\ late' \subseteq Pollers \X HistIds
    BY <1>1 DEF LateOf, IInv, TypeOK
  <1>10. \A e \in Pollers : e # d => client'[e] = client[e]
    BY <1>3, ClientDef
  <1> QED BY <1>1, <1>3, <1>6, <1>8, <1>9, <1>10, SyncStep

LEMMA TakeKeeps ==
    ASSUME IInv, NEW d \in Pollers, Take(d)
    PROVE  IInv'
  <1>1. client[d].poll.phase = "answered" /\ UNCHANGED <<db, clock, mode, late>>
    BY DEF Take
  <1>2. client[d].poll \in [phase : {"read", "answered"}, at : Nat, rows : SUBSET HistIds]
    BY <1>1, ClientDef DEF Poll, NoPoll
  <1> DEFINE c == [known |-> client[d].known \cup client[d].poll.rows,
                   since |-> client[d].poll.at, poll |-> NoPoll]
  <1>3. client' = [client EXCEPT ![d] = c]
    BY DEF Take
  <1>4. /\ c \in Client /\ c.known = client[d].known \cup client[d].poll.rows
        /\ c.since = client[d].poll.at /\ c.poll.phase = "idle"
    BY <1>2, ClientDef DEF Client, Poll, NoPoll
  <1> HIDE DEF c
  <1>5. client' \in [Pollers -> Client] /\ client'[d] = c
    BY <1>3, <1>4, ClientDef
  <1>6. Covers(db, mode[d], c.known \cup LateOf(d), After(c.since))
    BY <1>1, <1>4, ClientDef, CoversMore DEF Follows, TimesLeft
  <1>7. Follows(db, d, mode[d], c, LateOf(d))
    BY <1>4, <1>6, ClientDef DEF Follows, AskedAt, KnowsOwn
  <1>8. LateOf(d)' = LateOf(d) /\ late' \subseteq Pollers \X HistIds
    BY <1>1 DEF LateOf, IInv, TypeOK
  <1>9. \A e \in Pollers : e # d => client'[e] = client[e]
    BY <1>3, ClientDef
  <1> QED BY <1>1, <1>5, <1>7, <1>8, <1>9, SyncStep

\* An answer that is lost, and an error.
LEMMA LoseKeeps ==
    ASSUME IInv, NEW d \in Pollers, Lose(d) \/ ReadFails(d)
    PROVE  IInv'
  <1>1. UNCHANGED <<db, clock, mode, late>>
    BY DEF Lose, ReadFails
  <1> DEFINE c == [client[d] EXCEPT !.poll = NoPoll]
  <1>2. client' = [client EXCEPT ![d] = c]
    BY DEF Lose, ReadFails
  <1>3. /\ c \in Client /\ c.known = client[d].known
        /\ c.since = client[d].since /\ c.poll.phase = "idle"
    BY ClientDef DEF Client, Poll, NoPoll, IInv, TypeOK
  <1> HIDE DEF c
  <1>4. client' \in [Pollers -> Client] /\ client'[d] = c
    BY <1>2, <1>3, ClientDef
  <1>5. Follows(db, d, mode[d], c, LateOf(d))
    BY <1>3, ClientDef DEF Follows, AskedAt
  <1>6. LateOf(d)' = LateOf(d) /\ late' \subseteq Pollers \X HistIds
    BY <1>1 DEF LateOf, IInv, TypeOK
  <1>7. \A e \in Pollers : e # d => client'[e] = client[e]
    BY <1>2, ClientDef
  <1> QED BY <1>1, <1>4, <1>5, <1>6, <1>7, SyncStep

-----------------------------------------------------------------------------
\* The steps that change the tables.

\* What a device is told later than an action has a time before it.
LEMMA NotTold ==
    ASSUME IInv, NEW d \in Pollers, NEW n \in Nat, ~Told(d, n)
    PROVE  /\ n \in After(client[d].since)
           /\ client[d].poll.phase \in {"read", "answered"} => n \in TimesLeft(client[d].poll)
  <1>1. client[d].since \in Nat /\ ~(client[d].since >= n)
    BY ClientDef DEF Told
  <1>2. ASSUME client[d].poll.phase \in {"read", "answered"}
        PROVE  n \in TimesLeft(client[d].poll)
    <2>1. client[d].poll \in [phase : {"read", "answered"}, at : Nat, rows : SUBSET HistIds]
      BY <1>2, ClientDef DEF Poll, NoPoll
    <2>2. client[d].poll.at \in Nat /\ client[d].poll.at # 0 /\ ~(client[d].poll.at >= n)
      BY <1>2, <2>1 DEF Told
    <2> QED BY <2>2 DEF TimesLeft, After
  <1> QED BY <1>1, <1>2 DEF After

LEMMA UploadFollows ==
    ASSUME IInv, NEW a \in Upload, NEW d \in Pollers,
           NEW t \in Tables, t.episodes = db.episodes, t.hist = db.hist,
           NEW i \in TargetIds(t, a), NEW h \in FreeHistIds(t),
           NEW c, NEW L, c.since = client[d].since, c.poll = client[d].poll,
           client[d].known \subseteq c.known, d = a.device => h \in c.known,
           LateOf(d) \subseteq L, Told(d, a.ts) => h \in L
    PROVE  Follows(SaveAction(t, a, i, h), d, mode[d], c, L)
  <1> DEFINE s == SaveAction(t, a, i, h)
  <1>1. a.ts \in Nat
    BY TablesAssumption DEF Upload, EpisodeRow
  <1>2. KnowsOwn(t, d, client[d].known)
    BY ClientDef, CoversSameRows DEF Follows
  <1>3. KnowsOwn(s, d, c.known)
    BY <1>2, SaveActionOwn
  <1>4. Covers(t, mode[d], client[d].known \cup LateOf(d), After(c.since))
    BY ClientDef, CoversSameRows DEF Follows
  <1>5. h \in c.known \cup L \/ a.ts \in After(c.since)
    BY <1>1, NotTold
  <1>6. Covers(s, mode[d], c.known \cup L, After(c.since))
    BY <1>4, <1>5, SaveActionCovers
  <1>7. ASSUME c.poll.phase \in {"read", "answered"}
        PROVE  Covers(s, mode[d], c.known \cup L \cup c.poll.rows, TimesLeft(c.poll))
    <2>1. Covers(t, mode[d], client[d].known \cup LateOf(d) \cup c.poll.rows, TimesLeft(c.poll))
      BY <1>7, ClientDef, CoversSameRows DEF Follows
    <2>2. h \in c.known \cup L \cup c.poll.rows \/ a.ts \in TimesLeft(c.poll)
      BY <1>1, <1>7, NotTold
    <2>3. client[d].known \cup LateOf(d) \cup c.poll.rows \subseteq c.known \cup L \cup c.poll.rows
      OBVIOUS
    <2> QED BY <2>1, <2>2, <2>3, SaveActionCovers
  <1>8. AskedAt(mode[d], c.poll)
    BY ClientDef DEF Follows
  <1> HIDE DEF s
  <1>9. Follows(s, d, mode[d], c, L)
    BY <1>3, <1>6, <1>7, <1>8 DEF Follows
  <1> QED BY <1>9 DEF s

LEMMA UploadKeeps ==
    ASSUME IInv, NEW a \in Uploads, UploadAction(a)
    PROVE  IInv'
  <1> DEFINE t == EnsureDevice(EnsurePodcast(db, a.podcast), a.device)
             h == CHOOSE k \in FreeHistIds(t) : TRUE
  <1>1. a \in Upload /\ a.device # None
    BY PullAssumption
  <1>2. FreeHistIds(t) # {}
    BY DEF UploadAction
  <1>3. h \in FreeHistIds(t)
    <2> HIDE DEF t
    <2> QED BY <1>2
  <1>4. PICK i \in TargetIds(t, a) : db' = SaveAction(t, a, i, h)
    BY DEF UploadAction
  <1>5. /\ client' = [d \in Pollers |->
              IF d = a.device THEN [client[d] EXCEPT !.known = @ \cup {h}] ELSE client[d]]
        /\ late' = late \cup ({d \in Pollers : Told(d, a.ts)} \X {h})
        /\ clock' = clock /\ mode' = mode
    BY DEF UploadAction
  <1> HIDE DEF t, h
  <1>6. t \in Tables /\ t.episodes = db.episodes /\ t.hist = db.hist
    <2>1. IInv => Sound(db)
      BY DEF IInv
    <2> QED BY <1>1, <1>3, <2>1, UploadSound DEF t
  <1>7. Sound(db')
    BY <1>1, <1>3, <1>4, UploadSound DEF t, IInv
  <1>8. h \in HistIds
    BY <1>3 DEF FreeHistIds
  <1>9. ASSUME NEW d \in Pollers
        PROVE  /\ client'[d] \in Client
               /\ client'[d].since = client[d].since /\ client'[d].poll = client[d].poll
               /\ client[d].known \subseteq client'[d].known
               /\ d = a.device => h \in client'[d].known
    <2>1. client[d] \in Client
      BY ClientDef
    <2>2. CASE d = a.device
      <3>1. client'[d] = [client[d] EXCEPT !.known = client[d].known \cup {h}]
        BY <1>5, <2>2
      <3> QED BY <1>8, <2>1, <3>1 DEF Client
    <2>3. CASE d # a.device
      BY <1>5, <2>1, <2>3
    <2> QED BY <2>2, <2>3
  <1>10. ASSUME NEW d \in Pollers
         PROVE  LateOf(d) \subseteq LateOf(d)' /\ (Told(d, a.ts) => h \in LateOf(d)')
    BY <1>5, <1>8 DEF LateOf
  <1>11. FollowsInv'
    <2> SUFFICES ASSUME NEW d \in Pollers
                 PROVE  Follows(db', d, mode'[d], client'[d], LateOf(d)')
      BY DEF FollowsInv
    <2>1. Follows(SaveAction(t, a, i, h), d, mode[d], client'[d], LateOf(d)')
      BY <1>1, <1>3, <1>6, <1>9, <1>10, UploadFollows
    <2> QED BY <1>4, <1>5, <2>1
  <1>12. client' \in [Pollers -> Client]
    BY <1>5, <1>9
  <1>13. late' \subseteq Pollers \X HistIds
    BY <1>5, <1>8 DEF IInv, TypeOK
  <1>14. TypeOK'
    BY <1>5, <1>7, <1>12, <1>13 DEF IInv, TypeOK, Sound
  <1> QED BY <1>7, <1>11, <1>14 DEF IInv

\* Tables that change, with what every device has to know staying covered.
LEMMA TablesStep ==
    ASSUME IInv, Sound(db'), UNCHANGED <<mode, client, late>>, clock' \in Second .. MaxClock,
           \A m, S, T : Covers(db, m, S, T) => Covers(db', m, S, T),
           \A d \in Devices : \A S : KnowsOwn(db, d, S) => KnowsOwn(db', d, S)
    PROVE  IInv'
  <1>1. TypeOK'
    BY DEF IInv, TypeOK, Sound
  <1>2. ASSUME NEW d \in Pollers
        PROVE  Follows(db', d, mode'[d], client'[d], LateOf(d)')
    <2>1. d \in Devices
      BY PullAssumption
    <2>2. Follows(db', d, mode[d], client[d], LateOf(d))
      BY <2>1, ClientDef DEF Follows
    <2> QED BY <2>2 DEF LateOf
  <1> QED BY <1>1, <1>2 DEF IInv, FollowsInv

LEMMA DevicesKeep ==
    ASSUME IInv, NEW d \in Devices, UpdateDevice(d) \/ DeleteDevice(d)
    PROVE  IInv'
  <1>1. UNCHANGED <<mode, client, late>> /\ clock' \in Second .. MaxClock
    BY DEF UpdateDevice, DeleteDevice, IInv, TypeOK
  <1>2. CASE UpdateDevice(d)
    <2>1. db' = EnsureDevice(db, d)
      BY <1>2 DEF UpdateDevice
    <2>2. Sound(db') /\ db'.episodes = db.episodes /\ db'.hist = db.hist
      BY <2>1, EnsureDeviceSound DEF IInv
    <2> QED BY <1>1, <2>2, CoversSameRows, TablesStep
  <1>3. CASE DeleteDevice(d)
    <2>1. db' = WithoutDevice(db, d)
      BY <1>3 DEF DeleteDevice
    <2>2. Sound(db')
      BY <2>1, WithoutDeviceSound DEF IInv
    <2>3. /\ \A m, S, T : Covers(db, m, S, T) => Covers(db', m, S, T)
          /\ \A e \in Devices : \A S : KnowsOwn(db, e, S) => KnowsOwn(db', e, S)
      BY <2>1, WithoutDeviceCovers DEF IInv, Sound
    <2> QED BY <1>1, <2>2, <2>3, TablesStep
  <1> QED BY <1>2, <1>3

LEMMA TickKeeps ==
    ASSUME IInv, Tick
    PROVE  IInv'
  <1>1. db' = db /\ UNCHANGED <<mode, client, late>> /\ clock' = clock + Second
    BY DEF Tick
  <1>2. clock' \in Second .. MaxClock
    BY <1>1, PullAssumption DEF Tick, IInv, TypeOK
  <1>3. Sound(db')
    BY <1>1 DEF IInv
  <1>4. \A m, S, T : Covers(db, m, S, T) => Covers(db', m, S, T)
    BY <1>1
  <1>5. \A d \in Devices : \A S : KnowsOwn(db, d, S) => KnowsOwn(db', d, S)
    BY <1>1
  <1> QED BY <1>1, <1>2, <1>3, <1>4, <1>5, TablesStep

\* What is left of a state of a client when only the rows in left remain.
LEMMA ClientLeft ==
    ASSUME NEW c \in Client, NEW left, NEW e,
           e = [known |-> c.known \cap left, since |-> c.since,
                poll |-> IF c.poll.phase \in {"read", "answered"}
                         THEN [c.poll EXCEPT !.rows = @ \cap left] ELSE c.poll]
    PROVE  /\ e \in Client
           /\ e.known = c.known \cap left /\ e.since = c.since
           /\ e.poll.phase = c.poll.phase
           /\ c.poll.phase \in {"read", "answered"} =>
                 e.poll.at = c.poll.at /\ e.poll.rows = c.poll.rows \cap left
           /\ c.poll.phase \notin {"read", "answered"} => e.poll = c.poll
  <1>1. CASE c.poll.phase \in {"read", "answered"}
    <2>1. c.poll \in [phase : {"read", "answered"}, at : Nat, rows : SUBSET HistIds]
      BY <1>1 DEF Client, Poll, NoPoll
    <2> DEFINE q == [c.poll EXCEPT !.rows = c.poll.rows \cap left]
    <2>2. /\ q \in [phase : {"read", "answered"}, at : Nat, rows : SUBSET HistIds]
          /\ q.phase = c.poll.phase /\ q.at = c.poll.at /\ q.rows = c.poll.rows \cap left
      BY <2>1
    <2>3. e = [known |-> c.known \cap left, since |-> c.since, poll |-> q]
      BY <1>1
    <2> HIDE DEF q
    <2>4. e \in Client
      BY <2>2, <2>3 DEF Client, Poll
    <2> QED BY <1>1, <2>2, <2>3, <2>4
  <1>2. CASE c.poll.phase \notin {"read", "answered"}
    <2>1. e = [known |-> c.known \cap left, since |-> c.since, poll |-> c.poll]
      BY <1>2
    <2> QED BY <1>2, <2>1 DEF Client
  <1> QED BY <1>1, <1>2

LEMMA PodcastKeeps ==
    ASSUME IInv, NEW p \in Podcasts, DeletePodcast(p)
    PROVE  IInv'
  <1> DEFINE left == DOMAIN db'.hist
  <1>1. db' = WithoutPodcast(db, p) /\ clock' = clock /\ mode' = mode
    BY DEF DeletePodcast
  <1>2. /\ client' = [d \in Pollers |->
              [known |-> client[d].known \cap left, since |-> client[d].since,
               poll |-> IF client[d].poll.phase \in {"read", "answered"}
                        THEN [client[d].poll EXCEPT !.rows = @ \cap left]
                        ELSE client[d].poll]]
        /\ late' = late \cap (Pollers \X left)
    BY DEF DeletePodcast
  <1>3. Sound(db')
    BY <1>1, WithoutPodcastSound DEF IInv
  <1>4. /\ \A m, S, T : Covers(db, m, S, T) => Covers(db', m, S \cap left, T)
        /\ \A d, S : KnowsOwn(db, d, S) => KnowsOwn(db', d, S \cap left)
    BY <1>1, WithoutPodcastCovers DEF IInv, Sound
  <1> HIDE DEF left
  <1>5. ASSUME NEW d \in Pollers
        PROVE  /\ client'[d] \in Client
               /\ client'[d].known = client[d].known \cap left
               /\ client'[d].since = client[d].since
               /\ client'[d].poll.phase = client[d].poll.phase
               /\ client[d].poll.phase \in {"read", "answered"} =>
                     /\ client'[d].poll.at = client[d].poll.at
                     /\ client'[d].poll.rows = client[d].poll.rows \cap left
               /\ client[d].poll.phase \notin {"read", "answered"} =>
                     client'[d].poll = client[d].poll
    <2>1. client[d] \in Client
      BY ClientDef
    <2>2. client'[d] =
              [known |-> client[d].known \cap left, since |-> client[d].since,
               poll |-> IF client[d].poll.phase \in {"read", "answered"}
                        THEN [client[d].poll EXCEPT !.rows = @ \cap left]
                        ELSE client[d].poll]
      BY <1>2
    <2> QED BY <2>1, <2>2, ClientLeft
  <1>6. ASSUME NEW d \in Pollers
        PROVE  LateOf(d)' = LateOf(d) \cap left
    BY <1>2 DEF LateOf
  <1>7. ASSUME NEW d \in Pollers
        PROVE  Follows(db', d, mode[d], client'[d], LateOf(d)')
    <2>1. KnowsOwn(db', d, client'[d].known)
      <3>1. KnowsOwn(db, d, client[d].known)
        BY ClientDef DEF Follows
      <3>2. KnowsOwn(db', d, client[d].known \cap left)
        BY <1>4, <3>1
      <3> QED BY <1>5, <3>2
    <2>2. Covers(db', mode[d], client'[d].known \cup LateOf(d)', After(client'[d].since))
      <3>1. Covers(db', mode[d], (client[d].known \cup LateOf(d)) \cap left, After(client[d].since))
        BY <1>4, ClientDef DEF Follows
      <3>2. (client[d].known \cup LateOf(d)) \cap left = client'[d].known \cup LateOf(d)'
        BY <1>5, <1>6
      <3> QED BY <1>5, <3>1, <3>2
    <2>3. ASSUME client'[d].poll.phase \in {"read", "answered"}
          PROVE  Covers(db', mode[d], client'[d].known \cup LateOf(d)' \cup client'[d].poll.rows,
                        TimesLeft(client'[d].poll))
      <3>1. TimesLeft(client'[d].poll) = TimesLeft(client[d].poll)
        BY <1>5, <2>3 DEF TimesLeft
      <3>2. Covers(db', mode[d],
                   (client[d].known \cup LateOf(d) \cup client[d].poll.rows) \cap left,
                   TimesLeft(client[d].poll))
        BY <1>4, <1>5, <2>3, ClientDef DEF Follows
      <3>3. (client[d].known \cup LateOf(d) \cup client[d].poll.rows) \cap left
               = client'[d].known \cup LateOf(d)' \cup client'[d].poll.rows
        BY <1>5, <1>6, <2>3
      <3> QED BY <3>1, <3>2, <3>3
    <2>4. AskedAt(mode[d], client'[d].poll)
      BY <1>5, ClientDef DEF Follows, AskedAt
    <2> QED BY <2>1, <2>2, <2>3, <2>4 DEF Follows
  <1>8. FollowsInv'
    BY <1>1, <1>7 DEF FollowsInv
  <1>9. client' \in [Pollers -> Client]
    BY <1>2, <1>5
  <1>10. TypeOK'
    BY <1>1, <1>2, <1>3, <1>9 DEF IInv, TypeOK, Sound
  <1> QED BY <1>3, <1>8, <1>10 DEF IInv

-----------------------------------------------------------------------------
\* The theorems.

LEMMA InitHolds ==
    ASSUME Init
    PROVE  IInv
  <1>1. Sound(db)
    BY EmptySound DEF Init
  <1>2. TypeOK
    BY <1>1, PullAssumption DEF Init, TypeOK, Sound, Client, Poll, NoPoll
  <1>3. DOMAIN db.hist = {} /\ DOMAIN db.episodes = {}
    BY DEF Init, EmptyTables
  <1>4. ASSUME NEW d \in Pollers
        PROVE  Follows(db, d, mode[d], client[d], LateOf(d))
    <2>1. client[d].poll.phase = "idle"
      BY DEF Init, NoPoll
    <2> QED BY <1>3, <2>1 DEF Follows, KnowsOwn, Covers, AskedAt
  <1> QED BY <1>1, <1>2, <1>4 DEF IInv, FollowsInv

LEMMA StepKeeps ==
    ASSUME IInv, [Next]_vars
    PROVE  IInv'
  <1>1. CASE Tick
    BY <1>1, TickKeeps
  <1>2. ASSUME NEW a \in Uploads, UploadAction(a) PROVE IInv'
    BY <1>2, UploadKeeps
  <1>3. ASSUME NEW d \in Pollers, Sync(d) PROVE IInv'
    BY <1>3, AskKeeps, ReadKeeps, AnswerKeeps, TakeKeeps, LoseKeeps DEF Sync
  <1>4. ASSUME NEW d \in Devices, UpdateDevice(d) \/ DeleteDevice(d) PROVE IInv'
    BY <1>4, DevicesKeep
  <1>5. ASSUME NEW p \in Podcasts, DeletePodcast(p) PROVE IInv'
    BY <1>5, PodcastKeeps
  <1>6. CASE UNCHANGED vars
    BY <1>6 DEF vars, IInv, TypeOK, FollowsInv, LateOf
  <1> QED BY <1>1, <1>2, <1>3, <1>4, <1>5, <1>6 DEF Next

\* The tables stay consistent and every device keeps up, whatever the devices, the actions,
\* their order and the pages are.
THEOREM PullInvariant == Spec => []IInv
  <1>1. Init => IInv
    BY InitHolds
  <1>2. IInv /\ [Next]_vars => IInv'
    BY StepKeeps
  <1> QED BY <1>1, <1>2, PTL DEF Spec

\* Every variable of the synchronization has its shape.
THEOREM PullTypeCorrect == Spec => []TypeOK
  <1>1. IInv => TypeOK
    BY DEF IInv
  <1> QED BY <1>1, PullInvariant, PTL

\* What ListEpisodeActions and the times in the answers leave out for good came late: a
\* device that asks on finds every other action of the others after the time it asks from.
THEOREM OnlyLateUnseen == Spec => []NothingElseUnseen
  <1>1. ASSUME IInv, NEW d \in Pollers, NEW h \in Owed(d)
        PROVE  db.hist[h].ts > client[d].since
    <2>1. Covers(db, mode[d], client[d].known \cup LateOf(d), After(client[d].since))
      BY <1>1, ClientDef DEF Follows
    <2>2. CASE mode[d] = "history"
      BY <1>1, <2>1, <2>2 DEF Owed, Covers, LateOf, After
    <2>3. CASE mode[d] # "history"
      <3> DEFINE i == db.hist[h].episode
      <3>1. /\ h \in DOMAIN db.hist /\ Shows(db, i, h)
            /\ \A g \in (client[d].known \cup LateOf(d)) \cap DOMAIN db.hist :
                  db.hist[g].episode = i => db.hist[g].ts # db.hist[h].ts
        BY <1>1, <2>3 DEF Owed, LateOf
      <3>2. i \in DOMAIN db.episodes
        BY <1>1, <3>1 DEF IInv, Sound, Consistent, RefsHold
      <3>3. db.hist[h].ts = db.episodes[i].ts
        BY <3>1 DEF Shows
      <3> HIDE DEF i
      <3>4. db.episodes[i].ts \in After(client[d].since)
        BY <2>1, <2>3, <3>1, <3>2, <3>3 DEF Covers
      <3> QED BY <3>3, <3>4 DEF After
    <2> QED BY <2>2, <2>3
  <1>2. IInv => NothingElseUnseen
    BY <1>1 DEF NothingElseUnseen
  <1> QED BY <1>2, PullInvariant, PTL

-----------------------------------------------------------------------------
\* The times of the requests and of the answers.

\* A time in whole seconds.
Whole(n) == \E k \in Nat : n = k * Second

LEMMA WholeNext ==
    ASSUME NEW n \in Nat, Whole(n)
    PROVE  Whole(n + Second)
  <1>1. PICK k \in Nat : n = k * Second
    BY DEF Whole
  <1>2. n + Second = (k + 1) * Second
    BY <1>1, PullAssumption
  <1> QED BY <1>2 DEF Whole

LEMMA WholeStarts == Whole(0) /\ Whole(Second)
  <1>1. 0 = 0 * Second /\ Second = 1 * Second
    BY PullAssumption
  <1> QED BY <1>1 DEF Whole

LEMMA WholeSecondIs ==
    ASSUME NEW n \in Nat
    PROVE  WholeSecond(n) \in Nat /\ Whole(WholeSecond(n))
  <1> DEFINE k == n \div Second
             r == n % Second
             s == Second * k
  <1>1. k \in Nat /\ r \in Nat /\ n = s + r
    BY PullAssumption
  <1>2. s \in Nat /\ s = k * Second
    BY <1>1, PullAssumption
  <1>3. WholeSecond(n) = s
    <2> HIDE DEF s, r
    <2>1. n - r = s
      BY <1>1, <1>2
    <2> QED BY <2>1 DEF WholeSecond, r
  <1> HIDE DEF k
  <1> QED BY <1>1, <1>2, <1>3 DEF Whole

\* A time after a whole second has a whole second that is not before it.
LEMMA WholeSecondAfter ==
    ASSUME NEW n \in Nat, NEW s \in Nat, Whole(s), n > s
    PROVE  WholeSecond(n) >= s
  <1>1. PICK k \in Nat : s = k * Second
    BY DEF Whole
  <1>2. PICK q \in Nat : WholeSecond(n) = q * Second
    BY WholeSecondIs DEF Whole
  <1>3. n < (q + 1) * Second
    <2>1. n % Second < Second /\ n % Second \in Nat
      BY PullAssumption
    <2>2. n < WholeSecond(n) + Second /\ WholeSecond(n) \in Nat
      BY <2>1, PullAssumption, WholeSecondIs DEF WholeSecond
    <2>3. (q + 1) * Second = q * Second + Second
      BY PullAssumption
    <2> QED BY <1>2, <2>2, <2>3
  <1>4. k <= q
    <2> SUFFICES ASSUME ~(k <= q) PROVE FALSE
      OBVIOUS
    <2>1. PICK m \in Nat : k = q + 1 + m
      <3>1. k - (q + 1) \in Nat /\ k = q + 1 + (k - (q + 1))
        OBVIOUS
      <3> QED BY <3>1
    <2>2. k * Second = (q + 1) * Second + m * Second /\ m * Second \in Nat
      BY <2>1, PullAssumption
    <2>3. (q + 1) * Second \in Nat
      BY PullAssumption
    <2> QED BY <1>1, <1>3, <2>2, <2>3
  <1>5. PICK m \in Nat : q = k + m
    <2>1. q - k \in Nat /\ q = k + (q - k)
      BY <1>4
    <2> QED BY <2>1
  <1>6. q * Second = k * Second + m * Second /\ m * Second \in Nat /\ k * Second \in Nat
    BY <1>5, PullAssumption
  <1> QED BY <1>1, <1>2, <1>6

\* The last row of a page is after the time its device asked from.
LEMMA PageAfter ==
    ASSUME IInv, NEW d \in Pollers, mode[d] # "updates", NEW S \in Answers(d), S # {}
    PROVE  LastTs(db, S) \in Nat /\ LastTs(db, S) > client[d].since
  <1>1. S \in SUBSET Found(d) /\ Found(d) \in SUBSET DOMAIN db.hist
    <2>1. Found(d) \subseteq DOMAIN db.hist
      BY DEF Found, ShownRows, HistoryRows, LastOtherRows
    <2>2. S \subseteq Found(d)
      BY DEF Answers, Pages, OneEach
    <2> QED BY <2>1, <2>2
  <1>2. IsFiniteSet(S)
    BY <1>1, FS_Subset DEF IInv, Sound
  <1>3. LastTs(db, S) \in {db.hist[h].ts : h \in S}
    BY <1>1, <1>2, LastTsOfRow DEF IInv, Sound
  <1>4. \A h \in DOMAIN db.hist : db.hist[h].ts \in Nat
    BY TablesDef, TablesAssumption DEF HistRow, IInv, Sound
  <1>5. ASSUME NEW h \in S PROVE db.hist[h].ts > client[d].since
    <2>1. CASE mode[d] = "history"
      BY <1>1, <2>1 DEF Found, HistoryRows
    <2>2. CASE mode[d] # "history"
      <3> DEFINE i == db.hist[h].episode
      <3>1. h \in DOMAIN db.hist /\ db.episodes[i].ts > client[d].since /\ h \in LastRows(db, i)
        BY <1>1, <2>2 DEF Found, LastOtherRows
      <3>2. i \in DOMAIN db.episodes
        BY <3>1 DEF IInv, Sound, Consistent, RefsHold
      <3>3. PICK g \in DOMAIN db.hist : Shows(db, i, g)
        BY <3>2 DEF IInv, Sound, Consistent, ShowsLatest
      <3>4. db.hist[g].ts <= db.hist[h].ts /\ db.hist[g].ts = db.episodes[i].ts
        BY <3>1, <3>3 DEF LastRows, Shows
      <3> HIDE DEF i
      <3> QED BY <1>4, <3>1, <3>4, ClientDef
    <2> QED BY <2>1, <2>2
  <1> QED BY <1>1, <1>3, <1>4, <1>5

Asking == {"asked", "read", "answered"}

\* The times of a client in state c that asks in mode m, when the server's clock shows now.
GoesOn(m, c, now) ==
    /\ Whole(c.since)
    /\ m = "updates" => c.since <= now
    /\ c.poll.phase \in Asking => Whole(c.poll.at)
    /\ c.poll.phase \in Asking /\ m = "updates" => c.since <= c.poll.at /\ c.poll.at <= now
    /\ c.poll.phase = "read" => c.poll.at = 0 \/ c.poll.at >= c.since

TimesInv == Whole(clock) /\ \A d \in Pollers : GoesOn(mode[d], client[d], clock)

\* The clock goes on, and what a client knows does not matter.
LEMMA GoesOnLater ==
    ASSUME NEW m, NEW c \in Client, NEW e, NEW now \in Nat, NEW later \in Nat, now <= later,
           e.since = c.since, e.poll.phase = c.poll.phase,
           c.poll.phase \in Asking => e.poll.at = c.poll.at, GoesOn(m, c, now)
    PROVE  GoesOn(m, e, later)
  <1>1. c.since \in Nat /\ (c.poll.phase \in Asking => c.poll.at \in Nat)
    BY DEF Client, Poll, NoPoll, Asking
  <1> QED BY <1>1 DEF GoesOn, Asking

\* A step of device d keeps the times if those of d are kept.
LEMMA SyncTimes ==
    ASSUME IInv, TimesInv, NEW d \in Pollers, UNCHANGED <<clock, mode>>,
           \A e \in Pollers : e # d => client'[e] = client[e],
           GoesOn(mode[d], client'[d], clock)
    PROVE  TimesInv'
  BY DEF TimesInv

LEMMA AskTimes ==
    ASSUME IInv, TimesInv, NEW d \in Pollers, Ask(d)
    PROVE  TimesInv'
  <1> DEFINE at == IF mode[d] = "updates" THEN clock ELSE 0
             c == [client[d] EXCEPT !.poll = [phase |-> "asked", at |-> at]]
  <1>1. client' = [client EXCEPT ![d] = c] /\ UNCHANGED <<clock, mode>>
    BY DEF Ask
  <1>2. c.since = client[d].since /\ c.poll.phase = "asked" /\ c.poll.at = at
    BY ClientDef DEF Client, IInv, TypeOK
  <1> HIDE DEF c
  <1>3. client'[d] = c /\ \A e \in Pollers : e # d => client'[e] = client[e]
    BY <1>1, ClientDef
  <1>4. clock \in Nat /\ Whole(clock) /\ GoesOn(mode[d], client[d], clock)
    BY PullAssumption DEF IInv, TypeOK, TimesInv
  <1>5. GoesOn(mode[d], c, clock)
    BY <1>2, <1>4, WholeStarts DEF GoesOn
  <1> QED BY <1>1, <1>3, <1>5, SyncTimes

LEMMA ReadTimes ==
    ASSUME IInv, TimesInv, NEW d \in Pollers, Read(d)
    PROVE  TimesInv'
  <1> DEFINE time(S) == IF mode[d] # "updates" /\ S # {} THEN WholeSecond(LastTs(db, S))
                        ELSE client[d].poll.at
  <1>1. PICK S \in Answers(d) :
           client' = [client EXCEPT ![d].poll = [phase |-> "read", at |-> time(S), rows |-> S]]
    BY DEF Read
  <1> DEFINE at == time(S)
             c == [client[d] EXCEPT !.poll = [phase |-> "read", at |-> at, rows |-> S]]
  <1>2. client' = [client EXCEPT ![d] = c] /\ UNCHANGED <<clock, mode>>
    BY <1>1 DEF Read
  <1>3. c.since = client[d].since /\ c.poll.phase = "read" /\ c.poll.at = at
    BY ClientDef DEF Client, IInv, TypeOK
  <1>4. /\ client[d].poll.phase = "asked" /\ GoesOn(mode[d], client[d], clock)
        /\ client[d].since \in Nat
        /\ mode[d] # "updates" => client[d].poll.at = 0
    BY ClientDef DEF Read, TimesInv, Follows, AskedAt
  <1>5. Whole(at) /\ (at = 0 \/ at >= client[d].since)
        /\ (mode[d] = "updates" => at = client[d].poll.at)
    <2>1. CASE mode[d] # "updates" /\ S # {}
      <3>1. LastTs(db, S) \in Nat /\ LastTs(db, S) > client[d].since /\ Whole(client[d].since)
        BY <1>4, <2>1, PageAfter DEF GoesOn
      <3>2. at = WholeSecond(LastTs(db, S))
        BY <2>1
      <3> HIDE DEF at, c
      <3> QED BY <1>4, <2>1, <3>1, <3>2, WholeSecondIs, WholeSecondAfter
    <2>2. CASE mode[d] # "updates" /\ S = {}
      BY <1>4, <2>2, WholeStarts
    <2>3. CASE mode[d] = "updates"
      <3>1. at = client[d].poll.at
        BY <2>3
      <3> HIDE DEF at, c
      <3>2. client[d].since <= at /\ Whole(at) /\ at \in Nat
        <4>1. client[d].poll.at \in Nat
          BY <1>4, ClientDef DEF Poll, NoPoll
        <4> QED BY <1>4, <2>3, <3>1, <4>1 DEF GoesOn, Asking
      <3> QED BY <1>4, <3>1, <3>2
    <2> QED BY <2>1, <2>2, <2>3
  <1> HIDE DEF c, at
  <1>6. client'[d] = c /\ \A e \in Pollers : e # d => client'[e] = client[e]
    BY <1>2, ClientDef
  <1>7. GoesOn(mode[d], c, clock)
    BY <1>3, <1>4, <1>5 DEF GoesOn, Asking
  <1> QED BY <1>2, <1>6, <1>7, SyncTimes

LEMMA AnswerTimes ==
    ASSUME IInv, TimesInv, NEW d \in Pollers, Answer(d)
    PROVE  TimesInv'
  <1> DEFINE at == IF client[d].poll.at = 0 THEN clock ELSE client[d].poll.at
             c == [client[d] EXCEPT !.poll =
                     [phase |-> "answered", at |-> at, rows |-> client[d].poll.rows]]
  <1>1. /\ client' = [client EXCEPT ![d] = c] /\ UNCHANGED <<clock, mode>>
        /\ client[d].poll.phase = "read"
    BY DEF Answer
  <1>2. c.since = client[d].since /\ c.poll.phase = "answered" /\ c.poll.at = at
    BY ClientDef DEF Client, IInv, TypeOK
  <1>3. Whole(clock) /\ GoesOn(mode[d], client[d], clock) /\ clock \in Nat
        /\ client[d].since \in Nat
    BY ClientDef, PullAssumption DEF TimesInv, IInv, TypeOK
  <1>4. Whole(at) /\ (mode[d] = "updates" => client[d].since <= at /\ at <= clock)
    BY <1>1, <1>3 DEF GoesOn, Asking
  <1> HIDE DEF c, at
  <1>5. client'[d] = c /\ \A e \in Pollers : e # d => client'[e] = client[e]
    BY <1>1, ClientDef
  <1>6. GoesOn(mode[d], c, clock)
    BY <1>2, <1>3, <1>4 DEF GoesOn, Asking
  <1> QED BY <1>1, <1>5, <1>6, SyncTimes

LEMMA TakeTimes ==
    ASSUME IInv, TimesInv, NEW d \in Pollers, Take(d)
    PROVE  TimesInv'
  <1> DEFINE c == [known |-> client[d].known \cup client[d].poll.rows,
                   since |-> client[d].poll.at, poll |-> NoPoll]
  <1>1. /\ client' = [client EXCEPT ![d] = c] /\ UNCHANGED <<clock, mode>>
        /\ client[d].poll.phase = "answered"
    BY DEF Take
  <1>2. c.since = client[d].poll.at /\ c.poll.phase = "idle"
    BY DEF NoPoll
  <1> HIDE DEF c
  <1>3. client'[d] = c /\ \A e \in Pollers : e # d => client'[e] = client[e]
    BY <1>1, ClientDef
  <1>4. GoesOn(mode[d], client[d], clock)
    BY DEF TimesInv
  <1>5. GoesOn(mode[d], c, clock)
    BY <1>1, <1>2, <1>4 DEF GoesOn, Asking
  <1> QED BY <1>1, <1>3, <1>5, SyncTimes

LEMMA LoseTimes ==
    ASSUME IInv, TimesInv, NEW d \in Pollers, Lose(d) \/ ReadFails(d)
    PROVE  TimesInv'
  <1> DEFINE c == [client[d] EXCEPT !.poll = NoPoll]
  <1>1. client' = [client EXCEPT ![d] = c] /\ UNCHANGED <<clock, mode>>
    BY DEF Lose, ReadFails
  <1>2. c.since = client[d].since /\ c.poll.phase = "idle"
    BY ClientDef DEF Client, NoPoll, IInv, TypeOK
  <1> HIDE DEF c
  <1>3. client'[d] = c /\ \A e \in Pollers : e # d => client'[e] = client[e]
    BY <1>1, ClientDef
  <1>4. GoesOn(mode[d], client[d], clock)
    BY DEF TimesInv
  <1>5. GoesOn(mode[d], c, clock)
    BY <1>2, <1>4 DEF GoesOn, Asking
  <1> QED BY <1>1, <1>3, <1>5, SyncTimes

\* The changes of the tables and of the clock leave the times of the clients alone.
LEMMA TablesTimes ==
    ASSUME IInv, TimesInv, mode' = mode, clock' \in Nat, clock <= clock', Whole(clock'),
           \A d \in Pollers :
              /\ client'[d].since = client[d].since
              /\ client'[d].poll.phase = client[d].poll.phase
              /\ client[d].poll.phase \in Asking => client'[d].poll.at = client[d].poll.at
    PROVE  TimesInv'
  <1>1. ASSUME NEW d \in Pollers PROVE GoesOn(mode[d], client'[d], clock')
    <2>1. client[d] \in Client /\ clock \in Nat /\ GoesOn(mode[d], client[d], clock)
      BY ClientDef, PullAssumption DEF TimesInv, IInv, TypeOK
    <2> QED BY <2>1, GoesOnLater
  <1> QED BY <1>1 DEF TimesInv

LEMMA TimesKept ==
    ASSUME IInv, TimesInv, [Next]_vars
    PROVE  TimesInv'
  <1>1. clock \in Nat /\ Whole(clock)
    BY PullAssumption DEF IInv, TypeOK, TimesInv
  <1>2. CASE Tick
    <2>1. clock' = clock + Second /\ mode' = mode /\ client' = client
      BY <1>2 DEF Tick
    <2>2. clock' \in Nat /\ clock <= clock' /\ Whole(clock')
      BY <1>1, <2>1, WholeNext, PullAssumption
    <2> QED BY <2>1, <2>2, TablesTimes
  <1>3. ASSUME NEW a \in Uploads, UploadAction(a) PROVE TimesInv'
    <2>1. /\ clock' = clock /\ mode' = mode
          /\ \E h : client' = [d \in Pollers |->
                IF d = a.device THEN [client[d] EXCEPT !.known = @ \cup {h}] ELSE client[d]]
      BY <1>3 DEF UploadAction
    <2>2. PICK h : client' = [d \in Pollers |->
                IF d = a.device THEN [client[d] EXCEPT !.known = @ \cup {h}] ELSE client[d]]
      BY <2>1
    <2>3. ASSUME NEW d \in Pollers
          PROVE  client'[d].since = client[d].since /\ client'[d].poll = client[d].poll
      BY <2>2, ClientDef DEF Client
    <2> QED BY <1>1, <2>1, <2>3, TablesTimes
  <1>4. ASSUME NEW d \in Pollers, Sync(d) PROVE TimesInv'
    BY <1>4, AskTimes, ReadTimes, AnswerTimes, TakeTimes, LoseTimes DEF Sync
  <1>5. ASSUME NEW d \in Devices, UpdateDevice(d) \/ DeleteDevice(d) PROVE TimesInv'
    <2>1. clock' = clock /\ mode' = mode /\ client' = client
      BY <1>5 DEF UpdateDevice, DeleteDevice
    <2> QED BY <1>1, <2>1, TablesTimes
  <1>6. ASSUME NEW p \in Podcasts, DeletePodcast(p) PROVE TimesInv'
    <2> DEFINE left == DOMAIN db'.hist
    <2>1. /\ clock' = clock /\ mode' = mode
          /\ client' = [d \in Pollers |->
                [known |-> client[d].known \cap left, since |-> client[d].since,
                 poll |-> IF client[d].poll.phase \in {"read", "answered"}
                          THEN [client[d].poll EXCEPT !.rows = @ \cap left]
                          ELSE client[d].poll]]
      BY <1>6 DEF DeletePodcast
    <2> HIDE DEF left
    <2>2. ASSUME NEW d \in Pollers
          PROVE  /\ client'[d].since = client[d].since
                 /\ client'[d].poll.phase = client[d].poll.phase
                 /\ client[d].poll.phase \in Asking => client'[d].poll.at = client[d].poll.at
      <3>1. client[d] \in Client
        BY ClientDef
      <3>2. client'[d] =
                [known |-> client[d].known \cap left, since |-> client[d].since,
                 poll |-> IF client[d].poll.phase \in {"read", "answered"}
                          THEN [client[d].poll EXCEPT !.rows = @ \cap left]
                          ELSE client[d].poll]
        BY <2>1
      <3> QED BY <3>1, <3>2, ClientLeft
    <2> QED BY <1>1, <2>1, <2>2, TablesTimes
  <1>7. CASE UNCHANGED vars
    BY <1>7 DEF vars, TimesInv
  <1> QED BY <1>2, <1>3, <1>4, <1>5, <1>6, <1>7 DEF Next

\* No answer carries an earlier time than its request, whatever the pages, the rows and the
\* times of their clients are, unless the request is ahead of the server's clock.
THEOREM AnswersForward == Spec => AnswersGoForward
  <1>1. Init => TimesInv
    <2>1. ASSUME Init, NEW d \in Pollers PROVE GoesOn(mode[d], client[d], clock)
      <3>1. clock = Second /\ client[d].since = 0 /\ client[d].poll.phase = "idle"
        BY <2>1 DEF Init, NoPoll
      <3> QED BY <3>1, WholeStarts, PullAssumption DEF GoesOn, Asking
    <2>2. Init => Whole(clock)
      BY WholeStarts DEF Init
    <2> QED BY <2>1, <2>2 DEF TimesInv
  <1>2. IInv /\ TimesInv /\ [Next]_vars => TimesInv'
    BY TimesKept
  <1>3. ASSUME IInv, TimesInv, NEW d \in Pollers, Answer(d)
        PROVE  client'[d].poll.at >= client[d].since \/ client[d].since > clock
    <2> DEFINE at == IF client[d].poll.at = 0 THEN clock ELSE client[d].poll.at
               c == [client[d] EXCEPT !.poll =
                       [phase |-> "answered", at |-> at, rows |-> client[d].poll.rows]]
    <2>1. client' = [client EXCEPT ![d] = c] /\ client[d].poll.phase = "read"
      BY <1>3 DEF Answer
    <2>2. c.poll.at = at
      BY ClientDef, <1>3 DEF Client, IInv, TypeOK
    <2>3. client'[d].poll.at = at
      <3> HIDE DEF c, at
      <3> QED BY <1>3, <2>1, <2>2, ClientDef
    <2>4. /\ client[d].since \in Nat /\ clock \in Nat
          /\ client[d].poll.at = 0 \/ client[d].poll.at >= client[d].since
      BY <1>3, <2>1, ClientDef, PullAssumption DEF TimesInv, GoesOn, IInv, TypeOK
    <2> HIDE DEF c
    <2> QED BY <2>3, <2>4
  <1>4. IInv /\ TimesInv /\ [Next]_vars =>
           [\A d \in Pollers :
              Answer(d) => client'[d].poll.at >= client[d].since \/ client[d].since > clock]_vars
    BY <1>3
  <1> QED BY <1>1, <1>2, <1>4, PullInvariant, PTL DEF Spec, AnswersGoForward
==================================================================================
