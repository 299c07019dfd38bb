--------------------------- MODULE EpisodeTablesProofs ---------------------------
(***************************************************************************)
(* What each statement of EpisodeTables preserves, for all tables and all  *)
(* arguments: the shape of the tables and their consistency.               *)
(***************************************************************************)
EXTENDS EpisodeTables, TLAPS

\* What every committed content and every transaction's view satisfies.
Consistent(t) == ShowsLatest(t) /\ UrlsUnique(t) /\ RefsHold(t)

\* The first loop of AddAction has dealt with action a: its podcast and device exist.
Ready(t, a) == t.podcasts[a.podcast] = "subscribed" /\ a.device \in t.devices

-----------------------------------------------------------------------------

\* A table is a function with a domain of row numbers and a range of rows.
LEMMA TableDef ==
    ASSUME NEW Ids, NEW Row, NEW f
    PROVE  f \in TableOf(Ids, Row) <=> DOMAIN f \subseteq Ids /\ f \in [DOMAIN f -> Row]
  BY DEF TableOf

\* The same for the two tables of a content.
LEMMA TablesDef ==
    ASSUME NEW t \in Tables
    PROVE  /\ t.podcasts \in [Podcasts -> {"absent", "subscribed", "unsubscribed"}]
           /\ t.devices \subseteq Devices
           /\ DOMAIN t.episodes \subseteq EpisodeIds
           /\ DOMAIN t.hist \subseteq HistIds
           /\ \A i \in DOMAIN t.episodes : t.episodes[i] \in EpisodeRow
           /\ \A h \in DOMAIN t.hist : t.hist[h] \in HistRow
  <1>1. t.episodes \in TableOf(EpisodeIds, EpisodeRow) /\ t.hist \in TableOf(HistIds, HistRow)
    BY DEF Tables
  <1>2. /\ DOMAIN t.episodes \subseteq EpisodeIds
        /\ t.episodes \in [DOMAIN t.episodes -> EpisodeRow]
    BY <1>1, TableDef
  <1>3. DOMAIN t.hist \subseteq HistIds /\ t.hist \in [DOMAIN t.hist -> HistRow]
    BY <1>1, TableDef
  <1> QED
    BY <1>2, <1>3 DEF Tables

\* Tables without rows are consistent.
LEMMA EmptyConsistent == EmptyTables \in Tables /\ Consistent(EmptyTables)
  <1>1. EmptyTables.episodes \in TableOf(EpisodeIds, EpisodeRow)
    <2>1. DOMAIN EmptyTables.episodes = {}
      BY DEF EmptyTables
    <2>2. EmptyTables.episodes \in [{} -> EpisodeRow]
      BY DEF EmptyTables
    <2> QED BY <2>1, <2>2, TableDef
  <1>2. EmptyTables.hist \in TableOf(HistIds, HistRow)
    <2>1. DOMAIN EmptyTables.hist = {}
      BY DEF EmptyTables
    <2>2. EmptyTables.hist \in [{} -> HistRow]
      BY DEF EmptyTables
    <2> QED BY <2>1, <2>2, TableDef
  <1>3. EmptyTables \in Tables
    BY <1>1, <1>2 DEF EmptyTables, Tables
  <1> QED
    BY <1>3 DEF Consistent, ShowsLatest, UrlsUnique, RefsHold, EmptyTables

\* Creating a podcast or subscribing it again keeps the tables consistent.
LEMMA EnsurePodcastConsistent ==
    ASSUME NEW t \in Tables, NEW p \in Podcasts
    PROVE  /\ EnsurePodcast(t, p) \in Tables
           /\ Consistent(t) => Consistent(EnsurePodcast(t, p))
  <1> DEFINE s == EnsurePodcast(t, p)
  <1>1. /\ s.devices = t.devices /\ s.episodes = t.episodes /\ s.hist = t.hist
        /\ s.podcasts = [t.podcasts EXCEPT ![p] = "subscribed"]
        /\ s \in Tables
    BY DEF EnsurePodcast, Tables
  <1>2. \A q \in Podcasts : t.podcasts[q] # "absent" => s.podcasts[q] # "absent"
    BY <1>1, TablesDef
  <1>3. \A i \in DOMAIN t.episodes : t.episodes[i].podcast \in Podcasts
    BY TablesDef DEF EpisodeRow
  <1> HIDE DEF s
  <1>4. ASSUME Consistent(t) PROVE Consistent(s)
    <2>1. ShowsLatest(s)
      BY <1>1, <1>4 DEF Consistent, ShowsLatest, Shows
    <2>2. UrlsUnique(s)
      BY <1>1, <1>4 DEF Consistent, UrlsUnique
    <2>3. RefsHold(s)
      BY <1>1, <1>2, <1>3, <1>4 DEF Consistent, RefsHold
    <2> QED BY <2>1, <2>2, <2>3 DEF Consistent
  <1> QED BY <1>1, <1>4 DEF s

\* So does creating a device.
LEMMA EnsureDeviceConsistent ==
    ASSUME NEW t \in Tables, NEW d \in Devices
    PROVE  /\ EnsureDevice(t, d) \in Tables
           /\ Consistent(t) => Consistent(EnsureDevice(t, d))
  <1> DEFINE s == EnsureDevice(t, d)
  <1>1. /\ s.devices = t.devices \cup {d} /\ s.episodes = t.episodes /\ s.hist = t.hist
        /\ s.podcasts = t.podcasts
        /\ s \in Tables
    BY DEF EnsureDevice, Tables
  <1> HIDE DEF s
  <1>4. ASSUME Consistent(t) PROVE Consistent(s)
    <2>1. ShowsLatest(s)
      BY <1>1, <1>4 DEF Consistent, ShowsLatest, Shows
    <2>2. UrlsUnique(s)
      BY <1>1, <1>4 DEF Consistent, UrlsUnique
    <2>3. RefsHold(s)
      BY <1>1, <1>4 DEF Consistent, RefsHold
    <2> QED BY <2>1, <2>2, <2>3 DEF Consistent
  <1> QED BY <1>1, <1>4 DEF s
\* So does taking a podcast off the list.
LEMMA UnsubscribedConsistent ==
    ASSUME NEW t \in Tables, NEW p \in Podcasts
    PROVE  /\ Unsubscribed(t, p) \in Tables
           /\ Consistent(t) => Consistent(Unsubscribed(t, p))
  <1> DEFINE s == Unsubscribed(t, p)
  <1>1. /\ s.devices = t.devices /\ s.episodes = t.episodes /\ s.hist = t.hist
        /\ s.podcasts = [t.podcasts EXCEPT ![p] = "unsubscribed"]
        /\ s \in Tables
    BY DEF Unsubscribed, Tables
  <1>2. \A q \in Podcasts : t.podcasts[q] # "absent" => s.podcasts[q] # "absent"
    BY <1>1, TablesDef
  <1>3. \A i \in DOMAIN t.episodes : t.episodes[i].podcast \in Podcasts
    BY TablesDef DEF EpisodeRow
  <1> HIDE DEF s
  <1>4. ASSUME Consistent(t) PROVE Consistent(s)
    <2>1. ShowsLatest(s)
      BY <1>1, <1>4 DEF Consistent, ShowsLatest, Shows
    <2>2. UrlsUnique(s)
      BY <1>1, <1>4 DEF Consistent, UrlsUnique
    <2>3. RefsHold(s)
      BY <1>1, <1>2, <1>3, <1>4 DEF Consistent, RefsHold
    <2> QED BY <2>1, <2>2, <2>3 DEF Consistent
  <1> QED BY <1>1, <1>4 DEF s

\* The GUID of a feed changes neither what an episode shows nor its address.
LEMMA FeedGuidConsistent ==
    ASSUME NEW t \in Tables, NEW u, NEW g \in Guids
    PROVE  /\ WithFeedGuid(t, u, g) \in Tables
           /\ Consistent(t) => Consistent(WithFeedGuid(t, u, g))
  <1> DEFINE row(i) == IF t.episodes[i].url = u
                       THEN [t.episodes[i] EXCEPT !.guid = g] ELSE t.episodes[i]
             eps == [i \in DOMAIN t.episodes |-> row(i)]
             s == WithFeedGuid(t, u, g)
  <1>1. \A i \in DOMAIN t.episodes : /\ row(i) \in EpisodeRow
                                     /\ row(i).podcast = t.episodes[i].podcast
                                     /\ row(i).url = t.episodes[i].url
                                     /\ row(i).action = t.episodes[i].action
                                     /\ row(i).device = t.episodes[i].device
                                     /\ row(i).ts = t.episodes[i].ts
    BY TablesDef DEF EpisodeRow
  <1>2. DOMAIN eps = DOMAIN t.episodes /\ eps \in [DOMAIN t.episodes -> EpisodeRow]
    BY <1>1
  <1>3. eps \in TableOf(EpisodeIds, EpisodeRow)
    BY <1>2, TablesDef, TableDef
  <1>4. /\ s.devices = t.devices /\ s.podcasts = t.podcasts /\ s.hist = t.hist
        /\ s.episodes = eps
        /\ s \in Tables
    BY <1>3 DEF WithFeedGuid, Tables
  <1>5. \A i \in DOMAIN t.episodes : /\ s.episodes[i].podcast = t.episodes[i].podcast
                                     /\ s.episodes[i].url = t.episodes[i].url
                                     /\ s.episodes[i].action = t.episodes[i].action
                                     /\ s.episodes[i].device = t.episodes[i].device
                                     /\ s.episodes[i].ts = t.episodes[i].ts
    BY <1>1, <1>4
  <1>6. DOMAIN s.episodes = DOMAIN t.episodes
    BY <1>2, <1>4
  <1> HIDE DEF s, eps, row
  <1>7. ASSUME Consistent(t) PROVE Consistent(s)
    <2>1. ShowsLatest(s)
      BY <1>4, <1>5, <1>6, <1>7 DEF Consistent, ShowsLatest, Shows
    <2>2. UrlsUnique(s)
      BY <1>5, <1>6, <1>7 DEF Consistent, UrlsUnique
    <2>3. RefsHold(s)
      BY <1>4, <1>5, <1>6, <1>7 DEF Consistent, RefsHold
    <2> QED BY <2>1, <2>2, <2>3 DEF Consistent
  <1> QED BY <1>4, <1>7 DEF s

\* Deleting a device clears it in an episode and in the history row it shows alike.
LEMMA WithoutDeviceConsistent ==
    ASSUME NEW t \in Tables, NEW d \in Devices
    PROVE  /\ WithoutDevice(t, d) \in Tables
           /\ Consistent(t) => Consistent(WithoutDevice(t, d))
  <1> DEFINE erow(i) == IF t.episodes[i].device = d
                        THEN [t.episodes[i] EXCEPT !.device = None] ELSE t.episodes[i]
             hrow(h) == IF t.hist[h].device = d
                        THEN [t.hist[h] EXCEPT !.device = None] ELSE t.hist[h]
             eps == [i \in DOMAIN t.episodes |-> erow(i)]
             hst == [h \in DOMAIN t.hist |-> hrow(h)]
             clear(x) == IF x = d THEN None ELSE x
             s == WithoutDevice(t, d)
  <1>1. \A i \in DOMAIN t.episodes : /\ erow(i) \in EpisodeRow
                                     /\ erow(i).podcast = t.episodes[i].podcast
                                     /\ erow(i).url = t.episodes[i].url
                                     /\ erow(i).action = t.episodes[i].action
                                     /\ erow(i).device = clear(t.episodes[i].device)
                                     /\ erow(i).ts = t.episodes[i].ts
    BY TablesDef DEF EpisodeRow
  <1>2. \A h \in DOMAIN t.hist : /\ hrow(h) \in HistRow
                                 /\ hrow(h).episode = t.hist[h].episode
                                 /\ hrow(h).action = t.hist[h].action
                                 /\ hrow(h).device = clear(t.hist[h].device)
                                 /\ hrow(h).ts = t.hist[h].ts
    BY TablesDef DEF HistRow
  <1>3. eps \in TableOf(EpisodeIds, EpisodeRow) /\ hst \in TableOf(HistIds, HistRow)
    BY <1>1, <1>2, TablesDef, TableDef
  <1>4. /\ s.devices = t.devices \ {d} /\ s.podcasts = t.podcasts
        /\ s.episodes = eps /\ s.hist = hst
        /\ s \in Tables
    BY <1>3 DEF WithoutDevice, Tables
  <1>5. DOMAIN s.episodes = DOMAIN t.episodes /\ DOMAIN s.hist = DOMAIN t.hist
    BY <1>4
  <1>6. \A i \in DOMAIN t.episodes : /\ s.episodes[i].podcast = t.episodes[i].podcast
                                     /\ s.episodes[i].url = t.episodes[i].url
                                     /\ s.episodes[i].action = t.episodes[i].action
                                     /\ s.episodes[i].device = clear(t.episodes[i].device)
                                     /\ s.episodes[i].ts = t.episodes[i].ts
    BY <1>1, <1>4
  <1>7. \A h \in DOMAIN t.hist : /\ s.hist[h].episode = t.hist[h].episode
                                 /\ s.hist[h].action = t.hist[h].action
                                 /\ s.hist[h].device = clear(t.hist[h].device)
                                 /\ s.hist[h].ts = t.hist[h].ts
    BY <1>2, <1>4
  <1> HIDE DEF s, eps, hst, erow, hrow
  <1>8. ASSUME Consistent(t) PROVE Consistent(s)
    <2>1. ShowsLatest(s)
      BY <1>5, <1>6, <1>7, <1>8 DEF Consistent, ShowsLatest, Shows
    <2>2. UrlsUnique(s)
      BY <1>5, <1>6, <1>8 DEF Consistent, UrlsUnique
    <2>3. RefsHold(s)
      BY <1>4, <1>5, <1>6, <1>7, <1>8 DEF Consistent, RefsHold
    <2> QED BY <2>1, <2>2, <2>3 DEF Consistent
  <1> QED BY <1>4, <1>8 DEF s

\* Deleting a podcast takes its episodes and their history along, and nothing else.
LEMMA WithoutPodcastConsistent ==
    ASSUME NEW t \in Tables, NEW p \in Podcasts
    PROVE  /\ WithoutPodcast(t, p) \in Tables
           /\ Consistent(t) => Consistent(WithoutPodcast(t, p))
  <1> DEFINE left == {i \in DOMAIN t.episodes : t.episodes[i].podcast # p}
             kept == {h \in DOMAIN t.hist : t.hist[h].episode \in left}
             s == WithoutPodcast(t, p)
  <1>1. /\ KeepRows(t.episodes, left) \in TableOf(EpisodeIds, EpisodeRow)
        /\ KeepRows(t.hist, kept) \in TableOf(HistIds, HistRow)
    BY TablesDef, TableDef DEF KeepRows
  <1>2. /\ s.devices = t.devices
        /\ s.podcasts = [t.podcasts EXCEPT ![p] = "absent"]
        /\ s.episodes = KeepRows(t.episodes, left)
        /\ s.hist = KeepRows(t.hist, kept)
        /\ s \in Tables
    BY <1>1 DEF WithoutPodcast, Tables
  <1>3. /\ DOMAIN s.episodes = left /\ DOMAIN s.hist = kept
        /\ \A i \in left : s.episodes[i] = t.episodes[i]
        /\ \A h \in kept : s.hist[h] = t.hist[h]
    BY <1>2 DEF KeepRows
  <1>4. \A q \in Podcasts : q # p => s.podcasts[q] = t.podcasts[q]
    BY <1>2, TablesDef
  <1>5. \A i \in DOMAIN t.episodes : t.episodes[i].podcast \in Podcasts
    BY TablesDef DEF EpisodeRow
  <1> HIDE DEF s
  <1>6. ASSUME Consistent(t) PROVE Consistent(s)
    <2>1. ShowsLatest(s)
      BY <1>3, <1>6 DEF Consistent, ShowsLatest, Shows
    <2>2. UrlsUnique(s)
      BY <1>3, <1>6 DEF Consistent, UrlsUnique
    <2>3. RefsHold(s)
      BY <1>2, <1>3, <1>4, <1>5, <1>6 DEF Consistent, RefsHold
    <2> QED BY <2>1, <2>2, <2>3 DEF Consistent
  <1> QED BY <1>2, <1>6 DEF s

-----------------------------------------------------------------------------

\* SaveEpisode keeps the tables consistent, once the podcast and the device of the action
\* exist: it updates the row only when the action is newer, and records it in any case.
LEMMA SaveActionConsistent ==
    ASSUME NEW t \in Tables, NEW a \in Upload, NEW i \in TargetIds(t, a), NEW h \in FreeHistIds(t)
    PROVE  /\ SaveAction(t, a, i, h) \in Tables
           /\ Consistent(t) /\ Ready(t, a) => Consistent(SaveAction(t, a, i, h))
  <1> DEFINE row == EpisodeAfter(t, a, i)
             rec == [episode |-> i, action |-> a.action, device |-> a.device, ts |-> a.ts]
             s == SaveAction(t, a, i, h)
  <1>1. \/ i \in MatchingEpisodes(t, a)
        \/ i \in FreeEpisodeIds(t) /\ MatchingEpisodes(t, a) = {}
    BY DEF TargetIds
  <1>2. i \in EpisodeIds /\ h \in HistIds /\ h \notin DOMAIN t.hist
    BY <1>1, TablesDef DEF MatchingEpisodes, FreeEpisodeIds, FreeHistIds
  <1>3. row \in EpisodeRow
    BY TablesDef DEF EpisodeAfter, EpisodeRow, Upload
  <1>4. rec \in HistRow
    BY <1>2 DEF HistRow, Upload, EpisodeRow
  <1>5. /\ PutRow(t.episodes, i, row) \in TableOf(EpisodeIds, EpisodeRow)
        /\ PutRow(t.hist, h, rec) \in TableOf(HistIds, HistRow)
    BY <1>2, <1>3, <1>4, TablesDef, TableDef DEF PutRow
  <1>6. /\ s.devices = t.devices /\ s.podcasts = t.podcasts
        /\ s.episodes = PutRow(t.episodes, i, row)
        /\ s.hist = PutRow(t.hist, h, rec)
        /\ s \in Tables
    BY <1>5 DEF SaveAction, Tables
  <1>7. /\ DOMAIN s.episodes = DOMAIN t.episodes \cup {i}
        /\ DOMAIN s.hist = DOMAIN t.hist \cup {h}
        /\ s.episodes[i] = row
        /\ s.hist[h] = rec
        /\ \A j \in DOMAIN t.episodes : j # i => s.episodes[j] = t.episodes[j]
        /\ \A k \in DOMAIN t.hist : s.hist[k] = t.hist[k]
    BY <1>2, <1>6 DEF PutRow
  <1>8. CASE i \notin DOMAIN t.episodes
    <2>1. row = a
      BY <1>8 DEF EpisodeAfter
    <2>2. MatchingEpisodes(t, a) = {}
      BY <1>1, <1>8 DEF MatchingEpisodes
    <2>3. \A j \in DOMAIN t.episodes :
             ~(t.episodes[j].podcast = a.podcast /\ t.episodes[j].url = a.url)
      BY <2>2 DEF MatchingEpisodes
    <2>4. a.podcast \in Podcasts /\ a.ts \in Nat
      BY TablesAssumption DEF Upload, EpisodeRow
    <2> HIDE DEF s, row
    <2>5. ASSUME Consistent(t), Ready(t, a) PROVE Consistent(s)
      <3>1. \A k \in DOMAIN t.hist : t.hist[k].episode # i
        BY <1>8, <2>5 DEF Consistent, RefsHold
      <3>2. ShowsLatest(s)
        <4> SUFFICES ASSUME NEW j \in DOMAIN s.episodes
                     PROVE  /\ \E k \in DOMAIN s.hist : Shows(s, j, k)
                            /\ \A k \in DOMAIN s.hist :
                                  s.hist[k].episode = j => s.hist[k].ts <= s.episodes[j].ts
          BY DEF ShowsLatest
        <4>1. CASE j = i
          BY <1>7, <2>1, <2>4, <3>1, <4>1 DEF Shows
        <4>2. CASE j # i
          BY <1>7, <2>5, <4>2 DEF Consistent, ShowsLatest, Shows
        <4> QED BY <4>1, <4>2
      <3>3. UrlsUnique(s)
        BY <1>7, <2>1, <2>3, <2>5 DEF Consistent, UrlsUnique
      <3>4. RefsHold(s)
        BY <1>6, <1>7, <1>8, <2>1, <2>5 DEF Consistent, RefsHold, Ready
      <3> QED BY <3>2, <3>3, <3>4 DEF Consistent
    <2> QED BY <1>6, <2>5 DEF s
  <1>9. CASE i \in DOMAIN t.episodes
    <2>1. t.episodes[i].ts \in Nat /\ a.ts \in Nat
      BY <1>9, TablesDef, TablesAssumption DEF Upload, EpisodeRow
    <2>2. /\ row.podcast = t.episodes[i].podcast /\ row.url = t.episodes[i].url
          /\ \/ /\ t.episodes[i].ts < a.ts
                /\ row.action = a.action /\ row.device = a.device /\ row.ts = a.ts
             \/ a.ts <= t.episodes[i].ts /\ row = t.episodes[i]
      BY <1>9, <2>1, TablesDef DEF EpisodeAfter, EpisodeRow
    <2>3. \A k \in DOMAIN t.hist : t.hist[k].ts \in Nat
      BY TablesDef, TablesAssumption DEF HistRow
    <2>4. DOMAIN s.episodes = DOMAIN t.episodes
      BY <1>7, <1>9
    <2> HIDE DEF s, row
    <2>5. ASSUME Consistent(t), Ready(t, a) PROVE Consistent(s)
      <3>1. \A k \in DOMAIN t.hist : t.hist[k].episode = i => t.hist[k].ts <= t.episodes[i].ts
        BY <1>9, <2>5 DEF Consistent, ShowsLatest
      <3>2. ASSUME NEW j \in DOMAIN s.episodes
            PROVE  /\ \E k \in DOMAIN s.hist : Shows(s, j, k)
                   /\ \A k \in DOMAIN s.hist :
                         s.hist[k].episode = j => s.hist[k].ts <= s.episodes[j].ts
        <4>1. CASE j = i /\ t.episodes[i].ts < a.ts
          <5>1. row.action = a.action /\ row.device = a.device /\ row.ts = a.ts
            BY <2>1, <2>2, <4>1
          <5>2. Shows(s, j, h)
            BY <1>7, <4>1, <5>1 DEF Shows
          <5>3. \A k \in DOMAIN t.hist : t.hist[k].episode = j => t.hist[k].ts <= a.ts
            BY <2>1, <2>3, <3>1, <4>1
          <5> QED BY <1>7, <2>1, <4>1, <5>1, <5>2, <5>3
        <4>2. CASE j = i /\ a.ts <= t.episodes[i].ts
          <5>1. row = t.episodes[i]
            BY <2>1, <2>2, <4>2
          <5>2. PICK k \in DOMAIN t.hist : Shows(t, i, k)
            BY <1>9, <2>5 DEF Consistent, ShowsLatest
          <5>3. Shows(s, j, k)
            BY <1>7, <4>2, <5>1, <5>2 DEF Shows
          <5> QED BY <1>7, <2>1, <3>1, <4>2, <5>1, <5>3
        <4>3. CASE j # i
          <5>1. j \in DOMAIN t.episodes /\ s.episodes[j] = t.episodes[j]
            BY <1>7, <2>4, <4>3
          <5>2. PICK k \in DOMAIN t.hist : Shows(t, j, k)
            BY <2>5, <5>1 DEF Consistent, ShowsLatest
          <5>3. Shows(s, j, k)
            BY <1>7, <5>1, <5>2 DEF Shows
          <5>4. \A m \in DOMAIN t.hist : t.hist[m].episode = j => t.hist[m].ts <= t.episodes[j].ts
            BY <2>5, <5>1 DEF Consistent, ShowsLatest
          <5> QED BY <1>7, <4>3, <5>1, <5>3, <5>4
        <4> QED BY <2>1, <4>1, <4>2, <4>3
      <3>3. ShowsLatest(s)
        BY <3>2 DEF ShowsLatest
      <3>4. UrlsUnique(s)
        <4>1. \A j \in DOMAIN t.episodes : /\ s.episodes[j].podcast = t.episodes[j].podcast
                                           /\ s.episodes[j].url = t.episodes[j].url
          BY <1>7, <2>2
        <4> QED BY <2>4, <2>5, <4>1 DEF Consistent, UrlsUnique
      <3>5. RefsHold(s)
        BY <1>6, <1>7, <1>9, <2>2, <2>4, <2>5 DEF Consistent, RefsHold, Ready
      <3> QED BY <3>3, <3>4, <3>5 DEF Consistent
    <2> QED BY <1>6, <2>5 DEF s
  <1> QED BY <1>8, <1>9

\* Nothing an upload does undoes what its first loop has made ready.
LEMMA ReadyKept ==
    ASSUME NEW t \in Tables, NEW b \in Upload, Ready(t, b)
    PROVE  /\ \A p \in Podcasts : Ready(EnsurePodcast(t, p), b)
           /\ \A d : Ready(EnsureDevice(t, d), b)
           /\ \A a, i, h : Ready(SaveAction(t, a, i, h), b)
  <1>1. ASSUME NEW p \in Podcasts PROVE Ready(EnsurePodcast(t, p), b)
    BY DEF Ready, EnsurePodcast, Tables, Upload, EpisodeRow
  <1>2. ASSUME NEW d PROVE Ready(EnsureDevice(t, d), b)
    BY DEF Ready, EnsureDevice, Tables
  <1>3. ASSUME NEW a, NEW i, NEW h PROVE Ready(SaveAction(t, a, i, h), b)
    BY DEF Ready, SaveAction, Tables
  <1> QED BY <1>1, <1>2, <1>3

\* The first loop makes an action with a device ready.
LEMMA ResolveMakesReady ==
    ASSUME NEW t \in Tables, NEW a \in Upload
    PROVE  Ready(EnsureDevice(EnsurePodcast(t, a.podcast), a.device), a)
  BY DEF Ready, EnsureDevice, EnsurePodcast, Tables, Upload, EpisodeRow
================================================================================
