-------------------------------- MODULE LibraryProofs --------------------------------
(***************************************************************************)
(* Theorems about Library for any podcasts, episodes, devices, actions and *)
(* settings, and for either repository.                                    *)
(***************************************************************************)
EXTENDS Library, Integers, FiniteSetTheorems, WellFoundedInduction, TLAPS

\* The tables as one value.
Content(p, d, e, h, s) ==
    [podcasts |-> p, devices |-> d, episodes |-> e, hist |-> h, settings |-> s]

Shaped(t) == t = Content(t.podcasts, t.devices, t.episodes, t.hist, t.settings)

\* Rows as any database may have them: IsTables bounds their numbers, an import does not.
AnyEpisode ==
    [podcast : Nat, url : Urls, guid : Guids \cup {None}, device : Nat \cup {None}, ts : Times]
AnyHist == [episode : Nat, device : Nat \cup {None}, ts : Times]

HasRows(t) ==
    /\ Shaped(t)
    /\ \A i \in DOMAIN t.episodes : i \in Nat /\ t.episodes[i] \in AnyEpisode
    /\ \A k \in DOMAIN t.hist : t.hist[k] \in AnyHist
    /\ IsFiniteSet(DOMAIN t.episodes) /\ IsFiniteSet(DOMAIN t.hist)

Sound(t) == HasRows(t) /\ RefsHold(t) /\ ShowsLatest(t)

-----------------------------------------------------------------------------
\* Records.

LEMMA SetRows ==
    ASSUME NEW t, Shaped(t), NEW a, NEW b
    PROVE  [t EXCEPT !.episodes = a, !.hist = b]
             = Content(t.podcasts, t.devices, a, b, t.settings)
  <1> DEFINE x == [t EXCEPT !.episodes = a]
             y == [x EXCEPT !.hist = b]
  <1>1. x = Content(t.podcasts, t.devices, a, t.hist, t.settings)
    BY DEF Shaped, Content
  <1>2. y = Content(t.podcasts, t.devices, a, b, t.settings)
    <2> HIDE DEF x
    <2> QED BY <1>1 DEF Content
  <1> QED BY <1>2

\* With the rows of the episodes, the history and the settings replaced.
WithRows(t, a, b, c) == [t EXCEPT !.episodes = a, !.hist = b, !.settings = c]

LEMMA SetRowsAndSettings ==
    ASSUME NEW t, Shaped(t), NEW a, NEW b, NEW c
    PROVE  WithRows(t, a, b, c) = Content(t.podcasts, t.devices, a, b, c)
  <1> DEFINE x == [t EXCEPT !.episodes = a, !.hist = b]
             y == [x EXCEPT !.settings = c]
  <1>1. x = Content(t.podcasts, t.devices, a, b, t.settings)
    BY SetRows
  <1>2. y = Content(t.podcasts, t.devices, a, b, c)
    <2> HIDE DEF x
    <2> QED BY <1>1 DEF Content
  <1> QED BY <1>2 DEF WithRows

LEMMA SetNames ==
    ASSUME NEW t, Shaped(t), NEW a, NEW b
    PROVE  [t EXCEPT !.podcasts = a, !.devices = b]
             = Content(a, b, t.episodes, t.hist, t.settings)
  <1> DEFINE x == [t EXCEPT !.podcasts = a]
             y == [x EXCEPT !.devices = b]
  <1>1. x = Content(a, t.devices, t.episodes, t.hist, t.settings)
    BY DEF Shaped, Content
  <1>2. y = Content(a, b, t.episodes, t.hist, t.settings)
    <2> HIDE DEF x
    <2> QED BY <1>1 DEF Content
  <1> QED BY <1>2

LEMMA SetPodcasts ==
    ASSUME NEW t, Shaped(t), NEW a, NEW b
    PROVE  [t EXCEPT !.podcasts = a, !.settings = b]
             = Content(a, t.devices, t.episodes, t.hist, b)
  <1> DEFINE x == [t EXCEPT !.podcasts = a]
             y == [x EXCEPT !.settings = b]
  <1>1. x = Content(a, t.devices, t.episodes, t.hist, t.settings)
    BY DEF Shaped, Content
  <1>2. y = Content(a, t.devices, t.episodes, t.hist, b)
    <2> HIDE DEF x
    <2> QED BY <1>1 DEF Content
  <1> QED BY <1>2

\* ... and the devices.
WithDevices(t, a, b, c, d) ==
    [t EXCEPT !.devices = a, !.episodes = b, !.hist = c, !.settings = d]

LEMMA SetDevices ==
    ASSUME NEW t, Shaped(t), NEW a, NEW b, NEW c, NEW d
    PROVE  WithDevices(t, a, b, c, d) = Content(t.podcasts, a, b, c, d)
  <1> DEFINE w == [t EXCEPT !.devices = a]
             x == [w EXCEPT !.episodes = b]
             y == [x EXCEPT !.hist = c]
             z == [y EXCEPT !.settings = d]
  <1>1. w = Content(t.podcasts, a, t.episodes, t.hist, t.settings)
    BY DEF Shaped, Content
  <1>2. x = Content(t.podcasts, a, b, t.hist, t.settings)
    <2> HIDE DEF w
    <2> QED BY <1>1 DEF Content
  <1>3. y = Content(t.podcasts, a, b, c, t.settings)
    <2> HIDE DEF x
    <2> QED BY <1>2 DEF Content
  <1>4. z = Content(t.podcasts, a, b, c, d)
    <2> HIDE DEF y
    <2> QED BY <1>3 DEF Content
  <1> QED BY <1>4 DEF WithDevices

LEMMA ContentShaped ==
    ASSUME NEW p, NEW d, NEW e, NEW h, NEW s
    PROVE  /\ Shaped(Content(p, d, e, h, s))
           /\ Content(p, d, e, h, s).podcasts = p
           /\ Content(p, d, e, h, s).devices = d
           /\ Content(p, d, e, h, s).episodes = e
           /\ Content(p, d, e, h, s).hist = h
           /\ Content(p, d, e, h, s).settings = s
  BY DEF Shaped, Content

-----------------------------------------------------------------------------
\* Rows.

LEMMA FreeNumberIsFree ==
    ASSUME NEW n \in Nat, NEW table, IsFiniteSet(DOMAIN table)
    PROVE  /\ FreeNumber(n, table) \in n + 1 .. n + 1 + Cardinality(DOMAIN table)
           /\ FreeNumber(n, table) \notin DOMAIN table
  <1> DEFINE S == DOMAIN table
             c == Cardinality(S)
             I == n + 1 .. n + 1 + c
  <1>1. c \in Nat
    BY FS_CardinalityType
  <1>2. IsFiniteSet(I) /\ Cardinality(I) = c + 1
    <2> HIDE DEF c
    <2> QED BY <1>1, FS_Interval
  <1>3. \E i \in I : i \notin S
    <2> SUFFICES ASSUME I \subseteq S PROVE FALSE
      OBVIOUS
    <2>1. Cardinality(I) <= c
      BY FS_Subset
    <2> HIDE DEF I, c
    <2> QED BY <1>1, <1>2, <2>1
  <1> QED BY <1>3 DEF FreeNumber

\* What insertOrUpdateEpisode leaves in row i.
RowAfter(t, e, i) ==
    IF i \notin DOMAIN t.episodes
    THEN [podcast |-> e.podcast, url |-> e.url, guid |-> e.guid, device |-> e.device, ts |-> e.ts]
    ELSE IF t.episodes[i].ts < e.ts
    THEN [t.episodes[i] EXCEPT !.device = e.device, !.ts = e.ts]
    ELSE t.episodes[i]

Recorded(e, i) == [episode |-> i, device |-> e.device, ts |-> e.ts]

LEMMA SavedIs ==
    ASSUME NEW t, Shaped(t), NEW e, NEW i
    PROVE  Saved(t, e, i) =
             Content(t.podcasts, t.devices, Put(t.episodes, i, RowAfter(t, e, i)),
                     Put(t.hist, FreeNumber(0, t.hist), Recorded(e, i)), t.settings)
  <1> DEFINE a == Put(t.episodes, i, RowAfter(t, e, i))
             b == Put(t.hist, FreeNumber(0, t.hist), Recorded(e, i))
  <1>1. Saved(t, e, i) = [t EXCEPT !.episodes = a, !.hist = b]
    BY DEF Saved, RowAfter, Recorded
  <1> HIDE DEF a, b
  <1>2. Saved(t, e, i) = Content(t.podcasts, t.devices, a, b, t.settings)
    BY <1>1, SetRows
  <1> QED BY <1>2 DEF a, b

\* The row after SaveEpisode: of its episode, and of the action if that is newer.
LEMMA RowAfterFacts ==
    ASSUME NEW t, HasRows(t), NEW e \in AnyEpisode, NEW i
    PROVE  /\ RowAfter(t, e, i) \in AnyEpisode
           /\ i \notin DOMAIN t.episodes =>
                 /\ RowAfter(t, e, i).podcast = e.podcast /\ RowAfter(t, e, i).url = e.url
                 /\ RowAfter(t, e, i).guid = e.guid
                 /\ RowAfter(t, e, i).device = e.device /\ RowAfter(t, e, i).ts = e.ts
           /\ i \in DOMAIN t.episodes =>
                 /\ RowAfter(t, e, i).podcast = t.episodes[i].podcast
                 /\ RowAfter(t, e, i).url = t.episodes[i].url
                 /\ RowAfter(t, e, i).guid = t.episodes[i].guid
                 /\ \/ /\ t.episodes[i].ts < e.ts
                       /\ RowAfter(t, e, i).device = e.device /\ RowAfter(t, e, i).ts = e.ts
                    \/ /\ e.ts <= t.episodes[i].ts
                       /\ RowAfter(t, e, i) = t.episodes[i]
  <1>1. CASE i \notin DOMAIN t.episodes
    BY <1>1 DEF RowAfter, AnyEpisode
  <1>2. CASE i \in DOMAIN t.episodes
    <2> DEFINE old == t.episodes[i]
               new == [old EXCEPT !.device = e.device, !.ts = e.ts]
    <2>1. old \in AnyEpisode
      BY <1>2 DEF HasRows
    <2>2. old.ts \in Nat /\ e.ts \in Nat
      BY <2>1, LibraryAssumption DEF AnyEpisode
    <2>3. /\ new \in AnyEpisode /\ new.podcast = old.podcast /\ new.url = old.url
          /\ new.guid = old.guid /\ new.device = e.device /\ new.ts = e.ts
      <3> HIDE DEF old
      <3> QED BY <2>1 DEF AnyEpisode
    <2>4. RowAfter(t, e, i) = IF old.ts < e.ts THEN new ELSE old
      BY <1>2 DEF RowAfter
    <2> HIDE DEF new
    <2> QED BY <1>2, <2>1, <2>2, <2>3, <2>4
  <1> QED BY <1>1, <1>2

\* The tables after SaveEpisode, row by row.
LEMMA SavedFacts ==
    ASSUME NEW t, HasRows(t), NEW e \in AnyEpisode, NEW i \in Nat
    PROVE  LET s == Saved(t, e, i)
               h == FreeNumber(0, t.hist)
           IN  /\ Shaped(s)
               /\ s.podcasts = t.podcasts /\ s.devices = t.devices /\ s.settings = t.settings
               /\ DOMAIN s.episodes = DOMAIN t.episodes \cup {i}
               /\ s.episodes[i] = RowAfter(t, e, i)
               /\ \A j \in DOMAIN t.episodes : j # i => s.episodes[j] = t.episodes[j]
               /\ h \notin DOMAIN t.hist
               /\ DOMAIN s.hist = DOMAIN t.hist \cup {h}
               /\ s.hist[h] = Recorded(e, i)
               /\ \A k \in DOMAIN t.hist : s.hist[k] = t.hist[k]
  <1> DEFINE s == Saved(t, e, i)
             h == FreeNumber(0, t.hist)
  <1>1. h \notin DOMAIN t.hist
    BY FreeNumberIsFree DEF HasRows
  <1>2. s = Content(t.podcasts, t.devices, Put(t.episodes, i, RowAfter(t, e, i)),
                    Put(t.hist, h, Recorded(e, i)), t.settings)
    BY SavedIs DEF HasRows
  <1> HIDE DEF s, h
  <1>3. /\ Shaped(s)
        /\ s.podcasts = t.podcasts /\ s.devices = t.devices /\ s.settings = t.settings
        /\ s.episodes = Put(t.episodes, i, RowAfter(t, e, i))
        /\ s.hist = Put(t.hist, h, Recorded(e, i))
    BY <1>2, ContentShaped
  <1>4. /\ DOMAIN s.episodes = DOMAIN t.episodes \cup {i}
        /\ s.episodes[i] = RowAfter(t, e, i)
        /\ \A j \in DOMAIN t.episodes : j # i => s.episodes[j] = t.episodes[j]
    BY <1>3 DEF Put
  <1>5. /\ DOMAIN s.hist = DOMAIN t.hist \cup {h}
        /\ s.hist[h] = Recorded(e, i)
        /\ \A k \in DOMAIN t.hist : k # h => s.hist[k] = t.hist[k]
    BY <1>3 DEF Put
  <1> QED BY <1>1, <1>3, <1>4, <1>5 DEF s, h

LEMMA SavedHasRows ==
    ASSUME NEW t, HasRows(t), NEW e \in AnyEpisode, NEW i \in Nat
    PROVE  HasRows(Saved(t, e, i))
  <1> DEFINE s == Saved(t, e, i)
             h == FreeNumber(0, t.hist)
  <1>1. /\ Shaped(s)
        /\ DOMAIN s.episodes = DOMAIN t.episodes \cup {i}
        /\ s.episodes[i] = RowAfter(t, e, i)
        /\ \A j \in DOMAIN t.episodes : j # i => s.episodes[j] = t.episodes[j]
        /\ DOMAIN s.hist = DOMAIN t.hist \cup {h}
        /\ s.hist[h] = Recorded(e, i)
        /\ \A k \in DOMAIN t.hist : s.hist[k] = t.hist[k]
    BY SavedFacts
  <1>2. RowAfter(t, e, i) \in AnyEpisode
    BY RowAfterFacts
  <1>3. Recorded(e, i) \in AnyHist
    BY DEF Recorded, AnyHist, AnyEpisode
  <1> HIDE DEF s, h
  <1>4. IsFiniteSet(DOMAIN s.episodes) /\ IsFiniteSet(DOMAIN s.hist)
    BY <1>1, FS_AddElement DEF HasRows
  <1>5. \A j \in DOMAIN s.episodes : j \in Nat /\ s.episodes[j] \in AnyEpisode
    BY <1>1, <1>2 DEF HasRows
  <1>6. \A k \in DOMAIN s.hist : s.hist[k] \in AnyHist
    BY <1>1, <1>3 DEF HasRows
  <1>7. HasRows(s)
    BY <1>1, <1>4, <1>5, <1>6 DEF HasRows
  <1> QED BY <1>7 DEF s

LEMMA SavedRefs ==
    ASSUME NEW t, HasRows(t), RefsHold(t), NEW e \in AnyEpisode, MaySave(t, e), NEW i \in Nat
    PROVE  RefsHold(Saved(t, e, i))
  <1> DEFINE s == Saved(t, e, i)
             h == FreeNumber(0, t.hist)
             row == RowAfter(t, e, i)
  <1>1. /\ s.podcasts = t.podcasts /\ s.devices = t.devices
        /\ DOMAIN s.episodes = DOMAIN t.episodes \cup {i}
        /\ s.episodes[i] = row
        /\ \A j \in DOMAIN t.episodes : j # i => s.episodes[j] = t.episodes[j]
        /\ DOMAIN s.hist = DOMAIN t.hist \cup {h}
        /\ s.hist[h] = Recorded(e, i)
        /\ \A k \in DOMAIN t.hist : s.hist[k] = t.hist[k]
    BY SavedFacts
  <1>2. /\ Recorded(e, i).episode = i /\ Recorded(e, i).device = e.device
    BY DEF Recorded
  <1>3. row.podcast = e.podcast \/ (i \in DOMAIN t.episodes /\ row.podcast = t.episodes[i].podcast)
    BY RowAfterFacts
  <1>4. row.device = e.device \/ (i \in DOMAIN t.episodes /\ row.device = t.episodes[i].device)
    BY RowAfterFacts
  <1> HIDE DEF s, h, row
  <1>5. \A j \in DOMAIN s.episodes : MaySave(s, s.episodes[j])
    <2> SUFFICES ASSUME NEW j \in DOMAIN s.episodes PROVE MaySave(s, s.episodes[j])
      OBVIOUS
    <2>1. CASE j = i
      BY <1>1, <1>3, <1>4, <2>1 DEF MaySave, RefsHold
    <2>2. CASE j # i
      BY <1>1, <2>2 DEF MaySave, RefsHold
    <2> QED BY <2>1, <2>2
  <1>6. \A k \in DOMAIN s.hist : /\ s.hist[k].episode \in DOMAIN s.episodes
                                 /\ s.hist[k].device \in DOMAIN s.devices \cup {None}
    BY <1>1, <1>2 DEF MaySave, RefsHold
  <1>7. RefsHold(s)
    BY <1>5, <1>6 DEF RefsHold
  <1> QED BY <1>7 DEF s

\* One episode and its history.
ShowsItsLatest(t, i) ==
    /\ \E k \in DOMAIN t.hist :
          /\ t.hist[k].episode = i
          /\ t.hist[k].ts = t.episodes[i].ts
          /\ t.hist[k].device = t.episodes[i].device
    /\ \A k \in DOMAIN t.hist : t.hist[k].episode = i => t.hist[k].ts <= t.episodes[i].ts

LEMMA SavedShows ==
    ASSUME NEW t, HasRows(t), RefsHold(t), ShowsLatest(t), NEW e \in AnyEpisode, NEW i \in Nat
    PROVE  ShowsLatest(Saved(t, e, i))
  <1> DEFINE s == Saved(t, e, i)
             h == FreeNumber(0, t.hist)
             row == RowAfter(t, e, i)
  <1>1. /\ DOMAIN s.episodes = DOMAIN t.episodes \cup {i}
        /\ s.episodes[i] = row
        /\ \A j \in DOMAIN t.episodes : j # i => s.episodes[j] = t.episodes[j]
        /\ DOMAIN s.hist = DOMAIN t.hist \cup {h}
        /\ s.hist[h] = Recorded(e, i)
        /\ \A k \in DOMAIN t.hist : s.hist[k] = t.hist[k]
    BY SavedFacts
  <1>2. /\ Recorded(e, i).episode = i /\ Recorded(e, i).device = e.device
        /\ Recorded(e, i).ts = e.ts
    BY DEF Recorded
  <1>3. e.ts \in Nat /\ \A k \in DOMAIN t.hist : t.hist[k].ts \in Nat
    BY LibraryAssumption DEF HasRows, AnyHist, AnyEpisode
  <1>4. \A j \in DOMAIN t.episodes : t.episodes[j].ts \in Nat
    BY LibraryAssumption DEF HasRows, AnyEpisode
  <1>5. i \notin DOMAIN t.episodes => row.device = e.device /\ row.ts = e.ts
    BY RowAfterFacts
  <1>6. i \in DOMAIN t.episodes =>
           \/ t.episodes[i].ts < e.ts /\ row.device = e.device /\ row.ts = e.ts
           \/ e.ts <= t.episodes[i].ts /\ row = t.episodes[i]
    BY RowAfterFacts
  <1> HIDE DEF s, h, row
  <1>7. ASSUME NEW j \in DOMAIN s.episodes, j # i PROVE ShowsItsLatest(s, j)
    <2>1. j \in DOMAIN t.episodes /\ s.episodes[j] = t.episodes[j]
      BY <1>1, <1>7
    <2>2. PICK k \in DOMAIN t.hist : /\ t.hist[k].episode = j
                                     /\ t.hist[k].ts = t.episodes[j].ts
                                     /\ t.hist[k].device = t.episodes[j].device
      BY <2>1 DEF ShowsLatest
    <2>3. \A m \in DOMAIN t.hist : t.hist[m].episode = j => t.hist[m].ts <= t.episodes[j].ts
      BY <2>1 DEF ShowsLatest
    <2>4. k \in DOMAIN s.hist /\ s.hist[k] = t.hist[k]
      BY <1>1
    <2>5. \A m \in DOMAIN s.hist : s.hist[m].episode = j => s.hist[m].ts <= s.episodes[j].ts
      BY <1>1, <1>2, <1>7, <2>1, <2>3
    <2> QED BY <2>1, <2>2, <2>4, <2>5 DEF ShowsItsLatest
  <1>8. ASSUME i \notin DOMAIN t.episodes PROVE ShowsItsLatest(s, i)
    <2>1. \A k \in DOMAIN t.hist : t.hist[k].episode # i
      BY <1>8 DEF RefsHold
    <2>2. h \in DOMAIN s.hist /\ s.hist[h].episode = i
          /\ s.hist[h].ts = s.episodes[i].ts /\ s.hist[h].device = s.episodes[i].device
      BY <1>1, <1>2, <1>5, <1>8
    <2>3. \A m \in DOMAIN s.hist : s.hist[m].episode = i => s.hist[m].ts <= s.episodes[i].ts
      BY <1>1, <1>2, <1>3, <1>5, <1>8, <2>1
    <2> QED BY <2>2, <2>3 DEF ShowsItsLatest
  <1>9. ASSUME i \in DOMAIN t.episodes PROVE ShowsItsLatest(s, i)
    <2>1. \A k \in DOMAIN t.hist : t.hist[k].episode = i => t.hist[k].ts <= t.episodes[i].ts
      BY <1>9 DEF ShowsLatest
    <2>2. CASE t.episodes[i].ts < e.ts
      <3>1. row.device = e.device /\ row.ts = e.ts
        BY <1>3, <1>4, <1>6, <1>9, <2>2
      <3>2. h \in DOMAIN s.hist /\ s.hist[h].episode = i
            /\ s.hist[h].ts = s.episodes[i].ts /\ s.hist[h].device = s.episodes[i].device
        BY <1>1, <1>2, <3>1
      <3>3. \A k \in DOMAIN t.hist : t.hist[k].episode = i => t.hist[k].ts <= e.ts
        BY <1>3, <1>4, <1>9, <2>1, <2>2
      <3>4. \A m \in DOMAIN s.hist : s.hist[m].episode = i => s.hist[m].ts <= s.episodes[i].ts
        BY <1>1, <1>2, <1>3, <3>1, <3>3
      <3> QED BY <3>2, <3>4 DEF ShowsItsLatest
    <2>3. CASE e.ts <= t.episodes[i].ts
      <3>1. row = t.episodes[i]
        BY <1>3, <1>4, <1>6, <1>9, <2>3
      <3>2. PICK k \in DOMAIN t.hist : /\ t.hist[k].episode = i
                                       /\ t.hist[k].ts = t.episodes[i].ts
                                       /\ t.hist[k].device = t.episodes[i].device
        BY <1>9 DEF ShowsLatest
      <3>3. k \in DOMAIN s.hist /\ s.hist[k] = t.hist[k]
        BY <1>1
      <3>4. \A m \in DOMAIN s.hist : s.hist[m].episode = i => s.hist[m].ts <= s.episodes[i].ts
        BY <1>1, <1>2, <2>1, <2>3, <3>1
      <3> QED BY <1>1, <3>1, <3>2, <3>3, <3>4 DEF ShowsItsLatest
    <2> QED BY <1>3, <1>4, <1>9, <2>2, <2>3
  <1>10. ShowsLatest(s)
    BY <1>7, <1>8, <1>9 DEF ShowsLatest, ShowsItsLatest
  <1> QED BY <1>10 DEF s

LEMMA SavedSound ==
    ASSUME NEW t, Sound(t), NEW e \in AnyEpisode, MaySave(t, e), NEW i \in Nat
    PROVE  Sound(Saved(t, e, i))
  BY SavedHasRows, SavedRefs, SavedShows DEF Sound

-----------------------------------------------------------------------------
\* The committed tables.

\* An episode address has at most one row in a podcast.
UrlsUnique(t) ==
    \A i, j \in DOMAIN t.episodes :
        /\ t.episodes[i].podcast = t.episodes[j].podcast
        /\ t.episodes[i].url = t.episodes[j].url
        => i = j

\* An upload named this podcast and this time, and this address unless a GUID stands for it.
CameFrom(name, url, guid, ts) ==
    \E a \in Uploads : a.podcast = name /\ a.ts = ts /\ (a.url = url \/ guid # None)

\* ... and every row of the history was uploaded.
Uploaded(t) ==
    \A k \in DOMAIN t.hist :
        LET e == t.episodes[t.hist[k].episode]
        IN  CameFrom(t.podcasts[e.podcast], e.url, e.guid, t.hist[k].ts)

\* What every committed content satisfies.
Consistent(t) ==
    /\ Shaped(t) /\ IsTables(t)
    /\ RefsHold(t) /\ ShowsLatest(t) /\ UrlsUnique(t) /\ Uploaded(t)
    /\ t.settings \subseteq Loaded(t)

LEMMA IdsFinite == IsFiniteSet(Ids) /\ Ids \subseteq Nat /\ None \notin Ids
  <1>1. Base + MaxId \in Nat
    BY LibraryAssumption
  <1>2. IsFiniteSet(Ids)
    BY <1>1, FS_Interval DEF Ids
  <1> QED BY <1>1, <1>2, LibraryAssumption DEF Ids

LEMMA TablesHaveRows ==
    ASSUME NEW t, Shaped(t), IsTables(t)
    PROVE  HasRows(t)
  <1>1. /\ t.episodes \in [DOMAIN t.episodes -> EpisodeRow] /\ DOMAIN t.episodes \subseteq Ids
        /\ t.hist \in [DOMAIN t.hist -> HistRow] /\ DOMAIN t.hist \subseteq 1 .. MaxHist
    BY DEF IsTables, IsTable
  <1>2. IsFiniteSet(DOMAIN t.episodes)
    BY <1>1, IdsFinite, FS_Subset
  <1>3. IsFiniteSet(DOMAIN t.hist)
    <2>1. IsFiniteSet(1 .. MaxHist)
      BY LibraryAssumption, FS_Interval
    <2> QED BY <1>1, <2>1, FS_Subset
  <1>4. EpisodeRow \subseteq AnyEpisode /\ HistRow \subseteq AnyHist
    BY IdsFinite DEF EpisodeRow, AnyEpisode, HistRow, AnyHist, Ref
  <1> QED BY <1>1, <1>2, <1>3, <1>4, IdsFinite DEF HasRows

\* The keys that SettingsSrv.load accepts.
LEMMA LoadedKeys ==
    ASSUME NEW t, NEW key
    PROVE  key \in Loaded(t) <=>
             \/ key = [scope |-> "account", podcast |-> None, episode |-> None, device |-> None]
             \/ \E d \in DOMAIN t.devices :
                   key = [scope |-> "device", podcast |-> None, episode |-> None, device |-> d]
             \/ \E p \in DOMAIN t.podcasts :
                   key = [scope |-> "podcast", podcast |-> p, episode |-> None, device |-> None]
             \/ \E i \in DOMAIN t.episodes :
                   key = [scope |-> "episode", podcast |-> t.episodes[i].podcast, episode |-> i,
                          device |-> None]
  BY DEF Loaded

\* A key stays in use as long as the rows it names stay, and their podcast.
LEMMA LoadedStays ==
    ASSUME NEW t, NEW s, NEW key \in Loaded(t),
           key.device # None => key.device \in DOMAIN s.devices,
           key.scope = "podcast" => key.podcast \in DOMAIN s.podcasts,
           key.episode # None =>
               /\ key.episode \in DOMAIN s.episodes
               /\ s.episodes[key.episode].podcast = t.episodes[key.episode].podcast,
           None \notin DOMAIN t.devices, None \notin DOMAIN t.episodes
    PROVE  key \in Loaded(s)
  <1>1. CASE key = [scope |-> "account", podcast |-> None, episode |-> None, device |-> None]
    BY <1>1, LoadedKeys
  <1>2. ASSUME NEW d \in DOMAIN t.devices,
               key = [scope |-> "device", podcast |-> None, episode |-> None, device |-> d]
        PROVE  key \in Loaded(s)
    <2>1. key.device = d /\ d # None
      BY <1>2
    <2>2. d \in DOMAIN s.devices
      BY <2>1
    <2> QED BY <1>2, <2>2, LoadedKeys
  <1>3. ASSUME NEW p \in DOMAIN t.podcasts,
               key = [scope |-> "podcast", podcast |-> p, episode |-> None, device |-> None]
        PROVE  key \in Loaded(s)
    <2>1. key.podcast = p /\ key.scope = "podcast"
      BY <1>3
    <2> QED BY <1>3, <2>1, LoadedKeys
  <1>4. ASSUME NEW i \in DOMAIN t.episodes,
               key = [scope |-> "episode", podcast |-> t.episodes[i].podcast, episode |-> i,
                      device |-> None]
        PROVE  key \in Loaded(s)
    <2>1. key.episode = i /\ i # None
      BY <1>4
    <2>2. i \in DOMAIN s.episodes /\ s.episodes[i].podcast = t.episodes[i].podcast
      BY <2>1
    <2> QED BY <1>4, <2>2, LoadedKeys
  <1>5. \/ key = [scope |-> "account", podcast |-> None, episode |-> None, device |-> None]
        \/ \E d \in DOMAIN t.devices :
              key = [scope |-> "device", podcast |-> None, episode |-> None, device |-> d]
        \/ \E p \in DOMAIN t.podcasts :
              key = [scope |-> "podcast", podcast |-> p, episode |-> None, device |-> None]
        \/ \E i \in DOMAIN t.episodes :
              key = [scope |-> "episode", podcast |-> t.episodes[i].podcast, episode |-> i,
                     device |-> None]
    BY LoadedKeys
  <1> QED BY <1>1, <1>2, <1>3, <1>4, <1>5

LEMMA LoadedTyped ==
    ASSUME NEW t, IsTables(t)
    PROVE  /\ Loaded(t) \subseteq SettingsKey
           /\ None \notin DOMAIN t.devices /\ None \notin DOMAIN t.episodes
           /\ None \notin DOMAIN t.podcasts
  <1>1. /\ DOMAIN t.devices \subseteq Ids /\ DOMAIN t.podcasts \subseteq Ids
        /\ DOMAIN t.episodes \subseteq Ids
        /\ \A i \in DOMAIN t.episodes : t.episodes[i].podcast \in Ids
    BY DEF IsTables, IsTable, EpisodeRow
  <1>2. ASSUME NEW key \in Loaded(t) PROVE key \in SettingsKey
    BY <1>1, LoadedKeys DEF SettingsKey, Scopes, Ref
  <1> QED BY <1>1, <1>2, IdsFinite

LEMMA EmptyConsistent == Consistent(EmptyTables)
  <1> DEFINE t == EmptyTables
  <1>1. DOMAIN NoTable = {} /\ \A S : NoTable \in [{} -> S]
    BY DEF NoTable
  <1>2. /\ t = Content(NoTable, NoTable, NoTable, NoTable, {})
    BY DEF EmptyTables, Content
  <1> HIDE DEF t
  <1>3. /\ Shaped(t) /\ t.podcasts = NoTable /\ t.devices = NoTable /\ t.episodes = NoTable
        /\ t.hist = NoTable /\ t.settings = {}
    BY <1>2, ContentShaped
  <1>4. IsTables(t)
    BY <1>1, <1>3 DEF IsTables, IsTable
  <1>5. Consistent(t)
    BY <1>1, <1>3, <1>4 DEF Consistent, RefsHold, ShowsLatest, UrlsUnique, Uploaded
  <1> QED BY <1>5 DEF t


\* What a key in use refers to.
LEMMA LoadedRefers ==
    ASSUME NEW t, NEW key \in Loaded(t)
    PROVE  /\ key.device # None => key.device \in DOMAIN t.devices
           /\ key.scope = "podcast" => key.podcast \in DOMAIN t.podcasts
           /\ key.episode # None => /\ key.episode \in DOMAIN t.episodes
                                    /\ key.podcast = t.episodes[key.episode].podcast
  <1>1. CASE key = [scope |-> "account", podcast |-> None, episode |-> None, device |-> None]
    BY <1>1
  <1>2. CASE \E d \in DOMAIN t.devices :
                key = [scope |-> "device", podcast |-> None, episode |-> None, device |-> d]
    BY <1>2
  <1>3. CASE \E p \in DOMAIN t.podcasts :
                key = [scope |-> "podcast", podcast |-> p, episode |-> None, device |-> None]
    BY <1>3
  <1>4. CASE \E i \in DOMAIN t.episodes :
                key = [scope |-> "episode", podcast |-> t.episodes[i].podcast, episode |-> i,
                       device |-> None]
    BY <1>4
  <1> QED BY <1>1, <1>2, <1>3, <1>4, LoadedKeys

-----------------------------------------------------------------------------
\* Deletions and updates.

\* The rows of s are rows of t, of the same episodes, and a GUID stays one.
Pruned(s, t) ==
    /\ DOMAIN s.podcasts \subseteq DOMAIN t.podcasts
    /\ \A p \in DOMAIN s.podcasts : s.podcasts[p] = t.podcasts[p]
    /\ DOMAIN s.devices \subseteq DOMAIN t.devices
    /\ DOMAIN s.episodes \subseteq DOMAIN t.episodes
    /\ \A i \in DOMAIN s.episodes :
          /\ s.episodes[i].podcast = t.episodes[i].podcast
          /\ s.episodes[i].url = t.episodes[i].url
          /\ t.episodes[i].guid # None => s.episodes[i].guid # None
    /\ DOMAIN s.hist \subseteq DOMAIN t.hist
    /\ \A k \in DOMAIN s.hist :
          s.hist[k].episode = t.hist[k].episode /\ s.hist[k].ts = t.hist[k].ts

LEMMA PrunedConsistent ==
    ASSUME NEW t, Consistent(t), NEW s, Shaped(s), IsTables(s), Pruned(s, t),
           RefsHold(s), ShowsLatest(s), s.settings \subseteq Loaded(s)
    PROVE  Consistent(s)
  <1>1. UrlsUnique(s)
    BY DEF Consistent, UrlsUnique, Pruned
  <1>2. Uploaded(s)
    <2> SUFFICES ASSUME NEW k \in DOMAIN s.hist
                 PROVE  LET e == s.episodes[s.hist[k].episode]
                        IN  CameFrom(s.podcasts[e.podcast], e.url, e.guid, s.hist[k].ts)
      BY DEF Uploaded
    <2> DEFINE i == s.hist[k].episode
               e == s.episodes[i]
               f == t.episodes[i]
    <2>1. i \in DOMAIN s.episodes /\ e.podcast \in DOMAIN s.podcasts
      BY DEF RefsHold, MaySave
    <2>2. /\ k \in DOMAIN t.hist /\ t.hist[k].episode = i /\ t.hist[k].ts = s.hist[k].ts
          /\ e.podcast = f.podcast /\ e.url = f.url /\ (f.guid # None => e.guid # None)
          /\ s.podcasts[e.podcast] = t.podcasts[f.podcast]
      BY <2>1 DEF Pruned
    <2>3. CameFrom(t.podcasts[f.podcast], f.url, f.guid, t.hist[k].ts)
      BY <2>2 DEF Consistent, Uploaded
    <2>4. PICK a \in Uploads : /\ a.podcast = t.podcasts[f.podcast] /\ a.ts = t.hist[k].ts
                               /\ (a.url = f.url \/ f.guid # None)
      BY <2>3 DEF CameFrom
    <2> HIDE DEF i, e, f
    <2>5. CameFrom(s.podcasts[e.podcast], e.url, e.guid, s.hist[k].ts)
      BY <2>2, <2>4 DEF CameFrom
    <2> QED BY <2>5 DEF i, e
  <1> QED BY <1>1, <1>2 DEF Consistent

LEMMA UpdateConsistent ==
    ASSUME NEW t, Consistent(t), NEW u, NEW g \in Guids
    PROVE  LET s == [t EXCEPT !.episodes = [i \in DOMAIN @ |->
                        IF @[i].url = u THEN [@[i] EXCEPT !.guid = g] ELSE @[i]]]
           IN  Consistent(s) /\ Pruned(s, t)
  <1> DEFINE e == [i \in DOMAIN t.episodes |->
                      IF t.episodes[i].url = u THEN [t.episodes[i] EXCEPT !.guid = g]
                      ELSE t.episodes[i]]
             s == [t EXCEPT !.episodes = e]
  <1>1. s = Content(t.podcasts, t.devices, e, t.hist, t.settings)
    <2> HIDE DEF e
    <2> QED BY DEF Consistent, Shaped, Content
  <1>2. ASSUME NEW i \in DOMAIN t.episodes
        PROVE  /\ e[i] \in EpisodeRow
               /\ e[i].podcast = t.episodes[i].podcast /\ e[i].url = t.episodes[i].url
               /\ e[i].device = t.episodes[i].device /\ e[i].ts = t.episodes[i].ts
               /\ (t.episodes[i].guid # None => e[i].guid # None)
    <2>1. t.episodes[i] \in EpisodeRow
      BY DEF Consistent, IsTables, IsTable
    <2>2. g # None
      BY LibraryAssumption
    <2>3. e[i] = t.episodes[i] \/ e[i] = [t.episodes[i] EXCEPT !.guid = g]
      OBVIOUS
    <2> HIDE DEF e, s
    <2> QED BY <2>1, <2>2, <2>3 DEF EpisodeRow
  <1>3. DOMAIN e = DOMAIN t.episodes /\ e \in [DOMAIN e -> EpisodeRow]
    BY <1>2
  <1> HIDE DEF s, e
  <1>4. /\ Shaped(s) /\ s.podcasts = t.podcasts /\ s.devices = t.devices /\ s.episodes = e
        /\ s.hist = t.hist /\ s.settings = t.settings
    BY <1>1, ContentShaped
  <1>5. IsTables(s)
    BY <1>3, <1>4 DEF Consistent, IsTables, IsTable
  <1>6. Pruned(s, t)
    BY <1>2, <1>3, <1>4 DEF Pruned
  <1>7. RefsHold(s)
    BY <1>2, <1>3, <1>4 DEF Consistent, RefsHold, MaySave
  <1>8. ShowsLatest(s)
    BY <1>2, <1>3, <1>4 DEF Consistent, ShowsLatest
  <1>9. s.settings \subseteq Loaded(s)
    <2> SUFFICES ASSUME NEW key \in t.settings PROVE key \in Loaded(s)
      BY <1>4
    <2>1. key \in Loaded(t) /\ IsTables(t)
      BY DEF Consistent
    <2> QED BY <1>2, <1>3, <1>4, <2>1, LoadedRefers, LoadedStays, LoadedTyped
  <1>10. Consistent(s) /\ Pruned(s, t)
    BY <1>4, <1>5, <1>6, <1>7, <1>8, <1>9, PrunedConsistent
  <1> QED BY <1>10 DEF s, e

LEMMA DeletePodcastConsistent ==
    ASSUME NEW t, Consistent(t), NEW p
    PROVE  LET gone == {i \in DOMAIN t.episodes : t.episodes[i].podcast = p}
               s == [WithoutEpisodes(t, gone) EXCEPT !.podcasts = Keep(@, DOMAIN @ \ {p}),
                                                     !.settings = {x \in @ : x.podcast # p}]
           IN  Consistent(s) /\ Pruned(s, t)
  <1> DEFINE gone == {i \in DOMAIN t.episodes : t.episodes[i].podcast = p}
             pods == Keep(t.podcasts, DOMAIN t.podcasts \ {p})
             eps == Keep(t.episodes, DOMAIN t.episodes \ gone)
             his == Keep(t.hist, {k \in DOMAIN t.hist : t.hist[k].episode \notin gone})
             set1 == {x \in t.settings : x.episode \notin gone}
             set2 == {x \in set1 : x.podcast # p}
             w == WithoutEpisodes(t, gone)
             s == [w EXCEPT !.podcasts = Keep(@, DOMAIN @ \ {p}),
                            !.settings = {x \in @ : x.podcast # p}]
  <1>a. Shaped(t)
    BY DEF Consistent
  <1>1. w = Content(t.podcasts, t.devices, eps, his, set1)
    <2>1. w = WithRows(t, eps, his, set1)
      BY DEF WithoutEpisodes, WithRows
    <2> HIDE DEF w, eps, his, set1, set2, pods, s
    <2> QED BY <1>a, <2>1, SetRowsAndSettings
  <1>2. s = Content(pods, t.devices, eps, his, set2)
    <2> HIDE DEF w, eps, his, set1
    <2>1. /\ Shaped(w) /\ w.podcasts = t.podcasts /\ w.settings = set1 /\ w.devices = t.devices
          /\ w.episodes = eps /\ w.hist = his
      BY <1>1, ContentShaped
    <2>2. s = [w EXCEPT !.podcasts = pods, !.settings = set2]
      BY <2>1
    <2> HIDE DEF s, pods, set2
    <2>3. s = Content(pods, w.devices, w.episodes, w.hist, set2)
      BY <2>1, <2>2, SetPodcasts
    <2> QED BY <2>1, <2>3
  <1>3. /\ DOMAIN pods = DOMAIN t.podcasts \ {p} /\ \A j \in DOMAIN pods : pods[j] = t.podcasts[j]
        /\ DOMAIN eps = DOMAIN t.episodes \ gone /\ \A j \in DOMAIN eps : eps[j] = t.episodes[j]
        /\ DOMAIN his = {k \in DOMAIN t.hist : t.hist[k].episode \notin gone}
        /\ \A k \in DOMAIN his : his[k] = t.hist[k]
    BY DEF Keep
  <1>b. /\ pods \in [DOMAIN pods -> Podcasts] /\ eps \in [DOMAIN eps -> EpisodeRow]
        /\ his \in [DOMAIN his -> HistRow]
    BY <1>3 DEF Keep, Consistent, IsTables, IsTable
  <1>c. set2 \subseteq t.settings /\ \A x \in set2 : x.podcast # p
    OBVIOUS
  <1> HIDE DEF s, w, pods, eps, his, set1, set2
  <1>4. /\ Shaped(s) /\ s.podcasts = pods /\ s.devices = t.devices /\ s.episodes = eps
        /\ s.hist = his /\ s.settings = set2
    BY <1>2, ContentShaped
  <1>5. IsTables(s)
    BY <1>3, <1>4, <1>b, <1>c DEF Consistent, IsTables, IsTable
  <1>6. Pruned(s, t)
    BY <1>3, <1>4 DEF Pruned
  <1>7. RefsHold(s)
    <2>1. \A i \in DOMAIN s.episodes : MaySave(s, s.episodes[i])
      BY <1>3, <1>4 DEF Consistent, RefsHold, MaySave
    <2>2. \A k \in DOMAIN s.hist : /\ s.hist[k].episode \in DOMAIN s.episodes
                                   /\ s.hist[k].device \in DOMAIN s.devices \cup {None}
      BY <1>3, <1>4 DEF Consistent, RefsHold
    <2> QED BY <2>1, <2>2 DEF RefsHold
  <1>8. ShowsLatest(s)
    <2> SUFFICES ASSUME NEW i \in DOMAIN s.episodes PROVE ShowsItsLatest(s, i)
      BY DEF ShowsLatest, ShowsItsLatest
    <2>1. i \in DOMAIN t.episodes /\ i \notin gone /\ s.episodes[i] = t.episodes[i]
      BY <1>3, <1>4
    <2>2. ShowsItsLatest(t, i)
      BY <2>1 DEF Consistent, ShowsLatest, ShowsItsLatest
    <2> QED BY <1>3, <1>4, <2>1, <2>2 DEF ShowsItsLatest
  <1>9. s.settings \subseteq Loaded(s)
    <2> SUFFICES ASSUME NEW key \in set2 PROVE key \in Loaded(s)
      BY <1>4
    <2>1. key \in Loaded(t) /\ IsTables(t) /\ key.podcast # p
      BY <1>c DEF Consistent
    <2>2. key.device # None => key.device \in DOMAIN s.devices
      BY <1>4, <2>1, LoadedRefers
    <2>3. key.scope = "podcast" => key.podcast \in DOMAIN s.podcasts
      BY <1>3, <1>4, <2>1, LoadedRefers
    <2>4. key.episode # None => /\ key.episode \in DOMAIN s.episodes
                                /\ s.episodes[key.episode].podcast
                                     = t.episodes[key.episode].podcast
      BY <1>3, <1>4, <2>1, LoadedRefers
    <2> QED BY <2>1, <2>2, <2>3, <2>4, LoadedStays, LoadedTyped
  <1>10. Consistent(s) /\ Pruned(s, t)
    BY <1>4, <1>5, <1>6, <1>7, <1>8, <1>9, PrunedConsistent
  <1> QED BY <1>10 DEF s, w

LEMMA DeleteDeviceConsistent ==
    ASSUME NEW t, Consistent(t), NEW d
    PROVE  LET s == [t EXCEPT
                       !.devices = Keep(@, DOMAIN @ \ {d}),
                       !.episodes = [i \in DOMAIN @ |->
                           IF @[i].device = d THEN [@[i] EXCEPT !.device = None] ELSE @[i]],
                       !.hist = [k \in DOMAIN @ |->
                           IF @[k].device = d THEN [@[k] EXCEPT !.device = None] ELSE @[k]],
                       !.settings = {x \in @ : x.device # d}]
           IN  Consistent(s) /\ Pruned(s, t)
  <1> DEFINE devs == Keep(t.devices, DOMAIN t.devices \ {d})
             eps == [i \in DOMAIN t.episodes |->
                        IF t.episodes[i].device = d THEN [t.episodes[i] EXCEPT !.device = None]
                        ELSE t.episodes[i]]
             his == [k \in DOMAIN t.hist |->
                        IF t.hist[k].device = d THEN [t.hist[k] EXCEPT !.device = None]
                        ELSE t.hist[k]]
             sets == {x \in t.settings : x.device # d}
             s == [t EXCEPT !.devices = devs, !.episodes = eps, !.hist = his, !.settings = sets]
             WithoutD(x) == IF x = d THEN None ELSE x
  <1>a. Shaped(t)
    BY DEF Consistent
  <1>1. s = Content(t.podcasts, devs, eps, his, sets)
    <2>1. s = WithDevices(t, devs, eps, his, sets)
      BY DEF WithDevices
    <2> HIDE DEF s, devs, eps, his, sets
    <2> QED BY <1>a, <2>1, SetDevices
  <1>2. ASSUME NEW i \in DOMAIN t.episodes
        PROVE  /\ eps[i] \in EpisodeRow
               /\ eps[i].podcast = t.episodes[i].podcast /\ eps[i].url = t.episodes[i].url
               /\ eps[i].ts = t.episodes[i].ts /\ eps[i].guid = t.episodes[i].guid
               /\ eps[i].device = WithoutD(t.episodes[i].device)
    <2>1. t.episodes[i] \in EpisodeRow
      BY DEF Consistent, IsTables, IsTable
    <2>2. eps[i] = IF t.episodes[i].device = d THEN [t.episodes[i] EXCEPT !.device = None]
                   ELSE t.episodes[i]
      OBVIOUS
    <2> HIDE DEF eps, his, devs, sets, s
    <2> QED BY <2>1, <2>2 DEF EpisodeRow, Ref
  <1>3. ASSUME NEW k \in DOMAIN t.hist
        PROVE  /\ his[k] \in HistRow
               /\ his[k].episode = t.hist[k].episode /\ his[k].ts = t.hist[k].ts
               /\ his[k].device = WithoutD(t.hist[k].device)
    <2>1. t.hist[k] \in HistRow
      BY DEF Consistent, IsTables
    <2>2. his[k] = IF t.hist[k].device = d THEN [t.hist[k] EXCEPT !.device = None]
                   ELSE t.hist[k]
      OBVIOUS
    <2> HIDE DEF eps, his, devs, sets, s
    <2> QED BY <2>1, <2>2 DEF HistRow, Ref
  <1>4. /\ DOMAIN eps = DOMAIN t.episodes /\ eps \in [DOMAIN eps -> EpisodeRow]
        /\ DOMAIN his = DOMAIN t.hist /\ his \in [DOMAIN his -> HistRow]
    BY <1>2, <1>3
  <1>5. /\ DOMAIN devs = DOMAIN t.devices \ {d}
        /\ devs \in [DOMAIN devs -> Devices]
    BY DEF Keep, Consistent, IsTables, IsTable
  <1>6. sets \subseteq t.settings /\ \A x \in sets : x.device # d
    OBVIOUS
  <1> HIDE DEF s, devs, eps, his, sets
  <1>7. /\ Shaped(s) /\ s.podcasts = t.podcasts /\ s.devices = devs /\ s.episodes = eps
        /\ s.hist = his /\ s.settings = sets
    BY <1>1, ContentShaped
  <1>8. IsTables(s)
    BY <1>4, <1>5, <1>6, <1>7 DEF Consistent, IsTables, IsTable
  <1>9. Pruned(s, t)
    BY <1>2, <1>3, <1>4, <1>5, <1>7 DEF Pruned
  <1>10. RefsHold(s)
    <2>1. \A i \in DOMAIN s.episodes : MaySave(s, s.episodes[i])
      BY <1>2, <1>4, <1>5, <1>7 DEF Consistent, RefsHold, MaySave
    <2>2. \A k \in DOMAIN s.hist : /\ s.hist[k].episode \in DOMAIN s.episodes
                                   /\ s.hist[k].device \in DOMAIN s.devices \cup {None}
      BY <1>3, <1>4, <1>5, <1>7 DEF Consistent, RefsHold
    <2> QED BY <2>1, <2>2 DEF RefsHold
  <1>11. ShowsLatest(s)
    <2> SUFFICES ASSUME NEW i \in DOMAIN s.episodes PROVE ShowsItsLatest(s, i)
      BY DEF ShowsLatest, ShowsItsLatest
    <2>1. i \in DOMAIN t.episodes /\ s.episodes[i] = eps[i]
      BY <1>4, <1>7
    <2>2. ShowsItsLatest(t, i)
      BY <2>1 DEF Consistent, ShowsLatest, ShowsItsLatest
    <2>3. \A k \in DOMAIN t.hist : k \in DOMAIN s.hist /\ s.hist[k] = his[k]
      BY <1>4, <1>7
    <2> QED BY <1>2, <1>3, <1>4, <1>7, <2>1, <2>2, <2>3 DEF ShowsItsLatest
  <1>12. s.settings \subseteq Loaded(s)
    <2> SUFFICES ASSUME NEW key \in sets PROVE key \in Loaded(s)
      BY <1>7
    <2>1. key \in Loaded(t) /\ IsTables(t) /\ key.device # d
      BY <1>6 DEF Consistent
    <2>2. key.device # None => key.device \in DOMAIN s.devices
      BY <1>5, <1>7, <2>1, LoadedRefers
    <2>3. key.scope = "podcast" => key.podcast \in DOMAIN s.podcasts
      BY <1>7, <2>1, LoadedRefers
    <2>4. key.episode # None => /\ key.episode \in DOMAIN s.episodes
                                /\ s.episodes[key.episode].podcast
                                     = t.episodes[key.episode].podcast
      BY <1>2, <1>4, <1>7, <2>1, LoadedRefers
    <2> QED BY <2>1, <2>2, <2>3, <2>4, LoadedStays, LoadedTyped
  <1>13. Consistent(s) /\ Pruned(s, t)
    BY <1>7, <1>8, <1>9, <1>10, <1>11, <1>12, PrunedConsistent
  <1> QED BY <1>13 DEF s, devs, eps, his, sets

LEMMA SettingConsistent ==
    ASSUME NEW t, Consistent(t), NEW key \in Loaded(t), NEW value
    PROVE  Consistent(SettingSaved(t, key, value)) /\ Pruned(SettingSaved(t, key, value), t)
  <1> DEFINE sets == IF value = "" THEN t.settings \ {key} ELSE t.settings \cup {key}
             s == [t EXCEPT !.settings = sets]
  <1>1. s = SettingSaved(t, key, value)
    BY DEF SettingSaved
  <1>2. sets \subseteq Loaded(t)
    BY DEF Consistent
  <1>3. s = Content(t.podcasts, t.devices, t.episodes, t.hist, sets)
    <2> HIDE DEF sets
    <2> QED BY DEF Consistent, Shaped, Content
  <1> HIDE DEF s, sets
  <1>4. /\ Shaped(s) /\ s.podcasts = t.podcasts /\ s.devices = t.devices
        /\ s.episodes = t.episodes /\ s.hist = t.hist /\ s.settings = sets
    BY <1>3, ContentShaped
  <1>5. Loaded(s) = Loaded(t)
    BY <1>4 DEF Loaded
  <1>6. IsTables(t) /\ sets \subseteq SettingsKey
    BY <1>2, LoadedTyped DEF Consistent
  <1>7. IsTables(s)
    BY <1>4, <1>6 DEF IsTables
  <1>8. Pruned(s, t)
    BY <1>4 DEF Pruned
  <1>9. RefsHold(s) /\ ShowsLatest(s)
    BY <1>4 DEF Consistent, RefsHold, MaySave, ShowsLatest
  <1>10. Consistent(s) /\ Pruned(s, t)
    BY <1>2, <1>4, <1>5, <1>7, <1>8, <1>9, PrunedConsistent
  <1> QED BY <1>1, <1>10

\* The rows that PostgreSQL keeps: an episode keeps its latest.
LEMMA CleanedPgConsistent ==
    ASSUME NEW t, Consistent(t), NEW old \in Times
    PROVE  LET s == CleanedPg(t, old)
           IN  /\ Consistent(s) /\ Pruned(s, t)
               /\ s.episodes = t.episodes /\ s.settings = t.settings
  <1> DEFINE kept == {k \in DOMAIN t.hist :
                        \/ t.hist[k].ts >= old
                        \/ \A j \in DOMAIN t.hist :
                              t.hist[j].episode = t.hist[k].episode => t.hist[j].ts <= t.hist[k].ts}
             his == Keep(t.hist, kept)
             s == [t EXCEPT !.hist = his]
  <1>1. s = CleanedPg(t, old)
    BY DEF CleanedPg
  <1>2. s = Content(t.podcasts, t.devices, t.episodes, his, t.settings)
    <2> HIDE DEF his
    <2> QED BY DEF Consistent, Shaped, Content
  <1>3. DOMAIN his = kept /\ \A k \in kept : his[k] = t.hist[k]
    BY DEF Keep
  <1>4. /\ kept \subseteq DOMAIN t.hist
        /\ \A k \in DOMAIN t.hist :
              (\A j \in DOMAIN t.hist :
                  t.hist[j].episode = t.hist[k].episode => t.hist[j].ts <= t.hist[k].ts)
              => k \in kept
    OBVIOUS
  <1> HIDE DEF s, his, kept
  <1>5. /\ Shaped(s) /\ s.podcasts = t.podcasts /\ s.devices = t.devices
        /\ s.episodes = t.episodes /\ s.hist = his /\ s.settings = t.settings
    BY <1>2, ContentShaped
  <1>6. his \in [DOMAIN his -> HistRow]
    BY <1>3, <1>4 DEF his, Keep, Consistent, IsTables
  <1>7. IsTables(s)
    BY <1>3, <1>4, <1>5, <1>6 DEF Consistent, IsTables
  <1>8. Pruned(s, t)
    BY <1>3, <1>4, <1>5 DEF Pruned
  <1>9. RefsHold(s)
    BY <1>3, <1>4, <1>5 DEF Consistent, RefsHold, MaySave
  <1>10. ShowsLatest(s)
    <2> SUFFICES ASSUME NEW i \in DOMAIN t.episodes PROVE ShowsItsLatest(s, i)
      BY <1>5 DEF ShowsLatest, ShowsItsLatest
    <2>1. PICK k \in DOMAIN t.hist : /\ t.hist[k].episode = i
                                     /\ t.hist[k].ts = t.episodes[i].ts
                                     /\ t.hist[k].device = t.episodes[i].device
      BY DEF Consistent, ShowsLatest
    <2>2. \A j \in DOMAIN t.hist : t.hist[j].episode = i => t.hist[j].ts <= t.episodes[i].ts
      BY DEF Consistent, ShowsLatest
    <2>3. k \in kept
      BY <1>4, <2>1, <2>2
    <2> QED BY <1>3, <1>4, <1>5, <2>1, <2>2, <2>3 DEF ShowsItsLatest
  <1>11. s.settings \subseteq Loaded(s)
    <2>1. Loaded(s) = Loaded(t)
      BY <1>5 DEF Loaded
    <2> QED BY <1>5, <2>1 DEF Consistent
  <1>12. Consistent(s) /\ Pruned(s, t)
    BY <1>5, <1>7, <1>8, <1>9, <1>10, <1>11, PrunedConsistent
  <1> QED BY <1>1, <1>5, <1>12

LEMMA PrunedSelf == ASSUME NEW t PROVE Pruned(t, t)
  BY DEF Pruned

LEMMA MaintainedConsistent ==
    ASSUME NEW t, Consistent(t), NEW repository \in Repositories, NEW old \in Times
    PROVE  LET s == Maintained(repository, t, old)
           IN  /\ Consistent(s) /\ Pruned(s, t)
               /\ s.episodes = t.episodes /\ s.settings = t.settings
  <1>1. CASE repository = "sqlite"
    <2>1. Maintained(repository, t, old) = t
      BY <1>1 DEF Maintained
    <2> QED BY <2>1, PrunedSelf
  <1>2. CASE repository # "sqlite"
    <2>1. Maintained(repository, t, old) = CleanedPg(t, old)
      BY <1>2 DEF Maintained
    <2> QED BY <2>1, CleanedPgConsistent
  <1> QED BY <1>1, <1>2

-----------------------------------------------------------------------------
\* Uploads.

\* The podcast and the device of an action have their rows.
WithNames(t, p, podcast, d, device) ==
    [t EXCEPT !.podcasts = Put(@, p, podcast), !.devices = Put(@, d, device)]

LEMMA NamesConsistent ==
    ASSUME NEW t, Consistent(t), NEW p \in Ids, NEW d \in Ids,
           NEW podcast \in Podcasts, NEW device \in Devices,
           p \in DOMAIN t.podcasts => t.podcasts[p] = podcast,
           d \in DOMAIN t.devices => t.devices[d] = device
    PROVE  LET s == WithNames(t, p, podcast, d, device)
           IN  /\ Consistent(s)
               /\ DOMAIN s.podcasts = DOMAIN t.podcasts \cup {p} /\ s.podcasts[p] = podcast
               /\ \A j \in DOMAIN t.podcasts : s.podcasts[j] = t.podcasts[j]
               /\ DOMAIN s.devices = DOMAIN t.devices \cup {d}
               /\ s.episodes = t.episodes /\ s.hist = t.hist
  <1> DEFINE pods == Put(t.podcasts, p, podcast)
             devs == Put(t.devices, d, device)
             s == [t EXCEPT !.podcasts = pods, !.devices = devs]
  <1>1. s = Content(pods, devs, t.episodes, t.hist, t.settings)
    <2> HIDE DEF pods, devs
    <2> QED BY SetNames DEF Consistent
  <1>2. /\ DOMAIN pods = DOMAIN t.podcasts \cup {p} /\ pods[p] = podcast
        /\ \A j \in DOMAIN t.podcasts : pods[j] = t.podcasts[j]
        /\ DOMAIN devs = DOMAIN t.devices \cup {d} /\ devs[d] = device
        /\ \A j \in DOMAIN t.devices : devs[j] = t.devices[j]
    BY DEF Put
  <1>3. pods \in [DOMAIN pods -> Podcasts] /\ devs \in [DOMAIN devs -> Devices]
    BY DEF Put, Consistent, IsTables, IsTable
  <1> HIDE DEF s, pods, devs
  <1>4. /\ Shaped(s) /\ s.podcasts = pods /\ s.devices = devs
        /\ s.episodes = t.episodes /\ s.hist = t.hist /\ s.settings = t.settings
    BY <1>1, ContentShaped
  <1>5. IsTables(s)
    BY <1>2, <1>3, <1>4 DEF Consistent, IsTables, IsTable
  <1>6. RefsHold(s)
    BY <1>2, <1>4 DEF Consistent, RefsHold, MaySave
  <1>7. ShowsLatest(s) /\ UrlsUnique(s)
    BY <1>4 DEF Consistent, ShowsLatest, UrlsUnique
  <1>8. Uploaded(s)
    <2> SUFFICES ASSUME NEW k \in DOMAIN t.hist
                 PROVE  LET e == t.episodes[t.hist[k].episode]
                        IN  CameFrom(pods[e.podcast], e.url, e.guid, t.hist[k].ts)
      BY <1>4 DEF Uploaded
    <2>1. t.episodes[t.hist[k].episode].podcast \in DOMAIN t.podcasts
      BY DEF Consistent, RefsHold, MaySave
    <2> QED BY <1>2, <2>1 DEF Consistent, Uploaded
  <1>9. s.settings \subseteq Loaded(s)
    <2> SUFFICES ASSUME NEW key \in t.settings PROVE key \in Loaded(s)
      BY <1>4
    <2>1. key \in Loaded(t) /\ IsTables(t)
      BY DEF Consistent
    <2> QED BY <1>2, <1>4, <2>1, LoadedRefers, LoadedStays, LoadedTyped
  <1>10. Consistent(s)
    BY <1>4, <1>5, <1>6, <1>7, <1>8, <1>9 DEF Consistent
  <1>11. s = WithNames(t, p, podcast, d, device)
    BY DEF s, pods, devs, WithNames
  <1> QED BY <1>2, <1>4, <1>10, <1>11

LEMMA SavedConsistent ==
    ASSUME NEW t, Consistent(t), Cardinality(DOMAIN t.hist) < MaxHist,
           NEW a \in Uploads, NEW e,
           e = [podcast |-> e.podcast, url |-> a.url, guid |-> a.guid, device |-> e.device,
                ts |-> a.ts],
           e.podcast \in DOMAIN t.podcasts, t.podcasts[e.podcast] = a.podcast,
           e.device \in DOMAIN t.devices,
           NEW i \in Ids,
           \/ i \in Matching(t, e)
           \/ Matching(t, e) = {} /\ i \notin DOMAIN t.episodes
    PROVE  Consistent(Saved(t, e, i))
  <1> DEFINE s == Saved(t, e, i)
             h == FreeNumber(0, t.hist)
             row == RowAfter(t, e, i)
  <1>1. a \in Upload
    BY LibraryAssumption
  <1>2. /\ e.url = a.url /\ e.guid = a.guid /\ e.ts = a.ts
        /\ e.url \in Urls /\ e.guid \in Guids \cup {None} /\ e.ts \in Times
    <2>1. e.url = a.url /\ e.guid = a.guid /\ e.ts = a.ts
      OBVIOUS
    <2> QED BY <1>1, <2>1 DEF Upload
  <1>3. e.podcast \in Ids /\ e.device \in Ids
    BY DEF Consistent, IsTables, IsTable
  <1>4. e \in EpisodeRow /\ e \in AnyEpisode
    <2>1. e \in EpisodeRow
      BY <1>2, <1>3 DEF EpisodeRow, Ref
    <2> QED BY <2>1, IdsFinite DEF EpisodeRow, AnyEpisode, Ref
  <1>5. HasRows(t) /\ RefsHold(t) /\ ShowsLatest(t) /\ MaySave(t, e) /\ i \in Nat
    BY TablesHaveRows, IdsFinite DEF Consistent, MaySave
  <1>6. HasRows(s) /\ RefsHold(s) /\ ShowsLatest(s)
    BY <1>4, <1>5, SavedHasRows, SavedRefs, SavedShows
  <1>7. /\ Shaped(s)
        /\ s.podcasts = t.podcasts /\ s.devices = t.devices /\ s.settings = t.settings
        /\ DOMAIN s.episodes = DOMAIN t.episodes \cup {i}
        /\ s.episodes[i] = row
        /\ \A j \in DOMAIN t.episodes : j # i => s.episodes[j] = t.episodes[j]
        /\ h \notin DOMAIN t.hist
        /\ DOMAIN s.hist = DOMAIN t.hist \cup {h}
        /\ s.hist[h] = Recorded(e, i)
        /\ \A k \in DOMAIN t.hist : s.hist[k] = t.hist[k]
    BY <1>4, <1>5, SavedFacts
  <1>8. /\ row \in AnyEpisode
        /\ row.podcast = e.podcast \/ (i \in DOMAIN t.episodes /\ row.podcast = t.episodes[i].podcast)
        /\ row.device = e.device \/ (i \in DOMAIN t.episodes /\ row.device = t.episodes[i].device)
    BY <1>4, <1>5, RowAfterFacts
  <1>9. /\ i \notin DOMAIN t.episodes =>
              row.podcast = e.podcast /\ row.url = e.url /\ row.guid = e.guid
        /\ i \in DOMAIN t.episodes =>
              /\ row.podcast = t.episodes[i].podcast /\ row.url = t.episodes[i].url
              /\ row.guid = t.episodes[i].guid
    BY <1>4, <1>5, RowAfterFacts
  <1>10. row.podcast = e.podcast
    BY <1>9 DEF Matching
  <1>11. i \in Matching(t, e) => row.url = e.url \/ row.guid # None
    BY <1>9 DEF Matching
  <1>12. h \in 1 .. MaxHist
    <2>1. h \in 0 + 1 .. 0 + 1 + Cardinality(DOMAIN t.hist)
      BY <1>5, FreeNumberIsFree DEF HasRows
    <2>2. Cardinality(DOMAIN t.hist) \in Nat
      BY <1>5, FS_CardinalityType DEF HasRows
    <2> QED BY <2>1, <2>2, LibraryAssumption
  <1>13. /\ Recorded(e, i).episode = i /\ Recorded(e, i).ts = e.ts /\ Recorded(e, i) \in HistRow
    BY <1>2, <1>3 DEF Recorded, HistRow, Ref
  <1> HIDE DEF s, h, row
  <1>14. row \in EpisodeRow
    <2>1. row.podcast \in Ids /\ row.device \in Ref
      <3>1. i \in DOMAIN t.episodes => t.episodes[i] \in EpisodeRow
        BY DEF Consistent, IsTables, IsTable
      <3>2. i \in DOMAIN t.episodes => t.episodes[i].device \in Ref
        BY <3>1 DEF EpisodeRow
      <3> QED BY <1>3, <1>8, <1>10, <3>2 DEF Ref
    <2> QED BY <1>8, <2>1 DEF AnyEpisode, EpisodeRow
  <1>15. IsTables(s)
    <2>1. s.episodes \in [DOMAIN s.episodes -> EpisodeRow]
      <3>1. \A j \in DOMAIN s.episodes : s.episodes[j] \in EpisodeRow
        BY <1>7, <1>14 DEF Consistent, IsTables, IsTable
      <3>2. s.episodes = [j \in DOMAIN s.episodes |-> s.episodes[j]]
        <4>1. s.episodes = Put(t.episodes, i, row)
          BY <1>5, SavedIs, ContentShaped DEF s, h, row, HasRows
        <4> QED BY <4>1 DEF Put
      <3> QED BY <3>1, <3>2
    <2>2. s.hist \in [DOMAIN s.hist -> HistRow]
      <3>1. \A k \in DOMAIN s.hist : s.hist[k] \in HistRow
        BY <1>7, <1>13 DEF Consistent, IsTables
      <3>2. s.hist = [k \in DOMAIN s.hist |-> s.hist[k]]
        <4>1. s.hist = Put(t.hist, h, Recorded(e, i))
          BY <1>5, SavedIs, ContentShaped DEF s, h, row, HasRows
        <4> QED BY <4>1 DEF Put
      <3> QED BY <3>1, <3>2
    <2>3. DOMAIN s.episodes \subseteq Ids /\ DOMAIN s.hist \subseteq 1 .. MaxHist
      BY <1>7, <1>12 DEF Consistent, IsTables, IsTable
    <2> QED BY <1>7, <2>1, <2>2, <2>3 DEF Consistent, IsTables, IsTable
  <1>16. UrlsUnique(s)
    <2> SUFFICES ASSUME NEW j \in DOMAIN s.episodes, NEW k \in DOMAIN s.episodes,
                        s.episodes[j].podcast = s.episodes[k].podcast,
                        s.episodes[j].url = s.episodes[k].url
                 PROVE  j = k
      BY DEF UrlsUnique
    <2>1. CASE i \in DOMAIN t.episodes
      <3>1. \A m \in DOMAIN s.episodes :
               /\ m \in DOMAIN t.episodes /\ s.episodes[m].podcast = t.episodes[m].podcast
               /\ s.episodes[m].url = t.episodes[m].url
        BY <1>7, <1>9, <2>1
      <3> QED BY <3>1 DEF Consistent, UrlsUnique
    <2>2. CASE i \notin DOMAIN t.episodes
      <3>1. \A m \in DOMAIN t.episodes :
               ~(t.episodes[m].podcast = e.podcast /\ t.episodes[m].url = e.url)
        BY <2>2 DEF Matching
      <3>2. \A m \in DOMAIN s.episodes : m = i \/ m \in DOMAIN t.episodes
        BY <1>7
      <3> QED BY <1>7, <1>9, <2>2, <3>1, <3>2 DEF Consistent, UrlsUnique
    <2> QED BY <2>1, <2>2
  <1>17. Uploaded(s)
    <2> SUFFICES ASSUME NEW k \in DOMAIN s.hist
                 PROVE  LET r == s.episodes[s.hist[k].episode]
                        IN  CameFrom(s.podcasts[r.podcast], r.url, r.guid, s.hist[k].ts)
      BY DEF Uploaded
    <2>1. CASE k = h
      <3>1. s.hist[k].episode = i /\ s.hist[k].ts = a.ts
        BY <1>2, <1>7, <1>13, <2>1
      <3>2. row.url = a.url \/ row.guid # None
        BY <1>2, <1>9, <1>11 DEF Matching
      <3>3. CameFrom(a.podcast, row.url, row.guid, a.ts)
        BY <3>2 DEF CameFrom
      <3> QED BY <1>7, <1>10, <3>1, <3>3
    <2>2. CASE k # h
      <3> DEFINE j == t.hist[k].episode
                 r == s.episodes[j]
                 o == t.episodes[j]
      <3>1. k \in DOMAIN t.hist /\ s.hist[k] = t.hist[k]
        BY <1>7, <2>2
      <3>2. j \in DOMAIN t.episodes
        BY <3>1 DEF Consistent, RefsHold
      <3>3. r.podcast = o.podcast /\ r.url = o.url /\ r.guid = o.guid
        BY <1>7, <1>9, <3>2
      <3>4. CameFrom(t.podcasts[o.podcast], o.url, o.guid, t.hist[k].ts)
        BY <3>1 DEF Consistent, Uploaded
      <3> QED BY <1>7, <3>1, <3>3, <3>4
    <2> QED BY <2>1, <2>2
  <1>18. s.settings \subseteq Loaded(s)
    <2> SUFFICES ASSUME NEW key \in t.settings PROVE key \in Loaded(s)
      BY <1>7
    <2>1. key \in Loaded(t) /\ IsTables(t)
      BY DEF Consistent
    <2>2. key.episode # None => /\ key.episode \in DOMAIN s.episodes
                                /\ s.episodes[key.episode].podcast
                                     = t.episodes[key.episode].podcast
      BY <1>7, <1>9, <2>1, LoadedRefers
    <2> QED BY <1>7, <2>1, <2>2, LoadedRefers, LoadedStays, LoadedTyped
  <1>19. Consistent(s)
    BY <1>6, <1>7, <1>15, <1>16, <1>17, <1>18 DEF Consistent
  <1> QED BY <1>19 DEF s

-----------------------------------------------------------------------------
\* The invariant.

Kinds == {"podcast", "device", "episode"}

\* Every number in use was given.
NumbersGiven(t, n) ==
    /\ \A p \in DOMAIN t.podcasts : p <= n["podcast"]
    /\ \A d \in DOMAIN t.devices : d <= n["device"]
    /\ \A i \in DOMAIN t.episodes : i <= n["episode"]

\* A podcast of s is one of t, or its number had not been given.
NamesKept(s, t, n) ==
    \A p \in DOMAIN s.podcasts :
        \/ p \in DOMAIN t.podcasts /\ s.podcasts[p] = t.podcasts[p]
        \/ p > n["podcast"]

File(r, t, b, d, p, e, s) ==
    [read |-> r, start |-> t, torn |-> b, devices |-> d, podcasts |-> p, episodes |-> e,
     settings |-> s]

\* A row of the file is an upload for a podcast of the file.
RowUploaded(x, row) ==
    row.podcast \in DOMAIN x.podcasts =>
        CameFrom(x.podcasts[row.podcast], row.url, row.guid, row.ts)

IsFile(x) == x = File(x.read, x.start, x.torn, x.devices, x.podcasts, x.episodes, x.settings)

\* What was read is consistent in itself ...
FileHolds(x) ==
    /\ IsFile(x)
    /\ x.read \in 0 .. 5 /\ x.torn \in BOOLEAN /\ Consistent(x.start)
    /\ IsTable(x.devices, Devices) /\ IsTable(x.podcasts, Podcasts)
    /\ x.episodes \in Seq(Exported) /\ x.settings \subseteq SettingsKey
    /\ x.read <= 2 => x.episodes = <<>>
    /\ \A k \in DOMAIN x.episodes : RowUploaded(x, x.episodes[k])
    /\ \A j, k \in DOMAIN x.episodes :
          x.episodes[j].podcast = x.episodes[k].podcast /\ x.episodes[j].url = x.episodes[k].url
          => x.episodes[j].guid = x.episodes[k].guid

\* ... and it is of this library: a number in the file never comes to mean another podcast.
FileOf(x, t, n) ==
    \A p \in DOMAIN x.podcasts :
        p <= n["podcast"] /\ (p \in DOMAIN t.podcasts => t.podcasts[p] = x.podcasts[p])

\* An export that nobody disturbed has read what was there when it began.
Undisturbed(x, t) ==
    ~x.torn =>
        /\ x.read \in 1 .. 4 => x.start = t
        /\ x.read >= 2 => x.devices = x.start.devices
        /\ x.read >= 3 => x.podcasts = x.start.podcasts
        /\ x.read >= 4 => \E q \in ByTime(x.start.hist) : x.episodes = Rows(x.start, q)
        /\ x.read = 5 => x.settings = x.start.settings

LibraryInv ==
    /\ Consistent(db)
    /\ issued \in [Kinds -> 0 .. MaxId]
    /\ NumbersGiven(db, issued)
    /\ FileHolds(export)
    /\ FileOf(export, db, issued)
    /\ Undisturbed(export, db)

LEMMA FileFields ==
    ASSUME NEW r, NEW t, NEW b, NEW d, NEW p, NEW e, NEW s
    PROVE  LET x == File(r, t, b, d, p, e, s)
           IN  /\ IsFile(x)
               /\ x.read = r /\ x.start = t /\ x.torn = b /\ x.devices = d /\ x.podcasts = p
               /\ x.episodes = e /\ x.settings = s
  BY DEF IsFile, File

LEMMA SetTorn ==
    ASSUME NEW x, IsFile(x), NEW b, NEW t
    PROVE  [x EXCEPT !.torn = b, !.start = t]
             = File(x.read, t, b, x.devices, x.podcasts, x.episodes, x.settings)
  <1> DEFINE y == [x EXCEPT !.torn = b]
             z == [y EXCEPT !.start = t]
  <1>1. y = File(x.read, x.start, b, x.devices, x.podcasts, x.episodes, x.settings)
    BY DEF IsFile, File
  <1>2. z = File(x.read, t, b, x.devices, x.podcasts, x.episodes, x.settings)
    <2> HIDE DEF y
    <2> QED BY <1>1 DEF File
  <1> QED BY <1>2

Torn(x) == File(x.read, EmptyTables, TRUE, x.devices, x.podcasts, x.episodes, x.settings)

LEMMA TornHolds ==
    ASSUME NEW x, FileHolds(x)
    PROVE  FileHolds(Torn(x)) /\ Torn(x).torn /\ Torn(x).podcasts = x.podcasts
  <1> DEFINE y == Torn(x)
  <1>1. /\ IsFile(y) /\ y.read = x.read /\ y.start = EmptyTables /\ y.torn = TRUE
        /\ y.devices = x.devices /\ y.podcasts = x.podcasts /\ y.episodes = x.episodes
        /\ y.settings = x.settings
    BY DEF Torn, IsFile, File
  <1> HIDE DEF y
  <1>2. \A k \in DOMAIN y.episodes : RowUploaded(y, y.episodes[k])
    BY <1>1 DEF FileHolds, RowUploaded
  <1>3. FileHolds(y)
    <2>1. /\ IsTable(x.devices, Devices) /\ IsTable(x.podcasts, Podcasts)
          /\ x.episodes \in Seq(Exported) /\ x.settings \subseteq SettingsKey
          /\ x.read \in 0 .. 5 /\ (x.read <= 2 => x.episodes = <<>>)
      BY DEF FileHolds
    <2>2. \A j, k \in DOMAIN y.episodes :
             y.episodes[j].podcast = y.episodes[k].podcast /\ y.episodes[j].url = y.episodes[k].url
             => y.episodes[j].guid = y.episodes[k].guid
      BY <1>1 DEF FileHolds
    <2>3. y.torn \in BOOLEAN /\ Consistent(y.start)
      BY <1>1, EmptyConsistent
    <2> QED BY <1>1, <1>2, <2>1, <2>2, <2>3 DEF FileHolds
  <1> QED BY <1>1, <1>3 DEF y

\* What a transaction does to an export that is under way.
AfterWrite(x, t, s) == IF x.read \in 1 .. 4 /\ s # t THEN Torn(x) ELSE x

LEMMA WriteKeepsFile ==
    ASSUME NEW x, NEW t, NEW n \in [Kinds -> 0 .. MaxId],
           FileHolds(x), FileOf(x, t, n), Undisturbed(x, t),
           NEW s, NamesKept(s, t, n), NEW m \in [Kinds -> 0 .. MaxId],
           n["podcast"] <= m["podcast"]
    PROVE  LET y == AfterWrite(x, t, s)
           IN  FileHolds(y) /\ FileOf(y, s, m) /\ Undisturbed(y, s)
  <1> DEFINE y == AfterWrite(x, t, s)
  <1>1. n["podcast"] \in Nat /\ m["podcast"] \in Nat
    BY LibraryAssumption DEF Kinds
  <1>2. \A p \in DOMAIN x.podcasts :
           p <= m["podcast"] /\ (p \in DOMAIN s.podcasts => s.podcasts[p] = x.podcasts[p])
    <2> SUFFICES ASSUME NEW p \in DOMAIN x.podcasts
                 PROVE  /\ p <= m["podcast"]
                        /\ p \in DOMAIN s.podcasts => s.podcasts[p] = x.podcasts[p]
      OBVIOUS
    <2>1. p \in Nat
      BY IdsFinite DEF FileHolds, IsTable
    <2>2. p <= n["podcast"] /\ (p \in DOMAIN t.podcasts => t.podcasts[p] = x.podcasts[p])
      BY DEF FileOf
    <2> QED BY <1>1, <2>1, <2>2 DEF NamesKept
  <1>3. FileOf(x, s, m)
    BY <1>2 DEF FileOf
  <1>4. CASE x.read \in 1 .. 4 /\ s # t
    <2>1. y = Torn(x)
      BY <1>4 DEF AfterWrite
    <2>2. FileHolds(Torn(x)) /\ Torn(x).torn /\ Torn(x).podcasts = x.podcasts
      BY TornHolds
    <2> HIDE DEF y
    <2>3. FileHolds(y) /\ FileOf(y, s, m) /\ Undisturbed(y, s)
      BY <1>2, <2>1, <2>2 DEF Undisturbed, FileOf
    <2> QED BY <2>3 DEF y
  <1>5. CASE ~(x.read \in 1 .. 4 /\ s # t)
    <2>1. y = x
      BY <1>5 DEF AfterWrite
    <2> HIDE DEF y
    <2>2. Undisturbed(x, s)
      BY <1>5 DEF Undisturbed
    <2>3. FileHolds(y) /\ FileOf(y, s, m) /\ Undisturbed(y, s)
      BY <1>3, <2>1, <2>2
    <2> QED BY <2>3 DEF y
  <1> QED BY <1>4, <1>5

LEMMA WriteIs ==
    ASSUME FileHolds(export), NEW s, Write(s)
    PROVE  db' = s /\ export' = AfterWrite(export, db, s)
  <1>1. Len(Steps) = 4
    BY DEF Steps
  <1>2. [export EXCEPT !.torn = TRUE, !.start = EmptyTables] = Torn(export)
    BY SetTorn DEF FileHolds, Torn
  <1>3. Reading <=> export.read \in 1 .. 4
    BY <1>1 DEF Reading
  <1>4. export' = Disturbed(s) /\ db' = s
    BY DEF Write
  <1>5. Disturbed(s) = AfterWrite(export, db, s)
    BY <1>2, <1>3 DEF Disturbed, AfterWrite
  <1> QED BY <1>4, <1>5

LEMMA PrunedNames ==
    ASSUME NEW t, NEW s, Pruned(s, t), NEW n
    PROVE  NamesKept(s, t, n)
  BY DEF Pruned, NamesKept

\* A deletion or an update keeps the invariant.
LEMMA PrunedStep ==
    ASSUME LibraryInv, NEW s, Consistent(s), Pruned(s, db), Write(s), UNCHANGED issued
    PROVE  LibraryInv'
  <1>1. db' = s /\ export' = AfterWrite(export, db, s) /\ issued' = issued
    BY WriteIs DEF LibraryInv
  <1>2. NamesKept(s, db, issued)
    BY PrunedNames
  <1>3. issued["podcast"] <= issued["podcast"]
    BY LibraryAssumption DEF LibraryInv, Kinds
  <1>4. /\ FileHolds(export') /\ FileOf(export', s, issued) /\ Undisturbed(export', s)
    BY <1>1, <1>2, <1>3, WriteKeepsFile DEF LibraryInv
  <1>5. NumbersGiven(s, issued)
    BY DEF LibraryInv, NumbersGiven, Pruned
  <1> QED BY <1>1, <1>4, <1>5 DEF LibraryInv

\* The number of a name: of its row, or one that was never given.
LEMMA NumberOfFacts ==
    ASSUME NEW kind \in Kinds, NEW table, NEW name, issued \in [Kinds -> 0 .. MaxId],
           DOMAIN table \subseteq Ids, \A i \in DOMAIN table : i <= issued[kind]
    PROVE  LET n == NumberOf(kind, table, name)
           IN  /\ n \in Nat \ {0}
               /\ \/ n \in DOMAIN table /\ table[n] = name
                  \/ n \notin DOMAIN table /\ n = issued[kind] + 1
  <1> DEFINE n == NumberOf(kind, table, name)
  <1>1. issued[kind] \in Nat
    BY LibraryAssumption
  <1>2. \A i \in DOMAIN table : i \in Nat \ {0}
    BY LibraryAssumption DEF Ids
  <1>3. CASE NumbersOf(table, name) # {}
    <2>1. n \in NumbersOf(table, name)
      BY <1>3 DEF NumberOf
    <2> HIDE DEF n
    <2>2. n \in DOMAIN table /\ table[n] = name
      BY <2>1 DEF NumbersOf
    <2>3. n \in Nat \ {0}
      BY <1>2, <2>2
    <2> QED BY <2>2, <2>3 DEF n
  <1>4. CASE NumbersOf(table, name) = {}
    <2>1. n = issued[kind] + 1
      BY <1>4 DEF NumberOf, NextNumber
    <2> HIDE DEF n
    <2>2. n \notin DOMAIN table
      BY <1>1, <1>2, <2>1
    <2> QED BY <1>1, <2>1, <2>2 DEF n
  <1> QED BY <1>3, <1>4

LEMMA AddActionStep ==
    ASSUME LibraryInv, NEW a \in Uploads, AddAction(a)
    PROVE  LibraryInv'
  <1> DEFINE p == NumberOf("podcast", db.podcasts, a.podcast)
             d == NumberOf("device", db.devices, a.device)
             t == [db EXCEPT !.podcasts = Put(@, p, a.podcast), !.devices = Put(@, d, a.device)]
             e == [podcast |-> p, url |-> a.url, guid |-> a.guid, device |-> d, ts |-> a.ts]
             new == NextNumber("episode", db.episodes)
             most(n, m) == IF n > m THEN n ELSE m
  <1>1. PICK i \in IF Matching(t, e) # {} THEN Matching(t, e) ELSE {new} :
           /\ p <= MaxId /\ d <= MaxId /\ i <= MaxId
           /\ Write(Saved(t, e, i))
           /\ issued' = [issued EXCEPT !["podcast"] = most(@, p), !["device"] = most(@, d),
                                       !["episode"] = most(@, i)]
    BY DEF AddAction
  <1>2. Cardinality(DOMAIN db.hist) < MaxHist
    BY DEF AddAction
  <1>3. a \in Upload /\ a.podcast \in Podcasts /\ a.device \in Devices
    BY LibraryAssumption DEF Upload
  <1>4. /\ Consistent(db) /\ issued \in [Kinds -> 0 .. MaxId] /\ NumbersGiven(db, issued)
        /\ FileHolds(export)
    BY DEF LibraryInv
  <1>5. /\ issued["podcast"] \in Nat /\ issued["device"] \in Nat /\ issued["episode"] \in Nat
    BY <1>4, LibraryAssumption DEF Kinds
  <1>6. /\ DOMAIN db.podcasts \subseteq Ids /\ DOMAIN db.devices \subseteq Ids
        /\ DOMAIN db.episodes \subseteq Ids
    BY <1>4 DEF Consistent, IsTables, IsTable
  <1>7. /\ p \in Nat \ {0}
        /\ \/ p \in DOMAIN db.podcasts /\ db.podcasts[p] = a.podcast
           \/ p \notin DOMAIN db.podcasts /\ p = issued["podcast"] + 1
    BY <1>4, <1>6, NumberOfFacts DEF NumbersGiven, Kinds
  <1>8. /\ d \in Nat \ {0}
        /\ \/ d \in DOMAIN db.devices /\ db.devices[d] = a.device
           \/ d \notin DOMAIN db.devices /\ d = issued["device"] + 1
    BY <1>4, <1>6, NumberOfFacts DEF NumbersGiven, Kinds
  <1>9. e = [podcast |-> e.podcast, url |-> a.url, guid |-> a.guid, device |-> e.device,
             ts |-> a.ts]
        /\ e.podcast = p /\ e.device = d
    OBVIOUS
  <1>a. t = WithNames(db, p, a.podcast, d, a.device)
    BY DEF WithNames
  <1>10. new = issued["episode"] + 1
    BY DEF NextNumber
  <1> HIDE DEF p, d, new, e, t
  <1>11. p \in Ids /\ d \in Ids
    BY <1>1, <1>7, <1>8, LibraryAssumption DEF Ids
  <1>12. /\ Consistent(t)
         /\ DOMAIN t.podcasts = DOMAIN db.podcasts \cup {p} /\ t.podcasts[p] = a.podcast
         /\ \A j \in DOMAIN db.podcasts : t.podcasts[j] = db.podcasts[j]
         /\ DOMAIN t.devices = DOMAIN db.devices \cup {d}
         /\ t.episodes = db.episodes /\ t.hist = db.hist
    BY <1>3, <1>4, <1>7, <1>8, <1>11, <1>a, NamesConsistent
  <1>13. \/ i \in Matching(t, e) /\ i \in DOMAIN db.episodes
         \/ Matching(t, e) = {} /\ i \notin DOMAIN db.episodes /\ i = issued["episode"] + 1
    <2>1. CASE Matching(t, e) # {}
      BY <1>1, <1>12, <2>1 DEF Matching
    <2>2. CASE Matching(t, e) = {}
      <3>1. i = issued["episode"] + 1
        BY <1>1, <1>10, <2>2
      <3>2. \A j \in DOMAIN db.episodes : j \in Nat /\ j <= issued["episode"]
        BY <1>4, <1>6, IdsFinite DEF NumbersGiven
      <3> QED BY <1>5, <2>2, <3>1, <3>2
    <2> QED BY <2>1, <2>2
  <1>14. i \in Ids /\ i \in Nat
    <2>1. i \in Nat /\ i >= 1
      BY <1>5, <1>6, <1>13, LibraryAssumption DEF Ids
    <2> QED BY <1>1, <2>1, LibraryAssumption DEF Ids
  <1> DEFINE s == Saved(t, e, i)
  <1>15. Consistent(s)
    BY <1>2, <1>9, <1>12, <1>13, <1>14, SavedConsistent
  <1>16. /\ s.podcasts = t.podcasts /\ s.devices = t.devices
         /\ DOMAIN s.episodes = DOMAIN t.episodes \cup {i}
    <2>1. Shaped(t)
      BY <1>12 DEF Consistent
    <2>2. /\ s.podcasts = t.podcasts /\ s.devices = t.devices
          /\ s.episodes = Put(t.episodes, i, RowAfter(t, e, i))
      BY <2>1, SavedIs, ContentShaped
    <2> HIDE DEF s
    <2> QED BY <2>2 DEF Put
  <1> HIDE DEF s
  <1>17. NamesKept(s, db, issued)
    BY <1>5, <1>7, <1>12, <1>16 DEF NamesKept
  <1>18. /\ issued'["podcast"] = most(issued["podcast"], p)
         /\ issued'["device"] = most(issued["device"], d)
         /\ issued'["episode"] = most(issued["episode"], i)
         /\ issued' \in [Kinds -> 0 .. MaxId]
    <2>1. \A n \in 0 .. MaxId, m \in Nat : m <= MaxId => most(n, m) \in 0 .. MaxId
      BY LibraryAssumption
    <2>2. issued["podcast"] \in 0 .. MaxId /\ issued["device"] \in 0 .. MaxId
          /\ issued["episode"] \in 0 .. MaxId
      BY <1>4 DEF Kinds
    <2>3. most(issued["podcast"], p) \in 0 .. MaxId
      BY <1>1, <1>7, <2>1, <2>2
    <2>4. most(issued["device"], d) \in 0 .. MaxId
      BY <1>1, <1>8, <2>1, <2>2
    <2>5. most(issued["episode"], i) \in 0 .. MaxId
      BY <1>1, <1>14, <2>1, <2>2
    <2> HIDE DEF most
    <2> QED BY <1>1, <1>4, <2>3, <2>4, <2>5 DEF Kinds
  <1>19. NumbersGiven(s, issued')
    <2>1. /\ issued'["podcast"] \in Nat /\ issued["podcast"] <= issued'["podcast"]
          /\ p <= issued'["podcast"]
      BY <1>5, <1>7, <1>18
    <2>2. /\ issued'["device"] \in Nat /\ issued["device"] <= issued'["device"]
          /\ d <= issued'["device"]
      BY <1>5, <1>8, <1>18
    <2>3. /\ issued'["episode"] \in Nat /\ issued["episode"] <= issued'["episode"]
          /\ i <= issued'["episode"]
      BY <1>5, <1>14, <1>18
    <2> HIDE DEF most
    <2>4. ASSUME NEW j \in DOMAIN s.podcasts PROVE j <= issued'["podcast"]
      <3>1. CASE j = p
        BY <2>1, <3>1
      <3>2. CASE j # p
        <4>1. j \in DOMAIN db.podcasts /\ j \in Nat /\ j <= issued["podcast"]
          BY <1>4, <1>6, <1>12, <1>16, <3>2, IdsFinite DEF NumbersGiven
        <4> QED BY <1>5, <2>1, <4>1
      <3> QED BY <3>1, <3>2
    <2>5. ASSUME NEW j \in DOMAIN s.devices PROVE j <= issued'["device"]
      <3>1. CASE j = d
        BY <2>2, <3>1
      <3>2. CASE j # d
        <4>1. j \in DOMAIN db.devices /\ j \in Nat /\ j <= issued["device"]
          BY <1>4, <1>6, <1>12, <1>16, <3>2, IdsFinite DEF NumbersGiven
        <4> QED BY <1>5, <2>2, <4>1
      <3> QED BY <3>1, <3>2
    <2>6. ASSUME NEW j \in DOMAIN s.episodes PROVE j <= issued'["episode"]
      <3>1. CASE j = i
        BY <2>3, <3>1
      <3>2. CASE j # i
        <4>1. j \in DOMAIN db.episodes /\ j \in Nat /\ j <= issued["episode"]
          BY <1>4, <1>6, <1>12, <1>16, <3>2, IdsFinite DEF NumbersGiven
        <4> QED BY <1>5, <2>3, <4>1
      <3> QED BY <3>1, <3>2
    <2> QED BY <2>4, <2>5, <2>6 DEF NumbersGiven
  <1>20. db' = s /\ export' = AfterWrite(export, db, s)
    BY <1>1, <1>4, WriteIs DEF s
  <1>21. issued["podcast"] <= issued'["podcast"]
    BY <1>5, <1>7, <1>18
  <1>22. FileHolds(export') /\ FileOf(export', s, issued') /\ Undisturbed(export', s)
    BY <1>17, <1>18, <1>20, <1>21, WriteKeepsFile DEF LibraryInv
  <1> QED BY <1>15, <1>18, <1>19, <1>20, <1>22 DEF LibraryInv

-----------------------------------------------------------------------------
\* The export.

LEMMA StartExportStep ==
    ASSUME LibraryInv, StartExport
    PROVE  LibraryInv'
  <1> DEFINE x == File(1, db, FALSE, NoTable, NoTable, <<>>, {})
  <1>1. export' = x
    BY DEF StartExport, NoExport, File
  <1>2. /\ IsFile(x) /\ x.read = 1 /\ x.start = db /\ x.torn = FALSE /\ x.devices = NoTable
        /\ x.podcasts = NoTable /\ x.episodes = <<>> /\ x.settings = {}
    BY FileFields DEF IsFile, File
  <1>3. DOMAIN NoTable = {} /\ IsTable(NoTable, Devices) /\ IsTable(NoTable, Podcasts)
    BY DEF NoTable, IsTable
  <1>4. db' = db /\ issued' = issued
    BY DEF StartExport
  <1> HIDE DEF x
  <1>5. FileHolds(x)
    <2>1. \A k \in DOMAIN x.episodes : FALSE
      BY <1>2
    <2>2. x.episodes \in Seq(Exported) /\ x.settings \subseteq SettingsKey
      BY <1>2
    <2>3. Consistent(x.start)
      BY <1>2 DEF LibraryInv
    <2>4. x.read \in 0 .. 5 /\ (x.read <= 2 => x.episodes = <<>>)
      BY <1>2
    <2>5. x.torn \in BOOLEAN
      BY <1>2
    <2> QED BY <1>2, <1>3, <2>1, <2>2, <2>3, <2>4, <2>5 DEF FileHolds
  <1>6. FileOf(x, db, issued)
    BY <1>2, <1>3 DEF FileOf
  <1>7. Undisturbed(x, db)
    BY <1>2 DEF Undisturbed
  <1> QED BY <1>1, <1>4, <1>5, <1>6, <1>7 DEF LibraryInv

\* What ListEpisodeActions gives.
LEMMA RowsFacts ==
    ASSUME NEW t, Consistent(t), NEW q \in ByTime(t.hist)
    PROVE  /\ Rows(t, q) \in Seq(Exported)
           /\ DOMAIN Rows(t, q) = DOMAIN q
           /\ \A k \in DOMAIN q :
                 /\ q[k] \in DOMAIN t.hist /\ t.hist[q[k]].episode \in DOMAIN t.episodes
                 /\ Rows(t, q)[k].id = t.hist[q[k]].episode
                 /\ Rows(t, q)[k].podcast = t.episodes[t.hist[q[k]].episode].podcast
                 /\ Rows(t, q)[k].url = t.episodes[t.hist[q[k]].episode].url
                 /\ Rows(t, q)[k].guid = t.episodes[t.hist[q[k]].episode].guid
                 /\ Rows(t, q)[k].device = t.hist[q[k]].device
                 /\ Rows(t, q)[k].ts = t.hist[q[k]].ts
  <1>1. q \in [1 .. Cardinality(DOMAIN t.hist) -> DOMAIN t.hist]
    BY DEF ByTime, SetToSeqs
  <1>2. Cardinality(DOMAIN t.hist) \in Nat
    BY TablesHaveRows, FS_CardinalityType DEF Consistent, HasRows
  <1>3. ASSUME NEW k \in DOMAIN q
        PROVE  /\ q[k] \in DOMAIN t.hist /\ t.hist[q[k]].episode \in DOMAIN t.episodes
               /\ Rows(t, q)[k] = [id |-> t.hist[q[k]].episode,
                                   podcast |-> t.episodes[t.hist[q[k]].episode].podcast,
                                   url |-> t.episodes[t.hist[q[k]].episode].url,
                                   guid |-> t.episodes[t.hist[q[k]].episode].guid,
                                   device |-> t.hist[q[k]].device, ts |-> t.hist[q[k]].ts]
    BY <1>1 DEF Consistent, RefsHold, Rows
  <1>4. ASSUME NEW k \in DOMAIN q PROVE Rows(t, q)[k] \in Exported
    <2>1. t.hist[q[k]] \in HistRow /\ t.episodes[t.hist[q[k]].episode] \in EpisodeRow
      BY <1>3 DEF Consistent, IsTables, IsTable
    <2> DEFINE h == t.hist[q[k]]
               e == t.episodes[h.episode]
    <2>2. h.episode \in Ids /\ h.device \in Ref /\ h.ts \in Times
      BY <2>1 DEF HistRow
    <2>3. e.podcast \in Ids /\ e.url \in Urls /\ e.guid \in Guids \cup {None}
      BY <2>1 DEF EpisodeRow
    <2>4. Rows(t, q)[k] = [id |-> h.episode, podcast |-> e.podcast, url |-> e.url,
                           guid |-> e.guid, device |-> h.device, ts |-> h.ts]
      BY <1>3
    <2> HIDE DEF h, e
    <2> QED BY <2>2, <2>3, <2>4 DEF Exported
  <1>5. DOMAIN Rows(t, q) = DOMAIN q
    BY DEF Rows
  <1>6. Rows(t, q) \in Seq(Exported)
    <2>1. Rows(t, q) \in [1 .. Cardinality(DOMAIN t.hist) -> Exported]
      BY <1>1, <1>4, <1>5 DEF Rows
    <2> QED BY <1>2, <2>1
  <1> QED BY <1>3, <1>5, <1>6

\* The part that a read adds.
LEMMA ReadDevices ==
    ASSUME NEW x, IsFile(x), NEW v
    PROVE  [[x EXCEPT !.read = @ + 1] EXCEPT !.devices = v]
             = File(x.read + 1, x.start, x.torn, v, x.podcasts, x.episodes, x.settings)
  <1> DEFINE y == [x EXCEPT !.read = @ + 1]
  <1>1. y = File(x.read + 1, x.start, x.torn, x.devices, x.podcasts, x.episodes, x.settings)
    BY DEF IsFile, File
  <1>2. [y EXCEPT !.devices = v]
          = File(x.read + 1, x.start, x.torn, v, x.podcasts, x.episodes, x.settings)
    <2> HIDE DEF y
    <2> QED BY <1>1 DEF File
  <1> QED BY <1>2

LEMMA ReadPodcasts ==
    ASSUME NEW x, IsFile(x), NEW v
    PROVE  [[x EXCEPT !.read = @ + 1] EXCEPT !.podcasts = v]
             = File(x.read + 1, x.start, x.torn, x.devices, v, x.episodes, x.settings)
  <1> DEFINE y == [x EXCEPT !.read = @ + 1]
  <1>1. y = File(x.read + 1, x.start, x.torn, x.devices, x.podcasts, x.episodes, x.settings)
    BY DEF IsFile, File
  <1>2. [y EXCEPT !.podcasts = v]
          = File(x.read + 1, x.start, x.torn, x.devices, v, x.episodes, x.settings)
    <2> HIDE DEF y
    <2> QED BY <1>1 DEF File
  <1> QED BY <1>2

LEMMA ReadEpisodes ==
    ASSUME NEW x, IsFile(x), NEW v
    PROVE  [[x EXCEPT !.read = @ + 1] EXCEPT !.episodes = v]
             = File(x.read + 1, x.start, x.torn, x.devices, x.podcasts, v, x.settings)
  <1> DEFINE y == [x EXCEPT !.read = @ + 1]
  <1>1. y = File(x.read + 1, x.start, x.torn, x.devices, x.podcasts, x.episodes, x.settings)
    BY DEF IsFile, File
  <1>2. [y EXCEPT !.episodes = v]
          = File(x.read + 1, x.start, x.torn, x.devices, x.podcasts, v, x.settings)
    <2> HIDE DEF y
    <2> QED BY <1>1 DEF File
  <1> QED BY <1>2

LEMMA ReadSettings ==
    ASSUME NEW x, IsFile(x), NEW v
    PROVE  [[x EXCEPT !.read = @ + 1] EXCEPT !.settings = v]
             = File(x.read + 1, x.start, x.torn, x.devices, x.podcasts, x.episodes, v)
  <1> DEFINE y == [x EXCEPT !.read = @ + 1]
  <1>1. y = File(x.read + 1, x.start, x.torn, x.devices, x.podcasts, x.episodes, x.settings)
    BY DEF IsFile, File
  <1>2. [y EXCEPT !.settings = v]
          = File(x.read + 1, x.start, x.torn, x.devices, x.podcasts, x.episodes, v)
    <2> HIDE DEF y
    <2> QED BY <1>1 DEF File
  <1> QED BY <1>2

\* An error leaves no file.
LEMMA NoFile ==
    ASSUME NEW t, NEW given
    PROVE  FileHolds(NoExport) /\ FileOf(NoExport, t, given) /\ Undisturbed(NoExport, t)
  <1> DEFINE x == NoExport
  <1>1. x = File(0, EmptyTables, FALSE, NoTable, NoTable, <<>>, {})
    BY DEF NoExport, File
  <1>2. /\ IsFile(x) /\ x.read = 0 /\ x.start = EmptyTables
        /\ x.torn = FALSE /\ x.devices = NoTable /\ x.podcasts = NoTable
        /\ x.episodes = <<>> /\ x.settings = {}
    BY <1>1 DEF IsFile, File
  <1>3. DOMAIN NoTable = {} /\ IsTable(NoTable, Devices) /\ IsTable(NoTable, Podcasts)
    BY DEF NoTable, IsTable
  <1> HIDE DEF x
  <1>4. FileHolds(x)
    <2>1. \A k \in DOMAIN x.episodes : FALSE
      BY <1>2
    <2>2. x.episodes \in Seq(Exported) /\ x.settings \subseteq SettingsKey
      BY <1>2
    <2>3. Consistent(x.start)
      BY <1>2, EmptyConsistent
    <2>4. x.read \in 0 .. 5 /\ (x.read <= 2 => x.episodes = <<>>)
      BY <1>2
    <2>5. x.torn \in BOOLEAN
      BY <1>2
    <2> QED BY <1>2, <1>3, <2>1, <2>2, <2>3, <2>4, <2>5 DEF FileHolds
  <1>5. FileOf(x, t, given) /\ Undisturbed(x, t)
    BY <1>2, <1>3 DEF FileOf, Undisturbed
  <1> QED BY <1>4, <1>5 DEF x

LEMMA ReadStep ==
    ASSUME LibraryInv, Read
    PROVE  LibraryInv'
  <1> DEFINE x == export
             y == export'
  <1>1. /\ Consistent(db) /\ NumbersGiven(db, issued) /\ FileHolds(x) /\ FileOf(x, db, issued)
        /\ Undisturbed(x, db) /\ IsFile(x)
    BY DEF LibraryInv, FileHolds
  <1>2. db' = db /\ issued' = issued /\ x.read \in 1 .. 4
    BY DEF Read, Reading, Steps
  <1>3. SUFFICES FileHolds(y) /\ FileOf(y, db, issued) /\ Undisturbed(y, db)
    BY <1>2 DEF LibraryInv
  <1>4. \/ Steps[x.read] = "devices"
           /\ y = [[x EXCEPT !.read = @ + 1] EXCEPT !.devices = db.devices]
        \/ Steps[x.read] = "podcasts"
           /\ y = [[x EXCEPT !.read = @ + 1] EXCEPT !.podcasts = db.podcasts]
        \/ Steps[x.read] = "episodes"
           /\ \E q \in ByTime(db.hist) :
                 y = [[x EXCEPT !.read = @ + 1] EXCEPT !.episodes = Rows(db, q)]
        \/ Steps[x.read] = "episodes" /\ y = NoExport
        \/ Steps[x.read] = "settings"
           /\ y = [[x EXCEPT !.read = @ + 1] EXCEPT !.settings = db.settings]
    BY DEF Read
  <1>5. \/ /\ x.read = 1
           /\ y = File(2, x.start, x.torn, db.devices, x.podcasts, x.episodes, x.settings)
        \/ /\ x.read = 2
           /\ y = File(3, x.start, x.torn, x.devices, db.podcasts, x.episodes, x.settings)
        \/ /\ x.read = 3
           /\ \E q \in ByTime(db.hist) :
                 y = File(4, x.start, x.torn, x.devices, x.podcasts, Rows(db, q), x.settings)
        \/ x.read = 3 /\ y = NoExport
        \/ /\ x.read = 4
           /\ y = File(5, x.start, x.torn, x.devices, x.podcasts, x.episodes, db.settings)
    <2>1. Steps[1] = "devices" /\ Steps[2] = "podcasts" /\ Steps[3] = "episodes"
          /\ Steps[4] = "settings"
      BY DEF Steps
    <2>2. x.read = 1 \/ x.read = 2 \/ x.read = 3 \/ x.read = 4
      BY <1>2
    <2>3. /\ Steps[x.read] = "devices" => x.read = 1 /\ x.read + 1 = 2
          /\ Steps[x.read] = "podcasts" => x.read = 2 /\ x.read + 1 = 3
          /\ Steps[x.read] = "episodes" => x.read = 3 /\ x.read + 1 = 4
          /\ Steps[x.read] = "settings" => x.read = 4 /\ x.read + 1 = 5
      BY <2>1, <2>2
    <2>4. CASE Steps[x.read] = "devices"
      <3>1. y = [[x EXCEPT !.read = @ + 1] EXCEPT !.devices = db.devices]
        BY <1>4, <2>4
      <3>2. y = File(x.read + 1, x.start, x.torn, db.devices, x.podcasts, x.episodes, x.settings)
        BY <1>1, <3>1, ReadDevices
      <3> QED BY <2>3, <2>4, <3>2
    <2>5. CASE Steps[x.read] = "podcasts"
      <3>1. y = [[x EXCEPT !.read = @ + 1] EXCEPT !.podcasts = db.podcasts]
        BY <1>4, <2>5
      <3>2. y = File(x.read + 1, x.start, x.torn, x.devices, db.podcasts, x.episodes, x.settings)
        BY <1>1, <3>1, ReadPodcasts
      <3> QED BY <2>3, <2>5, <3>2
    <2>6. CASE Steps[x.read] = "episodes" /\ y # NoExport
      <3>1. PICK q \in ByTime(db.hist) :
               y = [[x EXCEPT !.read = @ + 1] EXCEPT !.episodes = Rows(db, q)]
        BY <1>4, <2>6
      <3>2. y = File(x.read + 1, x.start, x.torn, x.devices, x.podcasts, Rows(db, q), x.settings)
        BY <1>1, <3>1, ReadEpisodes
      <3> QED BY <2>3, <2>6, <3>2
    <2>7. CASE Steps[x.read] = "settings"
      <3>1. y = [[x EXCEPT !.read = @ + 1] EXCEPT !.settings = db.settings]
        BY <1>4, <2>7
      <3>2. y = File(x.read + 1, x.start, x.torn, x.devices, x.podcasts, x.episodes, db.settings)
        BY <1>1, <3>1, ReadSettings
      <3> QED BY <2>3, <2>7, <3>2
    <2>8. CASE Steps[x.read] = "episodes" /\ y = NoExport
      BY <2>3, <2>8
    <2> QED BY <1>4, <2>4, <2>5, <2>6, <2>7, <2>8
  <1>6. /\ IsTable(x.devices, Devices) /\ IsTable(x.podcasts, Podcasts) /\ Consistent(x.start)
        /\ x.episodes \in Seq(Exported) /\ x.settings \subseteq SettingsKey /\ x.torn \in BOOLEAN
    BY <1>1 DEF FileHolds
  <1>7. /\ IsTable(db.devices, Devices) /\ IsTable(db.podcasts, Podcasts)
        /\ db.settings \subseteq SettingsKey
    BY <1>1 DEF Consistent, IsTables
  <1>8. CASE x.read = 1
    <2>1. y = File(2, x.start, x.torn, db.devices, x.podcasts, x.episodes, x.settings)
      BY <1>5, <1>8
    <2> HIDE DEF x, y
    <2>2. /\ IsFile(y) /\ y.read = 2 /\ y.start = x.start /\ y.torn = x.torn
          /\ y.devices = db.devices /\ y.podcasts = x.podcasts /\ y.episodes = x.episodes
          /\ y.settings = x.settings
      BY <2>1, FileFields
    <2>3. y.episodes = <<>>
      BY <1>1, <1>8, <2>2 DEF FileHolds
    <2>4. FileHolds(y)
      BY <1>6, <1>7, <2>2, <2>3 DEF FileHolds
    <2>5. FileOf(y, db, issued)
      BY <1>1, <2>2 DEF FileOf
    <2>6. Undisturbed(y, db)
      BY <1>1, <1>8, <2>2 DEF Undisturbed
    <2> QED BY <2>4, <2>5, <2>6
  <1>9. CASE x.read = 2
    <2>1. y = File(3, x.start, x.torn, x.devices, db.podcasts, x.episodes, x.settings)
      BY <1>5, <1>9
    <2> HIDE DEF x, y
    <2>2. /\ IsFile(y) /\ y.read = 3 /\ y.start = x.start /\ y.torn = x.torn
          /\ y.devices = x.devices /\ y.podcasts = db.podcasts /\ y.episodes = x.episodes
          /\ y.settings = x.settings
      BY <2>1, FileFields
    <2>3. y.episodes = <<>>
      BY <1>1, <1>9, <2>2 DEF FileHolds
    <2>4. FileHolds(y)
      BY <1>6, <1>7, <2>2, <2>3 DEF FileHolds
    <2>5. FileOf(y, db, issued)
      BY <1>1, <2>2 DEF FileOf, NumbersGiven
    <2>6. Undisturbed(y, db)
      BY <1>1, <1>9, <2>2 DEF Undisturbed
    <2> QED BY <2>4, <2>5, <2>6
  <1>10. CASE x.read = 3 /\ y # NoExport
    <2>1. PICK q \in ByTime(db.hist) :
             y = File(4, x.start, x.torn, x.devices, x.podcasts, Rows(db, q), x.settings)
      BY <1>5, <1>10
    <2> HIDE DEF x, y
    <2>2. /\ IsFile(y) /\ y.read = 4 /\ y.start = x.start /\ y.torn = x.torn
          /\ y.devices = x.devices /\ y.podcasts = x.podcasts /\ y.episodes = Rows(db, q)
          /\ y.settings = x.settings
      BY <2>1, FileFields
    <2>3. /\ y.episodes \in Seq(Exported) /\ DOMAIN y.episodes = DOMAIN q
          /\ \A k \in DOMAIN q :
                /\ q[k] \in DOMAIN db.hist /\ db.hist[q[k]].episode \in DOMAIN db.episodes
                /\ y.episodes[k].podcast = db.episodes[db.hist[q[k]].episode].podcast
                /\ y.episodes[k].url = db.episodes[db.hist[q[k]].episode].url
                /\ y.episodes[k].guid = db.episodes[db.hist[q[k]].episode].guid
                /\ y.episodes[k].ts = db.hist[q[k]].ts
      BY <1>1, <2>2, RowsFacts
    <2>4. ASSUME NEW k \in DOMAIN y.episodes PROVE RowUploaded(y, y.episodes[k])
      <3> DEFINE i == db.hist[q[k]].episode
                 row == db.episodes[i]
      <3>1. i \in DOMAIN db.episodes /\ row.podcast \in DOMAIN db.podcasts
        BY <1>1, <2>3 DEF Consistent, RefsHold, MaySave
      <3>2. CameFrom(db.podcasts[row.podcast], row.url, row.guid, db.hist[q[k]].ts)
        BY <1>1, <2>3 DEF Consistent, Uploaded
      <3>3. /\ y.episodes[k].podcast = row.podcast /\ y.episodes[k].url = row.url
            /\ y.episodes[k].guid = row.guid /\ y.episodes[k].ts = db.hist[q[k]].ts
        BY <2>3
      <3>4. row.podcast \in DOMAIN x.podcasts => x.podcasts[row.podcast] = db.podcasts[row.podcast]
        BY <1>1, <3>1 DEF FileOf
      <3> HIDE DEF i, row
      <3> QED BY <2>2, <3>2, <3>3, <3>4 DEF RowUploaded
    <2>5. ASSUME NEW j \in DOMAIN y.episodes, NEW k \in DOMAIN y.episodes,
                 y.episodes[j].podcast = y.episodes[k].podcast,
                 y.episodes[j].url = y.episodes[k].url
          PROVE  y.episodes[j].guid = y.episodes[k].guid
      <3>1. db.hist[q[j]].episode = db.hist[q[k]].episode
        BY <1>1, <2>3, <2>5 DEF Consistent, UrlsUnique
      <3> QED BY <2>3, <3>1
    <2>6. FileHolds(y)
      <3>1. y.read \in 0 .. 5 /\ ~(y.read <= 2)
        BY <2>2
      <3> QED BY <1>6, <2>2, <2>3, <2>4, <2>5, <3>1 DEF FileHolds
    <2>7. FileOf(y, db, issued)
      BY <1>1, <2>2 DEF FileOf
    <2>8. Undisturbed(y, db)
      BY <1>1, <1>10, <2>2 DEF Undisturbed
    <2> QED BY <2>6, <2>7, <2>8
  <1>11. CASE x.read = 4
    <2>1. y = File(5, x.start, x.torn, x.devices, x.podcasts, x.episodes, db.settings)
      BY <1>5, <1>11
    <2> HIDE DEF x, y
    <2>2. /\ IsFile(y) /\ y.read = 5 /\ y.start = x.start /\ y.torn = x.torn
          /\ y.devices = x.devices /\ y.podcasts = x.podcasts /\ y.episodes = x.episodes
          /\ y.settings = db.settings
      BY <2>1, FileFields
    <2>3. \A k \in DOMAIN y.episodes : RowUploaded(y, y.episodes[k])
      BY <1>1, <2>2 DEF FileHolds, RowUploaded
    <2>4. \A j, k \in DOMAIN y.episodes :
             y.episodes[j].podcast = y.episodes[k].podcast /\ y.episodes[j].url = y.episodes[k].url
             => y.episodes[j].guid = y.episodes[k].guid
      BY <1>1, <2>2 DEF FileHolds
    <2>5. FileHolds(y)
      <3>1. y.read \in 0 .. 5 /\ ~(y.read <= 2)
        BY <2>2
      <3> QED BY <1>6, <1>7, <2>2, <2>3, <2>4, <3>1 DEF FileHolds
    <2>6. FileOf(y, db, issued)
      BY <1>1, <2>2 DEF FileOf
    <2>7. Undisturbed(y, db)
      BY <1>1, <1>11, <2>2 DEF Undisturbed
    <2> QED BY <2>5, <2>6, <2>7
  <1>12. CASE x.read = 3 /\ y = NoExport
    BY <1>12, NoFile
  <1> QED BY <1>5, <1>8, <1>9, <1>10, <1>11, <1>12

-----------------------------------------------------------------------------
\* The theorems on what is stored.

LEMMA InitHolds == Init => LibraryInv
  <1> SUFFICES ASSUME Init PROVE LibraryInv
    OBVIOUS
  <1>1. db = EmptyTables /\ Consistent(db)
    BY EmptyConsistent DEF Init
  <1>2. issued \in [Kinds -> 0 .. MaxId]
    BY LibraryAssumption DEF Init, Kinds
  <1>3. NumbersGiven(db, issued)
    BY <1>1 DEF NumbersGiven, EmptyTables, NoTable
  <1>4. FileHolds(export) /\ FileOf(export, db, issued) /\ Undisturbed(export, db)
    BY NoFile DEF Init
  <1> QED BY <1>1, <1>2, <1>3, <1>4 DEF LibraryInv

LEMMA StepHolds == LibraryInv /\ [Next]_vars => LibraryInv'
  <1> SUFFICES ASSUME LibraryInv, [Next]_vars PROVE LibraryInv'
    OBVIOUS
  <1>a. Consistent(db)
    BY DEF LibraryInv
  <1>1. ASSUME NEW a \in Uploads, AddAction(a) PROVE LibraryInv'
    BY <1>1, AddActionStep
  <1>2. ASSUME NEW u \in Urls, NEW g \in Guids, UpdateEpisodeInfo(u, g) PROVE LibraryInv'
    <2> DEFINE s == [db EXCEPT !.episodes = [i \in DOMAIN @ |->
                        IF @[i].url = u THEN [@[i] EXCEPT !.guid = g] ELSE @[i]]]
    <2>1. Write(s) /\ UNCHANGED issued
      BY <1>2 DEF UpdateEpisodeInfo
    <2>2. Consistent(s) /\ Pruned(s, db)
      BY <1>a, UpdateConsistent
    <2> HIDE DEF s
    <2> QED BY <2>1, <2>2, PrunedStep
  <1>3. ASSUME NEW p \in Ids, DeletePodcast(p) PROVE LibraryInv'
    <2> DEFINE gone == {i \in DOMAIN db.episodes : db.episodes[i].podcast = p}
               s == [WithoutEpisodes(db, gone) EXCEPT !.podcasts = Keep(@, DOMAIN @ \ {p}),
                                                      !.settings = {x \in @ : x.podcast # p}]
    <2>1. Write(s) /\ UNCHANGED issued
      BY <1>3 DEF DeletePodcast
    <2>2. Consistent(s) /\ Pruned(s, db)
      BY <1>a, DeletePodcastConsistent
    <2> HIDE DEF s
    <2> QED BY <2>1, <2>2, PrunedStep
  <1>4. ASSUME NEW d \in Ids, DeleteDevice(d) PROVE LibraryInv'
    <2> DEFINE s == [db EXCEPT
                       !.devices = Keep(@, DOMAIN @ \ {d}),
                       !.episodes = [i \in DOMAIN @ |->
                           IF @[i].device = d THEN [@[i] EXCEPT !.device = None] ELSE @[i]],
                       !.hist = [k \in DOMAIN @ |->
                           IF @[k].device = d THEN [@[k] EXCEPT !.device = None] ELSE @[k]],
                       !.settings = {x \in @ : x.device # d}]
    <2>1. Write(s) /\ UNCHANGED issued
      BY <1>4 DEF DeleteDevice
    <2>2. Consistent(s) /\ Pruned(s, db)
      BY <1>a, DeleteDeviceConsistent
    <2> HIDE DEF s
    <2> QED BY <2>1, <2>2, PrunedStep
  <1>5. ASSUME DeleteUser PROVE LibraryInv'
    <2>1. Write(EmptyTables) /\ UNCHANGED issued
      BY <1>5 DEF DeleteUser
    <2>2. Pruned(EmptyTables, db)
      BY DEF Pruned, EmptyTables, NoTable
    <2> QED BY <2>1, <2>2, EmptyConsistent, PrunedStep
  <1>6. ASSUME NEW key \in Loaded(db), NEW set, NEW remove, SaveSettings(key, set, remove)
        PROVE  LibraryInv'
    <2> DEFINE values == Combined(set, remove)
               s == IF DOMAIN values = {} THEN db
                    ELSE SettingSaved(db, key, values["is_favorite"])
    <2>1. Write(s) /\ UNCHANGED issued
      BY <1>6 DEF SaveSettings
    <2> HIDE DEF values
    <2>2. Consistent(s) /\ Pruned(s, db)
      BY <1>a, SettingConsistent, PrunedSelf
    <2> HIDE DEF s
    <2> QED BY <2>1, <2>2, PrunedStep
  <1>7. ASSUME NEW old \in Times, MaintainDatabase(old) PROVE LibraryInv'
    <2> DEFINE s == Maintained(Repository, db, old)
    <2>1. Write(s) /\ UNCHANGED issued
      BY <1>7 DEF MaintainDatabase
    <2>2. Consistent(s) /\ Pruned(s, db)
      BY <1>a, LibraryAssumption, MaintainedConsistent
    <2> HIDE DEF s
    <2> QED BY <2>1, <2>2, PrunedStep
  <1>8. ASSUME UNCHANGED vars PROVE LibraryInv'
    BY <1>8 DEF vars, LibraryInv
  <1> QED BY <1>1, <1>2, <1>3, <1>4, <1>5, <1>6, <1>7, <1>8, StartExportStep, ReadStep DEF Next

\* The tables stay consistent whatever is uploaded, updated, deleted, set and cleaned, and a
\* file holds one library even if that changes between the reads.
THEOREM LibraryInvariant == Spec => []LibraryInv
  <1>1. Init => LibraryInv
    BY InitHolds
  <1>2. LibraryInv /\ [Next]_vars => LibraryInv'
    BY StepHolds
  <1> QED BY <1>1, <1>2, PTL DEF Spec

\* Every variable of Library keeps its shape: no operation of the repositories leaves a row
\* of another kind, or a number nobody gave.
THEOREM LibraryTypeCorrect == Spec => []TypeOK
  <1>1. LibraryInv => TypeOK
    <2> SUFFICES ASSUME LibraryInv PROVE TypeOK
      OBVIOUS
    <2>1. Len(Steps) + 1 = 5
      BY DEF Steps
    <2>2. IsTables(db) /\ IsTables(export.start)
      BY DEF LibraryInv, FileHolds, Consistent
    <2>3. issued \in [{"podcast", "device", "episode"} -> 0 .. MaxId]
      BY DEF LibraryInv, Kinds
    <2> QED BY <2>1, <2>2, <2>3 DEF LibraryInv, FileHolds, TypeOK
  <1> QED BY <1>1, LibraryInvariant, PTL

\* A setting refers to rows that exist, whichever deletion the cascades follow.
THEOREM LibrarySettingsRefer == Spec => []SettingsReferToRows
  <1>1. LibraryInv => SettingsReferToRows
    BY DEF LibraryInv, Consistent, SettingsReferToRows
  <1> QED BY <1>1, LibraryInvariant, PTL

\* The maintenance never takes from an episode the action that it shows.
THEOREM LibraryMaintenance == Spec => []MaintenanceKeepsShown
  <1>1. LibraryInv => MaintenanceKeepsShown
    <2> SUFFICES ASSUME LibraryInv, NEW repository \in Repositories, NEW old \in Times
                 PROVE  LET after == Maintained(repository, db, old)
                        IN  /\ after.episodes = db.episodes
                            /\ after.settings = db.settings
                            /\ ShowsLatest(after)
      BY DEF MaintenanceKeepsShown
    <2> DEFINE after == Maintained(repository, db, old)
    <2>1. Consistent(db)
      BY DEF LibraryInv
    <2>2. Consistent(after) /\ after.episodes = db.episodes /\ after.settings = db.settings
      BY <2>1, MaintainedConsistent
    <2> HIDE DEF after
    <2>3. ShowsLatest(after)
      BY <2>2 DEF Consistent
    <2> QED BY <2>2, <2>3 DEF after
  <1> QED BY <1>1, LibraryInvariant, PTL

-----------------------------------------------------------------------------
\* The replay, action by action.

\* A set of numbers has a least one: what stands for induction below.
LEMMA LeastNumber ==
    ASSUME NEW S \in SUBSET Nat, S # {}
    PROVE  \E n \in S : \A m \in S : n <= m
  <1>1. PICK b \in S : TRUE
    OBVIOUS
  <1> DEFINE B == 0 .. b
             T == {0 .. k : k \in {m \in S : m <= b}}
  <1>2. IsWellFoundedOn(StrictSubsetOrdering(B), FiniteSubsetsOf(B))
    BY FS_Interval, FS_StrictSubsetOrderingWellFounded
  <1>3. T \subseteq FiniteSubsetsOf(B)
    <2>1. IsFiniteSet(B)
      BY FS_Interval
    <2>2. T \subseteq SUBSET B
      OBVIOUS
    <2> HIDE DEF T, B
    <2> QED BY <2>1, <2>2, FS_FiniteSubsetsOfFinite
  <1>4. T # {}
    <2>1. b <= b
      OBVIOUS
    <2> QED BY <2>1
  <1>5. PICK X \in T : \A Y \in T : <<Y, X>> \notin StrictSubsetOrdering(B)
    <2> HIDE DEF T, B
    <2> QED BY <1>2, <1>3, <1>4, WFMin
  <1>6. PICK n \in S : n <= b /\ X = 0 .. n
    BY <1>5
  <1>7. ASSUME NEW m \in S, m < n PROVE FALSE
    <2>1. 0 .. m \in T /\ 0 .. m \subseteq B /\ 0 .. n \subseteq B
      BY <1>6, <1>7
    <2>2. 0 .. m \subseteq 0 .. n /\ n \in 0 .. n /\ n \notin 0 .. m
      BY <1>7
    <2> HIDE DEF T, B
    <2>3. <<0 .. m, 0 .. n>> \in StrictSubsetOrdering(B)
      BY <2>1, <2>2 DEF StrictSubsetOrdering
    <2> QED BY <1>5, <1>6, <2>1, <2>3
  <1>8. \A m \in S : n <= m
    BY <1>7
  <1> QED BY <1>8

\* The tables after 0, 1, .. n actions of a file.
Replays(f, data, n) ==
    f = [k \in 0 .. n |->
            IF k = 0 THEN Begun(data) ELSE Replayed(f[k - 1], Remap(data, data.episodes[k]))]

LEMMA ReplaysExist ==
    ASSUME NEW data, NEW n \in Nat
    PROVE  \E f : Replays(f, data, n)
  <1> DEFINE S == {m \in Nat : ~\E f : Replays(f, data, m)}
  <1> SUFFICES ASSUME S # {} PROVE FALSE
    OBVIOUS
  <1>1. PICK m \in S : \A j \in S : m <= j
    BY LeastNumber
  <1>2. CASE m = 0
    <2> DEFINE f == [k \in 0 .. 0 |-> Begun(data)]
    <2>1. Replays(f, data, 0)
      BY DEF Replays
    <2> HIDE DEF f
    <2> QED BY <1>2, <2>1
  <1>3. CASE m # 0
    <2>1. m - 1 \in Nat /\ m - 1 \notin S
      BY <1>1, <1>3
    <2>2. PICK f : Replays(f, data, m - 1)
      BY <2>1
    <2> DEFINE After(k) == IF k = m THEN Replayed(f[m - 1], Remap(data, data.episodes[m]))
                           ELSE f[k]
               g == [k \in 0 .. m |-> After(k)]
    <2>3. ASSUME NEW k \in 0 .. m
          PROVE  g[k] = IF k = 0 THEN Begun(data)
                        ELSE Replayed(g[k - 1], Remap(data, data.episodes[k]))
      <3>1. CASE k = m
        <4>1. g[m - 1] = f[m - 1]
          BY <2>1
        <4> QED BY <1>3, <3>1, <4>1
      <3>2. CASE k # m
        <4>1. k \in 0 .. m - 1 /\ g[k] = f[k]
          BY <3>2
        <4>2. f[k] = IF k = 0 THEN Begun(data)
                     ELSE Replayed(f[k - 1], Remap(data, data.episodes[k]))
          BY <2>2, <4>1 DEF Replays
        <4>3. k # 0 => g[k - 1] = f[k - 1]
          BY <4>1
        <4> QED BY <4>1, <4>2, <4>3
      <3> QED BY <3>1, <3>2
    <2>4. g = [k \in 0 .. m |->
                  IF k = 0 THEN Begun(data) ELSE Replayed(g[k - 1], Remap(data, data.episodes[k]))]
      <3> HIDE DEF After
      <3>1. g = [k \in 0 .. m |-> g[k]]
        OBVIOUS
      <3> HIDE DEF g
      <3> QED BY <2>3, <3>1
    <2> HIDE DEF g
    <2>5. Replays(g, data, m)
      BY <2>4 DEF Replays
    <2> QED BY <2>5
  <1> QED BY <1>2, <1>3

LEMMA AfterActionsIs ==
    ASSUME NEW data, NEW n \in Nat
    PROVE  \E f : Replays(f, data, n) /\ AfterActions(data, n) = f[n]
  <1> DEFINE f == CHOOSE g : g = [k \in 0 .. n |->
                     IF k = 0 THEN Begun(data)
                     ELSE Replayed(g[k - 1], Remap(data, data.episodes[k]))]
  <1>1. AfterActions(data, n) = f[n]
    BY DEF AfterActions
  <1>2. Replays(f, data, n)
    BY ReplaysExist DEF Replays
  <1> QED BY <1>1, <1>2

-----------------------------------------------------------------------------
\* The new numbers.

LEMMA RenumberedFacts ==
    ASSUME NEW table, DOMAIN table \subseteq Ids
    PROVE  /\ \A i \in DOMAIN table :
                 /\ NewId(table, i) = Base + i
                 /\ NewId(table, i) \in DOMAIN Renumbered(table)
                 /\ Renumbered(table)[NewId(table, i)] = table[i]
           /\ \A i : NewId(table, i) \in Nat
           /\ \A i : NewId(table, i) \in DOMAIN Renumbered(table) => i \in DOMAIN table
           /\ \A i, j : NewId(table, i) \in DOMAIN Renumbered(table)
                           /\ NewId(table, i) = NewId(table, j) => i = j
           /\ \A n \in DOMAIN Renumbered(table) : \E i \in DOMAIN table : n = NewId(table, i)
  <1>1. Base \in Nat /\ \A i \in Ids : i \in Nat /\ i > 0
    BY LibraryAssumption DEF Ids
  <1>2. DOMAIN Renumbered(table) = {Base + j : j \in DOMAIN table}
    BY DEF Renumbered
  <1>3. ASSUME NEW i \in DOMAIN table
        PROVE  /\ NewId(table, i) = Base + i /\ NewId(table, i) \in DOMAIN Renumbered(table)
               /\ Renumbered(table)[NewId(table, i)] = table[i]
               /\ NewId(table, i) \in Nat /\ NewId(table, i) # 0
    <2>1. NewId(table, i) = Base + i /\ i \in Nat /\ i > 0 /\ Base + i - Base = i
      BY <1>1 DEF NewId
    <2>2. Base + i \in {Base + j : j \in DOMAIN table}
      OBVIOUS
    <2>3. Renumbered(table)[Base + i] = table[i]
      <3> DEFINE S == {Base + j : j \in DOMAIN table}
                 n == Base + i
      <3>1. Renumbered(table) = [k \in S |-> table[k - Base]] /\ n \in S
        BY <2>2 DEF Renumbered
      <3>2. n - Base = i
        BY <1>1, <2>1
      <3> HIDE DEF S, n
      <3>3. Renumbered(table)[n] = table[n - Base]
        BY <3>1
      <3> QED BY <3>2, <3>3 DEF n
    <2> QED BY <1>1, <1>2, <2>1, <2>2, <2>3
  <1>4. \A i : i \notin DOMAIN table => NewId(table, i) = 0
    BY DEF NewId
  <1>5. \A n \in DOMAIN Renumbered(table) : \E i \in DOMAIN table : n = NewId(table, i)
    BY <1>2, <1>3
  <1>6. 0 \notin DOMAIN Renumbered(table)
    BY <1>3, <1>5
  <1>7. \A i : NewId(table, i) \in Nat
    BY <1>3, <1>4
  <1>8. \A i : NewId(table, i) \in DOMAIN Renumbered(table) => i \in DOMAIN table
    BY <1>4, <1>6
  <1>9. \A i, j : NewId(table, i) \in DOMAIN Renumbered(table)
                     /\ NewId(table, i) = NewId(table, j) => i = j
    <2> SUFFICES ASSUME NEW i, NEW j, NewId(table, i) \in DOMAIN Renumbered(table),
                        NewId(table, i) = NewId(table, j)
                 PROVE  i = j
      OBVIOUS
    <2>1. i \in DOMAIN table /\ j \in DOMAIN table
      BY <1>8
    <2>2. i \in Nat /\ j \in Nat /\ Base + i = Base + j
      BY <1>1, <1>3, <2>1
    <2> QED BY <1>1, <2>2
  <1> QED BY <1>3, <1>5, <1>7, <1>8, <1>9

-----------------------------------------------------------------------------
\* The import of a file.

\* The device of an action in the new database.
NewDevice(x, d) == IF d = None THEN None ELSE NewId(x.devices, d)

\* History row k of the new tables is action k of the file, of an episode with the same
\* address or the same GUID.
Replay(t, x, k) ==
    /\ Sound(t)
    /\ t.podcasts = Renumbered(x.podcasts) /\ t.devices = Renumbered(x.devices)
    /\ \A i \in DOMAIN t.episodes :
          \E m \in 1 .. k :
              /\ t.episodes[i].podcast = NewId(x.podcasts, x.episodes[m].podcast)
              /\ t.episodes[i].url = x.episodes[m].url
              /\ t.episodes[i].guid = x.episodes[m].guid
    /\ DOMAIN t.hist = 1 .. k
    /\ \A m \in 1 .. k :
          LET e == t.episodes[t.hist[m].episode]
              r == x.episodes[m]
          IN  /\ t.hist[m].ts = r.ts /\ t.hist[m].device = NewDevice(x, r.device)
              /\ e.podcast = NewId(x.podcasts, r.podcast)
              /\ e.url = r.url \/ (r.guid # None /\ e.guid = r.guid)

LEMMA BegunReplay ==
    ASSUME NEW x
    PROVE  Replay(Begun(x), x, 0) /\ Begun(x) # Failed
  <1> DEFINE p == Renumbered(x.podcasts)
             d == Renumbered(x.devices)
             t == Begun(x)
  <1>1. t = Content(p, d, NoTable, NoTable, {})
    <2>1. t = [EmptyTables EXCEPT !.podcasts = p, !.devices = d]
      BY DEF Begun
    <2> HIDE DEF p, d, t
    <2>2. /\ Shaped(EmptyTables) /\ EmptyTables.episodes = NoTable /\ EmptyTables.hist = NoTable
          /\ EmptyTables.settings = {}
      BY DEF EmptyTables, Shaped, Content
    <2> QED BY <2>1, <2>2, SetNames
  <1> HIDE DEF p, d, t
  <1>2. /\ Shaped(t) /\ t.podcasts = p /\ t.devices = d /\ t.episodes = NoTable
        /\ t.hist = NoTable
    BY <1>1, ContentShaped
  <1>3. DOMAIN NoTable = {} /\ IsFiniteSet({}) /\ 1 .. 0 = {}
    BY FS_EmptySet DEF NoTable
  <1>4. Sound(t)
    BY <1>2, <1>3 DEF Sound, HasRows, RefsHold, ShowsLatest
  <1>5. Replay(t, x, 0)
    BY <1>2, <1>3, <1>4 DEF Replay, p, d
  <1>6. t # Failed
    <2>1. DOMAIN t # DOMAIN Failed
      BY <1>1 DEF Content, Failed
    <2> QED BY <2>1
  <1> QED BY <1>5, <1>6 DEF t

\* An action of the file with its new numbers.
LEMMA RemapFacts ==
    ASSUME NEW x, FileHolds(x), NEW m \in DOMAIN x.episodes
    PROVE  LET r == x.episodes[m]
               e == Remap(x, r)
           IN  /\ e \in AnyEpisode /\ e.podcast = NewId(x.podcasts, r.podcast)
               /\ e.url = r.url /\ e.guid = r.guid /\ e.ts = r.ts
               /\ e.device = NewDevice(x, r.device)
  <1> DEFINE r == x.episodes[m]
             e == Remap(x, r)
  <1>1. r \in Exported
    BY DEF FileHolds
  <1>2. e = [podcast |-> NewId(x.podcasts, r.podcast), url |-> r.url, guid |-> r.guid,
             device |-> NewDevice(x, r.device), ts |-> r.ts]
    BY DEF Remap, NewDevice
  <1>3. \A i : NewId(x.podcasts, i) \in Nat /\ NewId(x.devices, i) \in Nat
    BY RenumberedFacts DEF FileHolds, IsTable
  <1> HIDE DEF r, e
  <1>4. NewDevice(x, r.device) \in Nat \cup {None}
    BY <1>3 DEF NewDevice
  <1>5. e \in AnyEpisode
    BY <1>1, <1>2, <1>3, <1>4 DEF AnyEpisode, Exported
  <1> QED BY <1>2, <1>5 DEF r, e

LEMMA ReplayedReplay ==
    ASSUME NEW x, FileHolds(x), NEW m \in DOMAIN x.episodes, NEW t, t # Failed,
           Replay(t, x, m - 1),
           MaySave(t, Remap(x, x.episodes[m]))
    PROVE  LET s == Replayed(t, Remap(x, x.episodes[m]))
           IN  Replay(s, x, m) /\ s # Failed
  <1> DEFINE r == x.episodes[m]
             e == Remap(x, r)
             h == FreeNumber(0, t.hist)
  <1>1. /\ e \in AnyEpisode /\ e.podcast = NewId(x.podcasts, r.podcast)
        /\ e.url = r.url /\ e.guid = r.guid /\ e.ts = r.ts
        /\ e.device = NewDevice(x, r.device)
    BY RemapFacts
  <1>2. /\ Sound(t) /\ HasRows(t)
        /\ t.podcasts = Renumbered(x.podcasts) /\ t.devices = Renumbered(x.devices)
        /\ DOMAIN t.hist = 1 .. m - 1
    BY DEF Replay, Sound
  <1>3. m \in Nat /\ m >= 1 /\ 1 .. m - 1 \cup {m} = 1 .. m
    BY DEF FileHolds
  <1>4. h = m
    <2>1. h \in 0 + 1 .. 0 + 1 + Cardinality(1 .. m - 1) /\ h \notin 1 .. m - 1
      BY <1>2, FreeNumberIsFree DEF HasRows
    <2>2. Cardinality(1 .. m - 1) = m - 1
      BY <1>3, FS_Interval
    <2> HIDE DEF h
    <2> QED BY <1>3, <2>1, <2>2
  <1>5. PICK i \in Nat : /\ Replayed(t, e) = Saved(t, e, i)
                         /\ \/ i \in Matching(t, e)
                            \/ Matching(t, e) = {} /\ i \notin DOMAIN t.episodes
    <2> HIDE DEF e
    <2>1. CASE Matching(t, e) # {}
      <3> DEFINE i == CHOOSE j \in Matching(t, e) : TRUE
      <3>1. Replayed(t, e) = Saved(t, e, i)
        BY <2>1 DEF Replayed, e
      <3>2. i \in Matching(t, e)
        BY <2>1
      <3> HIDE DEF i
      <3>3. i \in Nat
        BY <1>2, <3>2 DEF Matching, HasRows
      <3> QED BY <3>1, <3>2, <3>3
    <2>2. CASE Matching(t, e) = {}
      <3> DEFINE i == FreeNumber(Base, t.episodes)
      <3>1. Replayed(t, e) = Saved(t, e, i)
        BY <2>2 DEF Replayed, e
      <3>2. i \in Base + 1 .. Base + 1 + Cardinality(DOMAIN t.episodes)
            /\ i \notin DOMAIN t.episodes
        BY <1>2, LibraryAssumption, FreeNumberIsFree DEF HasRows
      <3> HIDE DEF i
      <3>3. i \in Nat
        BY <3>2, LibraryAssumption
      <3> QED BY <2>2, <3>1, <3>2, <3>3
    <2> QED BY <2>1, <2>2
  <1> DEFINE s == Saved(t, e, i)
  <1>6. MaySave(t, e)
    OBVIOUS
  <1>7. Sound(s)
    BY <1>1, <1>2, <1>6, SavedSound
  <1> DEFINE row == RowAfter(t, e, i)
  <1>8. /\ Shaped(s) /\ s.podcasts = t.podcasts /\ s.devices = t.devices
        /\ DOMAIN s.episodes = DOMAIN t.episodes \cup {i}
        /\ s.episodes[i] = row
        /\ \A j \in DOMAIN t.episodes : j # i => s.episodes[j] = t.episodes[j]
        /\ DOMAIN s.hist = DOMAIN t.hist \cup {m}
        /\ s.hist[m] = Recorded(e, i)
        /\ \A k \in DOMAIN t.hist : s.hist[k] = t.hist[k]
    <2>1. /\ Shaped(s) /\ s.podcasts = t.podcasts /\ s.devices = t.devices
          /\ DOMAIN s.episodes = DOMAIN t.episodes \cup {i}
          /\ s.episodes[i] = row
          /\ \A j \in DOMAIN t.episodes : j # i => s.episodes[j] = t.episodes[j]
          /\ DOMAIN s.hist = DOMAIN t.hist \cup {h}
          /\ s.hist[h] = Recorded(e, i)
          /\ \A k \in DOMAIN t.hist : s.hist[k] = t.hist[k]
      <3>1. HasRows(t) /\ e \in AnyEpisode /\ i \in Nat
        BY <1>1, <1>2
      <3> HIDE DEF e
      <3> QED BY <3>1, SavedFacts
    <2> HIDE DEF s, h, e, row
    <2> QED BY <1>4, <2>1
  <1>9. /\ i \notin DOMAIN t.episodes =>
              row.podcast = e.podcast /\ row.url = e.url /\ row.guid = e.guid
        /\ i \in DOMAIN t.episodes =>
              /\ row.podcast = t.episodes[i].podcast /\ row.url = t.episodes[i].url
              /\ row.guid = t.episodes[i].guid
    BY <1>1, <1>2, RowAfterFacts
  <1>10. /\ Recorded(e, i).episode = i /\ Recorded(e, i).ts = e.ts
         /\ Recorded(e, i).device = e.device
    BY DEF Recorded
  <1>11. i \in Matching(t, e) =>
            /\ i \in DOMAIN t.episodes /\ t.episodes[i].podcast = e.podcast
            /\ t.episodes[i].url = e.url \/ (e.guid # None /\ t.episodes[i].guid = e.guid)
    BY DEF Matching
  <1>12. DOMAIN s.hist = 1 .. m
    BY <1>2, <1>3, <1>8
  <1>13. s # Failed
    <2>1. s = Content(s.podcasts, s.devices, s.episodes, s.hist, s.settings)
      BY <1>8 DEF Shaped
    <2> HIDE DEF s
    <2>2. DOMAIN s # DOMAIN Failed
      BY <2>1 DEF Content, Failed
    <2> QED BY <2>2
  <1> HIDE DEF s, row, e, h, r
  <1>14. ASSUME NEW j \in DOMAIN s.episodes
         PROVE  \E k \in 1 .. m :
                   /\ s.episodes[j].podcast = NewId(x.podcasts, x.episodes[k].podcast)
                   /\ s.episodes[j].url = x.episodes[k].url
                   /\ s.episodes[j].guid = x.episodes[k].guid
    <2>1. CASE j \in DOMAIN t.episodes
      <3>1. PICK k \in 1 .. m - 1 :
               /\ t.episodes[j].podcast = NewId(x.podcasts, x.episodes[k].podcast)
               /\ t.episodes[j].url = x.episodes[k].url
               /\ t.episodes[j].guid = x.episodes[k].guid
        BY <2>1 DEF Replay
      <3>2. /\ s.episodes[j].podcast = t.episodes[j].podcast
            /\ s.episodes[j].url = t.episodes[j].url /\ s.episodes[j].guid = t.episodes[j].guid
        BY <1>8, <1>9, <2>1
      <3>3. k \in 1 .. m
        BY <1>3
      <3> QED BY <3>1, <3>2, <3>3
    <2>2. CASE j \notin DOMAIN t.episodes
      <3>1. j = i /\ s.episodes[j] = row
        BY <1>8, <2>2
      <3>2. m \in 1 .. m
        BY <1>3
      <3> QED BY <1>1, <1>9, <2>2, <3>1, <3>2 DEF r
    <2> QED BY <2>1, <2>2
  <1>15. ASSUME NEW k \in 1 .. m
         PROVE  LET o == s.episodes[s.hist[k].episode]
                    q == x.episodes[k]
                IN  /\ s.hist[k].ts = q.ts /\ s.hist[k].device = NewDevice(x, q.device)
                    /\ o.podcast = NewId(x.podcasts, q.podcast)
                    /\ o.url = q.url \/ (q.guid # None /\ o.guid = q.guid)
    <2>1. CASE k = m
      <3>1. s.hist[k].episode = i /\ s.hist[k].ts = r.ts
            /\ s.hist[k].device = NewDevice(x, r.device)
        BY <1>1, <1>8, <1>10, <2>1
      <3>2. s.episodes[i] = row
        BY <1>8
      <3>3. row.podcast = e.podcast /\ (row.url = e.url \/ (e.guid # None /\ row.guid = e.guid))
        BY <1>5, <1>9, <1>11
      <3> QED BY <1>1, <2>1, <3>1, <3>2, <3>3 DEF r
    <2>2. CASE k # m
      <3>1. k \in 1 .. m - 1 /\ k \in DOMAIN t.hist
        BY <1>2, <1>3, <2>2
      <3> DEFINE j == t.hist[k].episode
                 q == x.episodes[k]
      <3>2. /\ t.hist[k].ts = q.ts /\ t.hist[k].device = NewDevice(x, q.device)
            /\ t.episodes[j].podcast = NewId(x.podcasts, q.podcast)
            /\ t.episodes[j].url = q.url \/ (q.guid # None /\ t.episodes[j].guid = q.guid)
        BY <3>1 DEF Replay
      <3>3. j \in DOMAIN t.episodes
        BY <1>2, <3>1 DEF Sound, RefsHold
      <3>4. /\ s.episodes[j].podcast = t.episodes[j].podcast
            /\ s.episodes[j].url = t.episodes[j].url /\ s.episodes[j].guid = t.episodes[j].guid
        BY <1>8, <1>9, <3>3
      <3>5. s.hist[k] = t.hist[k]
        BY <1>8, <3>1
      <3> QED BY <3>2, <3>4, <3>5
    <2> QED BY <2>1, <2>2
  <1>16. Replay(s, x, m)
    BY <1>2, <1>7, <1>8, <1>12, <1>14, <1>15 DEF Replay
  <1> QED BY <1>5, <1>13, <1>16 DEF s, e, r

\* After the first k actions the replay has failed, or the tables have those actions.
LEMMA ReplaySteps ==
    ASSUME NEW x, FileHolds(x), NEW f, Replays(f, x, Len(x.episodes)),
           NEW n \in 0 .. Len(x.episodes)
    PROVE  f[n] # Failed => Replay(f[n], x, n)
  <1> DEFINE L == Len(x.episodes)
             S == {k \in 0 .. L : ~(f[k] # Failed => Replay(f[k], x, k))}
  <1>1. L \in Nat /\ DOMAIN x.episodes = 1 .. L
    BY DEF FileHolds
  <1>2. \A k \in 0 .. L : f[k] = IF k = 0 THEN Begun(x)
                                 ELSE Replayed(f[k - 1], Remap(x, x.episodes[k]))
    BY DEF Replays
  <1> HIDE DEF L
  <1> SUFFICES ASSUME S # {} PROVE FALSE
    BY DEF L
  <1>3. PICK k \in S : \A j \in S : k <= j
    <2>1. S \in SUBSET Nat
      BY <1>1
    <2> HIDE DEF S
    <2> QED BY <2>1, LeastNumber
  <1>4. k # 0
    BY <1>2, BegunReplay
  <1>5. k - 1 \in 0 .. L /\ k - 1 \notin S /\ k \in DOMAIN x.episodes /\ k \in 0 .. L
    BY <1>1, <1>3, <1>4
  <1> DEFINE e == Remap(x, x.episodes[k])
  <1>6. f[k] = Replayed(f[k - 1], e)
    BY <1>2, <1>4, <1>5
  <1> HIDE DEF e
  <1>7. f[k] # Failed
    OBVIOUS
  <1>8. f[k - 1] # Failed /\ MaySave(f[k - 1], e)
    BY <1>6, <1>7 DEF Replayed
  <1>9. Replay(f[k - 1], x, k - 1)
    BY <1>5, <1>8
  <1>10. Replay(f[k], x, k)
    BY <1>5, <1>6, <1>8, <1>9, ReplayedReplay DEF e
  <1> QED BY <1>10

\* The tables of an import that succeeds.
LEMMA ImportedReplay ==
    ASSUME NEW x, FileHolds(x), ImportAll(x) # Failed
    PROVE  LET t == AfterActions(x, Len(x.episodes))
           IN  /\ Replay(t, x, Len(x.episodes))
               /\ ImportAll(x) = Content(t.podcasts, t.devices, t.episodes, t.hist,
                                         {ToKey(x, s) : s \in x.settings})
  <1> DEFINE t == AfterActions(x, Len(x.episodes))
             keys == {ToKey(x, s) : s \in x.settings}
  <1>1. Len(x.episodes) \in Nat
    BY DEF FileHolds
  <1>2. t # Failed /\ ImportAll(x) = [t EXCEPT !.settings = keys]
    BY DEF ImportAll
  <1>3. PICK f : Replays(f, x, Len(x.episodes)) /\ t = f[Len(x.episodes)]
    BY <1>1, AfterActionsIs
  <1> HIDE DEF t, keys
  <1>4. Replay(t, x, Len(x.episodes))
    <2>1. Len(x.episodes) \in 0 .. Len(x.episodes)
      BY <1>1
    <2> QED BY <1>2, <1>3, <2>1, ReplaySteps
  <1>5. [t EXCEPT !.settings = keys]
          = Content(t.podcasts, t.devices, t.episodes, t.hist, keys)
    BY <1>4 DEF Replay, Sound, HasRows, Shaped, Content
  <1> QED BY <1>2, <1>4, <1>5 DEF t, keys

LEMMA ImportInventsNothingHolds ==
    ASSUME NEW x, FileHolds(x), ImportAll(x) # Failed
    PROVE  /\ RefsHold(ImportAll(x)) /\ ShowsLatest(ImportAll(x))
           /\ \A h \in History(ImportAll(x)) :
                 \E a \in Uploads : /\ a.podcast = h.podcast /\ a.ts = h.ts
                                    /\ a.url = h.url \/ h.guid # None
  <1> DEFINE t == AfterActions(x, Len(x.episodes))
             c == ImportAll(x)
             n == Len(x.episodes)
  <1>1. /\ Replay(t, x, n)
        /\ c = Content(t.podcasts, t.devices, t.episodes, t.hist,
                       {ToKey(x, s) : s \in x.settings})
    BY ImportedReplay
  <1>2. n \in Nat /\ DOMAIN x.episodes = 1 .. n /\ DOMAIN x.podcasts \subseteq Ids
    BY DEF FileHolds, IsTable
  <1> HIDE DEF t, c, n
  <1>3. /\ c.podcasts = t.podcasts /\ c.devices = t.devices /\ c.episodes = t.episodes
        /\ c.hist = t.hist
    BY <1>1, ContentShaped
  <1>4. /\ RefsHold(t) /\ ShowsLatest(t) /\ DOMAIN t.hist = 1 .. n
        /\ t.podcasts = Renumbered(x.podcasts)
    BY <1>1 DEF Replay, Sound
  <1>5. RefsHold(c) /\ ShowsLatest(c)
    BY <1>3, <1>4 DEF RefsHold, ShowsLatest, MaySave
  <1>6. ASSUME NEW m \in 1 .. n
        PROVE  LET e == t.episodes[t.hist[m].episode]
               IN  CameFrom(t.podcasts[e.podcast], e.url, e.guid, t.hist[m].ts)
    <2> DEFINE i == t.hist[m].episode
               e == t.episodes[i]
               r == x.episodes[m]
    <2>1. /\ t.hist[m].ts = r.ts /\ e.podcast = NewId(x.podcasts, r.podcast)
          /\ e.url = r.url \/ (r.guid # None /\ e.guid = r.guid)
      BY <1>1 DEF Replay
    <2>2. i \in DOMAIN t.episodes /\ e.podcast \in DOMAIN t.podcasts
      BY <1>4 DEF RefsHold, MaySave
    <2>3. PICK j \in 1 .. n : /\ e.podcast = NewId(x.podcasts, x.episodes[j].podcast)
                              /\ e.url = x.episodes[j].url /\ e.guid = x.episodes[j].guid
      BY <1>1, <2>2 DEF Replay
    <2>4. /\ r.podcast \in DOMAIN x.podcasts /\ r.podcast = x.episodes[j].podcast
          /\ t.podcasts[e.podcast] = x.podcasts[r.podcast]
      <3>1. /\ NewId(x.podcasts, r.podcast) \in DOMAIN Renumbered(x.podcasts)
            /\ NewId(x.podcasts, r.podcast) = NewId(x.podcasts, x.episodes[j].podcast)
            /\ t.podcasts[e.podcast] = Renumbered(x.podcasts)[NewId(x.podcasts, r.podcast)]
        BY <1>4, <2>1, <2>2, <2>3
      <3> HIDE DEF i, e, r
      <3>2. r.podcast \in DOMAIN x.podcasts
        BY <1>2, <3>1, RenumberedFacts
      <3>3. r.podcast = x.episodes[j].podcast
        BY <1>2, <3>1, RenumberedFacts
      <3> QED BY <1>2, <3>1, <3>2, <3>3, RenumberedFacts
    <2>5. CameFrom(x.podcasts[r.podcast], r.url, r.guid, r.ts)
      BY <1>2, <2>4 DEF FileHolds, RowUploaded
    <2>6. e.url = r.url => e.guid = r.guid
      BY <1>2, <2>3, <2>4 DEF FileHolds
    <2>7. PICK a \in Uploads : /\ a.podcast = x.podcasts[r.podcast] /\ a.ts = r.ts
                               /\ (a.url = r.url \/ r.guid # None)
      BY <2>5 DEF CameFrom
    <2> HIDE DEF i, e, r
    <2>8. a.url = e.url \/ e.guid # None
      BY <2>1, <2>6, <2>7
    <2>9. CameFrom(t.podcasts[e.podcast], e.url, e.guid, t.hist[m].ts)
      BY <2>1, <2>4, <2>7, <2>8 DEF CameFrom
    <2> QED BY <2>9 DEF e, i
  <1>7. ASSUME NEW h \in History(c)
        PROVE  \E a \in Uploads : /\ a.podcast = h.podcast /\ a.ts = h.ts
                                  /\ a.url = h.url \/ h.guid # None
    <2>1. PICK m \in 1 .. n :
             LET e == t.episodes[t.hist[m].episode]
             IN  h = [podcast |-> t.podcasts[e.podcast], url |-> e.url, guid |-> e.guid,
                      device |-> DeviceName(c, t.hist[m].device), ts |-> t.hist[m].ts]
      BY <1>3, <1>4 DEF History
    <2> DEFINE e == t.episodes[t.hist[m].episode]
    <2>2. /\ h.podcast = t.podcasts[e.podcast] /\ h.url = e.url /\ h.guid = e.guid
          /\ h.ts = t.hist[m].ts
      BY <2>1
    <2>3. CameFrom(h.podcast, h.url, h.guid, h.ts)
      BY <1>6, <2>2
    <2> QED BY <2>3 DEF CameFrom
  <1> QED BY <1>5, <1>7 DEF c

\* Whatever changed while the export read, an import that succeeds has consistent tables and
\* no action that nobody uploaded: the rows that ImportAll renumbers keep their podcast.
THEOREM LibraryImportInventsNothing == Spec => []ImportInventsNothing
  <1>1. LibraryInv => ImportInventsNothing
    <2> SUFFICES ASSUME LibraryInv, ImportAll(export) # Failed
                 PROVE  /\ RefsHold(ImportAll(export)) /\ ShowsLatest(ImportAll(export))
                        /\ \A h \in History(ImportAll(export)) :
                              \E a \in Uploads :
                                  /\ a.podcast = h.podcast /\ a.ts = h.ts
                                  /\ a.url = h.url \/ h.guid # None
      BY DEF ImportInventsNothing
    <2>1. FileHolds(export)
      BY DEF LibraryInv
    <2> QED BY <2>1, ImportInventsNothingHolds
  <1> QED BY <1>1, LibraryInvariant, PTL

-----------------------------------------------------------------------------
\* An export that nobody disturbed.

\* The rows of the file, each of one history row, and each history row in the file.
LEMMA OrderedRows ==
    ASSUME NEW t, Consistent(t), NEW q \in ByTime(t.hist)
    PROVE  /\ DOMAIN q = 1 .. Cardinality(DOMAIN t.hist)
           /\ Cardinality(DOMAIN t.hist) \in Nat
           /\ \A k \in DOMAIN t.hist : \E m \in DOMAIN q : q[m] = k
  <1> DEFINE S == DOMAIN t.hist
             n == Cardinality(S)
  <1>1. IsFiniteSet(S)
    BY TablesHaveRows DEF Consistent, HasRows
  <1>2. n \in Nat
    BY <1>1, FS_CardinalityType
  <1>3. q \in [1 .. n -> S] /\ \A i, j \in 1 .. n : i # j => q[i] # q[j]
    BY DEF ByTime, SetToSeqs
  <1> HIDE DEF n, S
  <1>4. q \in Injection(1 .. n, S)
    BY <1>3 DEF Injection, IsInjective
  <1>5. Cardinality(1 .. n) = n
    BY <1>2, FS_Interval
  <1>6. q \in Surjection(1 .. n, S)
    BY <1>1, <1>4, <1>5, FS_Injection DEF n
  <1>7. \A k \in S : \E m \in 1 .. n : q[m] = k
    BY <1>6 DEF Surjection
  <1> QED BY <1>2, <1>3, <1>7 DEF n, S

\* A whole file of one library.
Whole(x, t, q) ==
    /\ FileHolds(x) /\ Consistent(t) /\ ~SharedGuids(t)
    /\ q \in ByTime(t.hist) /\ x.episodes = Rows(t, q)
    /\ x.devices = t.devices /\ x.podcasts = t.podcasts /\ x.settings = t.settings

\* The action of a row of the file may be saved again.
LEMMA WholeMaySave ==
    ASSUME NEW x, NEW t, NEW q, Whole(x, t, q), NEW m \in DOMAIN x.episodes,
           NEW s, s.podcasts = Renumbered(x.podcasts), s.devices = Renumbered(x.devices)
    PROVE  MaySave(s, Remap(x, x.episodes[m]))
  <1> DEFINE r == x.episodes[m]
             e == Remap(x, r)
             h == t.hist[q[m]]
  <1>1. /\ q[m] \in DOMAIN t.hist /\ h.episode \in DOMAIN t.episodes
        /\ r.podcast = t.episodes[h.episode].podcast /\ r.device = h.device
    BY RowsFacts DEF Whole
  <1>2. r.podcast \in DOMAIN t.podcasts /\ r.device \in DOMAIN t.devices \cup {None}
    BY <1>1 DEF Whole, Consistent, RefsHold, MaySave
  <1>3. e.podcast = NewId(x.podcasts, r.podcast) /\ e.device = NewDevice(x, r.device)
    BY RemapFacts DEF Whole
  <1>4. DOMAIN x.podcasts \subseteq Ids /\ DOMAIN x.devices \subseteq Ids
    BY DEF Whole, FileHolds, IsTable
  <1> HIDE DEF r, e, h
  <1>5. e.podcast \in DOMAIN s.podcasts
    BY <1>2, <1>3, <1>4, RenumberedFacts DEF Whole
  <1>6. e.device \in DOMAIN s.devices \cup {None}
    BY <1>2, <1>3, <1>4, RenumberedFacts DEF Whole, NewDevice
  <1> QED BY <1>5, <1>6 DEF MaySave, e, r

LEMMA WholeReplays ==
    ASSUME NEW x, NEW t, NEW q, Whole(x, t, q), NEW f, Replays(f, x, Len(x.episodes)),
           NEW n \in 0 .. Len(x.episodes)
    PROVE  f[n] # Failed
  <1> DEFINE L == Len(x.episodes)
             S == {k \in 0 .. L : f[k] = Failed}
  <1>1. L \in Nat /\ DOMAIN x.episodes = 1 .. L /\ FileHolds(x)
    BY DEF Whole, FileHolds
  <1>2. \A k \in 0 .. L : f[k] = IF k = 0 THEN Begun(x)
                                 ELSE Replayed(f[k - 1], Remap(x, x.episodes[k]))
    BY DEF Replays
  <1>a. \A k \in 0 .. L : f[k] # Failed => Replay(f[k], x, k)
    BY <1>1, ReplaySteps
  <1> HIDE DEF L
  <1> SUFFICES ASSUME S # {} PROVE FALSE
    BY DEF L
  <1>3. PICK k \in S : \A j \in S : k <= j
    <2>1. S \in SUBSET Nat
      BY <1>1
    <2> HIDE DEF S
    <2> QED BY <2>1, LeastNumber
  <1>4. k # 0
    BY <1>2, BegunReplay
  <1>5. k - 1 \in 0 .. L /\ k - 1 \notin S /\ k \in DOMAIN x.episodes /\ k \in 0 .. L
    BY <1>1, <1>3, <1>4
  <1>6. f[k - 1] # Failed /\ Replay(f[k - 1], x, k - 1)
    BY <1>5, <1>a
  <1>7. MaySave(f[k - 1], Remap(x, x.episodes[k]))
    BY <1>5, <1>6, WholeMaySave DEF Replay
  <1>8. f[k] # Failed
    BY <1>1, <1>2, <1>4, <1>5, <1>6, <1>7, ReplayedReplay
  <1> QED BY <1>8

\* In the new tables the row of an action is of the address and the GUID of the action.
LEMMA WholeRows ==
    ASSUME NEW x, NEW t, NEW q, Whole(x, t, q), NEW c, Replay(c, x, Len(x.episodes)),
           NEW m \in DOMAIN x.episodes
    PROVE  LET i == c.hist[m].episode
               r == x.episodes[m]
           IN  /\ i \in DOMAIN c.episodes
               /\ c.episodes[i].podcast = NewId(x.podcasts, r.podcast)
               /\ c.episodes[i].url = r.url /\ c.episodes[i].guid = r.guid
               /\ r.podcast \in DOMAIN x.podcasts
               /\ c.podcasts[c.episodes[i].podcast] = x.podcasts[r.podcast]
  <1> DEFINE i == c.hist[m].episode
             r == x.episodes[m]
             e == c.episodes[i]
             L == Len(x.episodes)
  <1>1. /\ DOMAIN x.episodes = 1 .. L /\ DOMAIN x.podcasts \subseteq Ids
    BY DEF Whole, FileHolds, IsTable
  <1>2. /\ RefsHold(c) /\ DOMAIN c.hist = 1 .. L /\ c.podcasts = Renumbered(x.podcasts)
    BY DEF Replay, Sound
  <1>3. /\ e.podcast = NewId(x.podcasts, r.podcast)
        /\ e.url = r.url \/ (r.guid # None /\ e.guid = r.guid)
    BY <1>1 DEF Replay
  <1>4. i \in DOMAIN c.episodes /\ e.podcast \in DOMAIN c.podcasts
    BY <1>1, <1>2 DEF RefsHold, MaySave
  <1>5. PICK j \in 1 .. L : /\ e.podcast = NewId(x.podcasts, x.episodes[j].podcast)
                            /\ e.url = x.episodes[j].url /\ e.guid = x.episodes[j].guid
    BY <1>4 DEF Replay
  <1>6. /\ NewId(x.podcasts, r.podcast) \in DOMAIN Renumbered(x.podcasts)
        /\ NewId(x.podcasts, r.podcast) = NewId(x.podcasts, x.episodes[j].podcast)
        /\ c.podcasts[e.podcast] = Renumbered(x.podcasts)[NewId(x.podcasts, r.podcast)]
    BY <1>2, <1>3, <1>4, <1>5
  <1> DEFINE a == t.hist[q[m]].episode
             b == t.hist[q[j]].episode
  <1>7. /\ a \in DOMAIN t.episodes /\ b \in DOMAIN t.episodes
        /\ r.podcast = t.episodes[a].podcast /\ r.url = t.episodes[a].url
        /\ r.guid = t.episodes[a].guid
        /\ x.episodes[j].podcast = t.episodes[b].podcast /\ x.episodes[j].url = t.episodes[b].url
        /\ x.episodes[j].guid = t.episodes[b].guid
    BY <1>1, RowsFacts DEF Whole
  <1> HIDE DEF i, r, e, a, b, L
  <1>8. r.podcast \in DOMAIN x.podcasts
    BY <1>1, <1>6, RenumberedFacts
  <1>9. r.podcast = x.episodes[j].podcast
    BY <1>1, <1>6, RenumberedFacts
  <1>10. c.podcasts[e.podcast] = x.podcasts[r.podcast]
    BY <1>1, <1>6, <1>8, RenumberedFacts
  <1>11. a = b
    <2>1. CASE e.url = r.url
      BY <1>5, <1>7, <1>9, <2>1 DEF Whole, Consistent, UrlsUnique
    <2>2. CASE r.guid # None /\ e.guid = r.guid
      BY <1>5, <1>7, <1>9, <2>2 DEF Whole, SharedGuids
    <2> QED BY <1>3, <2>1, <2>2
  <1>12. e.url = r.url /\ e.guid = r.guid
    BY <1>5, <1>7, <1>11
  <1> QED BY <1>3, <1>4, <1>8, <1>10, <1>12 DEF e, i, r

\* The podcast and the device of a setting exist.
LEMMA SettingRefers ==
    ASSUME NEW t, Consistent(t), NEW key \in t.settings
    PROVE  /\ key.podcast \in DOMAIN t.podcasts \cup {None}
           /\ key.device \in DOMAIN t.devices \cup {None}
           /\ key.episode # None => /\ key.episode \in DOMAIN t.episodes
                                    /\ key.podcast = t.episodes[key.episode].podcast
                                    /\ key.podcast # None
  <1>1. key \in Loaded(t) /\ IsTables(t) /\ RefsHold(t)
    BY DEF Consistent
  <1>2. key.episode # None => /\ key.episode \in DOMAIN t.episodes
                              /\ key.podcast = t.episodes[key.episode].podcast
    BY <1>1, LoadedRefers
  <1>3. key.device \in DOMAIN t.devices \cup {None}
    BY <1>1, LoadedRefers
  <1>4. \A i \in DOMAIN t.episodes : t.episodes[i].podcast \in DOMAIN t.podcasts
    BY <1>1 DEF RefsHold, MaySave
  <1>5. None \notin DOMAIN t.podcasts
    BY <1>1, LoadedTyped
  <1>6. key.podcast \in DOMAIN t.podcasts \cup {None}
    <2>1. CASE key = [scope |-> "account", podcast |-> None, episode |-> None, device |-> None]
      BY <2>1
    <2>2. CASE \E d \in DOMAIN t.devices :
                  key = [scope |-> "device", podcast |-> None, episode |-> None, device |-> d]
      BY <2>2
    <2>3. CASE \E p \in DOMAIN t.podcasts :
                  key = [scope |-> "podcast", podcast |-> p, episode |-> None, device |-> None]
      BY <2>3
    <2>4. CASE \E i \in DOMAIN t.episodes :
                  key = [scope |-> "episode", podcast |-> t.episodes[i].podcast, episode |-> i,
                         device |-> None]
      BY <1>4, <2>4
    <2> QED BY <1>1, <2>1, <2>2, <2>3, <2>4, LoadedKeys
  <1> QED BY <1>2, <1>3, <1>4, <1>5, <1>6

LEMMA ToKeyFacts ==
    ASSUME NEW x, NEW t, NEW q, Whole(x, t, q), NEW key \in t.settings
    PROVE  /\ ToKey(x, key).scope = key.scope
           /\ key.podcast = None => ToKey(x, key).podcast = None
           /\ key.podcast # None =>
                 /\ ToKey(x, key).podcast # None
                 /\ ToKey(x, key).podcast \in DOMAIN Renumbered(x.podcasts)
                 /\ Renumbered(x.podcasts)[ToKey(x, key).podcast] = t.podcasts[key.podcast]
           /\ key.device = None => ToKey(x, key).device = None
           /\ key.device # None =>
                 /\ ToKey(x, key).device # None
                 /\ ToKey(x, key).device \in DOMAIN Renumbered(x.devices)
                 /\ Renumbered(x.devices)[ToKey(x, key).device] = t.devices[key.device]
  <1>1. /\ DOMAIN x.podcasts \subseteq Ids /\ DOMAIN x.devices \subseteq Ids
        /\ x.podcasts = t.podcasts /\ x.devices = t.devices /\ Consistent(t)
    BY DEF Whole, FileHolds, IsTable
  <1>2. /\ ToKey(x, key).scope = key.scope
        /\ ToKey(x, key).podcast = IF key.podcast = None THEN None
                                   ELSE NewId(x.podcasts, key.podcast)
        /\ ToKey(x, key).device = IF key.device = None THEN None ELSE NewId(x.devices, key.device)
    BY DEF ToKey
  <1>3. /\ key.podcast \in DOMAIN t.podcasts \cup {None}
        /\ key.device \in DOMAIN t.devices \cup {None}
    BY <1>1, SettingRefers
  <1>4. None \notin Nat
    BY LibraryAssumption
  <1>5. key.podcast # None =>
           /\ NewId(x.podcasts, key.podcast) \in Nat
           /\ NewId(x.podcasts, key.podcast) \in DOMAIN Renumbered(x.podcasts)
           /\ Renumbered(x.podcasts)[NewId(x.podcasts, key.podcast)] = x.podcasts[key.podcast]
    BY <1>1, <1>3, RenumberedFacts
  <1>6. key.device # None =>
           /\ NewId(x.devices, key.device) \in Nat
           /\ NewId(x.devices, key.device) \in DOMAIN Renumbered(x.devices)
           /\ Renumbered(x.devices)[NewId(x.devices, key.device)] = x.devices[key.device]
    BY <1>1, <1>3, RenumberedFacts
  <1> QED BY <1>1, <1>2, <1>4, <1>5, <1>6

\* The file has a first row of an episode with a setting, and its address is found.
LEMMA WholeEpisodeFound ==
    ASSUME NEW x, NEW t, NEW q, Whole(x, t, q), NEW c, Replay(c, x, Len(x.episodes)),
           NEW key \in t.settings, key.episode # None
    PROVE  EpisodeFound(x, c, key)
  <1>1. /\ Consistent(t) /\ q \in ByTime(t.hist) /\ x.episodes = Rows(t, q)
    BY DEF Whole
  <1>2. /\ key.episode \in DOMAIN t.episodes /\ key.podcast # None
        /\ key.podcast = t.episodes[key.episode].podcast
    BY <1>1, SettingRefers
  <1>3. PICK h \in DOMAIN t.hist : t.hist[h].episode = key.episode
    BY <1>1, <1>2 DEF Consistent, ShowsLatest
  <1>4. PICK m \in DOMAIN q : q[m] = h
    BY <1>1, OrderedRows
  <1>5. /\ DOMAIN x.episodes = DOMAIN q
        /\ \A k \in DOMAIN q : /\ x.episodes[k].id = t.hist[q[k]].episode
                               /\ x.episodes[k].podcast = t.episodes[t.hist[q[k]].episode].podcast
    BY <1>1, RowsFacts
  <1>6. DOMAIN x.episodes = 1 .. Len(x.episodes) /\ Len(x.episodes) \in Nat
    BY DEF Whole, FileHolds
  <1> DEFINE S == {k \in DOMAIN x.episodes : x.episodes[k].id = key.episode}
  <1>7. S \in SUBSET Nat /\ m \in S
    BY <1>3, <1>4, <1>5, <1>6
  <1>8. PICK k \in S : \A j \in S : k <= j
    <2> HIDE DEF S
    <2> QED BY <1>7, LeastNumber
  <1>9. /\ k \in DOMAIN x.episodes /\ x.episodes[k].id = key.episode
        /\ \A j \in 1 .. k - 1 : x.episodes[j].id # key.episode
    BY <1>6, <1>8
  <1>10. x.episodes[k].podcast = key.podcast
    BY <1>2, <1>5, <1>9
  <1> DEFINE i == c.hist[k].episode
  <1>11. /\ i \in DOMAIN c.episodes
         /\ c.episodes[i].podcast = NewId(x.podcasts, x.episodes[k].podcast)
         /\ c.episodes[i].url = x.episodes[k].url
    BY <1>9, WholeRows
  <1> HIDE DEF i, S
  <1> QED BY <1>2, <1>9, <1>10, <1>11 DEF EpisodeFound

LEMMA WholeImported ==
    ASSUME NEW x, NEW t, NEW q, Whole(x, t, q)
    PROVE  LET c == AfterActions(x, Len(x.episodes))
           IN  /\ Replay(c, x, Len(x.episodes))
               /\ ImportAll(x) = Content(c.podcasts, c.devices, c.episodes, c.hist,
                                         {ToKey(x, s) : s \in x.settings})
               /\ ImportAll(x) # Failed
  <1> DEFINE c == AfterActions(x, Len(x.episodes))
             L == Len(x.episodes)
             keys == {ToKey(x, s) : s \in x.settings}
  <1>1. L \in Nat /\ FileHolds(x) /\ x.settings = t.settings /\ Consistent(t)
    BY DEF Whole, FileHolds
  <1>2. PICK f : Replays(f, x, L) /\ c = f[L]
    BY <1>1, AfterActionsIs
  <1>3. L \in 0 .. L
    BY <1>1
  <1>4. c # Failed /\ Replay(c, x, L)
    <2> HIDE DEF c
    <2>1. c # Failed
      BY <1>2, <1>3, WholeReplays
    <2> QED BY <1>1, <1>2, <1>3, <2>1, ReplaySteps
  <1>5. ASSUME NEW s \in x.settings PROVE SettingImported(x, c, s)
    <2>1. c.podcasts = Renumbered(x.podcasts) /\ c.devices = Renumbered(x.devices)
      BY <1>4 DEF Replay
    <2> HIDE DEF c
    <2>2. ToKey(x, s).podcast \in DOMAIN c.podcasts \cup {None}
      BY <1>1, <2>1, ToKeyFacts
    <2>3. ToKey(x, s).device \in DOMAIN c.devices \cup {None}
      BY <1>1, <2>1, ToKeyFacts
    <2>4. s.episode # None => EpisodeFound(x, c, s)
      BY <1>1, <1>4, WholeEpisodeFound
    <2> QED BY <2>2, <2>3, <2>4 DEF SettingImported
  <1>6. ImportAll(x) = [c EXCEPT !.settings = keys]
    BY <1>4, <1>5 DEF ImportAll
  <1> HIDE DEF c, keys, L
  <1>7. ImportAll(x) = Content(c.podcasts, c.devices, c.episodes, c.hist, keys)
    BY <1>4, <1>6 DEF Replay, Sound, HasRows, Shaped, Content
  <1>8. ImportAll(x) # Failed
    <2>1. DOMAIN ImportAll(x) # DOMAIN Failed
      BY <1>7 DEF Content, Failed
    <2> QED BY <2>1
  <1> QED BY <1>4, <1>7, <1>8 DEF c, keys, L

\* A renumbered table has the names it had.
LEMMA RenumberedNames ==
    ASSUME NEW table, DOMAIN table \subseteq Ids
    PROVE  Named(Renumbered(table)) = Named(table)
  <1>1. ASSUME NEW name \in Named(Renumbered(table)) PROVE name \in Named(table)
    <2>1. PICK n \in DOMAIN Renumbered(table) : name = Renumbered(table)[n]
      BY DEF Named
    <2>2. PICK i \in DOMAIN table : n = NewId(table, i)
      BY RenumberedFacts
    <2>3. name = table[i]
      BY <2>1, <2>2, RenumberedFacts
    <2> QED BY <2>3 DEF Named
  <1>2. ASSUME NEW name \in Named(table) PROVE name \in Named(Renumbered(table))
    <2>1. PICK i \in DOMAIN table : name = table[i]
      BY DEF Named
    <2>2. /\ NewId(table, i) \in DOMAIN Renumbered(table)
          /\ Renumbered(table)[NewId(table, i)] = name
      BY <2>1, RenumberedFacts
    <2> QED BY <2>2 DEF Named
  <1> QED BY <1>1, <1>2

\* One history row without its numbers.
Entry(t, k) ==
    LET e == t.episodes[t.hist[k].episode]
    IN  [podcast |-> t.podcasts[e.podcast], url |-> e.url, guid |-> e.guid,
         device |-> DeviceName(t, t.hist[k].device), ts |-> t.hist[k].ts]

LEMMA HistoryEntries == ASSUME NEW t PROVE History(t) = {Entry(t, k) : k \in DOMAIN t.hist}
  BY DEF History, Entry

LEMMA WholeEntry ==
    ASSUME NEW x, NEW t, NEW q, Whole(x, t, q), NEW c, Replay(c, x, Len(x.episodes)),
           NEW m \in DOMAIN x.episodes
    PROVE  Entry(c, m) = Entry(t, q[m])
  <1> DEFINE i == c.hist[m].episode
             e == c.episodes[i]
             r == x.episodes[m]
             h == t.hist[q[m]]
             o == t.episodes[h.episode]
  <1>1. /\ e.url = r.url /\ e.guid = r.guid /\ r.podcast \in DOMAIN x.podcasts
        /\ c.podcasts[e.podcast] = x.podcasts[r.podcast]
    BY WholeRows
  <1>2. /\ r.podcast = o.podcast /\ r.url = o.url /\ r.guid = o.guid /\ r.device = h.device
        /\ r.ts = h.ts /\ q[m] \in DOMAIN t.hist
    BY RowsFacts DEF Whole
  <1>3. c.hist[m].ts = r.ts /\ c.hist[m].device = NewDevice(x, r.device)
    BY DEF Replay, Whole, FileHolds
  <1>4. /\ c.devices = Renumbered(x.devices) /\ x.podcasts = t.podcasts /\ x.devices = t.devices
        /\ DOMAIN x.devices \subseteq Ids
    BY DEF Replay, Whole, FileHolds, IsTable
  <1>5. DeviceName(c, c.hist[m].device) = DeviceName(t, h.device)
    <2>1. h.device \in DOMAIN t.devices \cup {None}
      BY <1>2 DEF Whole, Consistent, RefsHold
    <2>2. CASE h.device = None
      BY <1>2, <1>3, <2>2 DEF DeviceName, NewDevice
    <2>3. CASE h.device # None
      <3>1. c.hist[m].device = NewId(x.devices, h.device)
        BY <1>2, <1>3, <2>3 DEF NewDevice
      <3>2. /\ NewId(x.devices, h.device) \in Nat
            /\ c.devices[NewId(x.devices, h.device)] = t.devices[h.device]
        BY <1>4, <2>1, <2>3, RenumberedFacts
      <3>3. c.hist[m].device # None
        BY <3>1, <3>2, LibraryAssumption
      <3> QED BY <2>3, <3>1, <3>2, <3>3 DEF DeviceName
    <2> QED BY <2>2, <2>3
  <1>6. Entry(c, m) = [podcast |-> c.podcasts[e.podcast], url |-> e.url, guid |-> e.guid,
                       device |-> DeviceName(c, c.hist[m].device), ts |-> c.hist[m].ts]
    BY DEF Entry
  <1>7. Entry(t, q[m]) = [podcast |-> t.podcasts[o.podcast], url |-> o.url, guid |-> o.guid,
                          device |-> DeviceName(t, h.device), ts |-> h.ts]
    BY DEF Entry
  <1> HIDE DEF e, i, r, h, o
  <1> QED BY <1>1, <1>2, <1>3, <1>4, <1>5, <1>6, <1>7 DEF h

\* The history is the same, row by row.
LEMMA WholeHistory ==
    ASSUME NEW x, NEW t, NEW q, Whole(x, t, q), NEW c, Replay(c, x, Len(x.episodes))
    PROVE  History(c) = History(t) /\ Cardinality(DOMAIN c.hist) = Cardinality(DOMAIN t.hist)
  <1>1. /\ DOMAIN q = 1 .. Cardinality(DOMAIN t.hist)
        /\ Cardinality(DOMAIN t.hist) \in Nat
        /\ \A k \in DOMAIN t.hist : \E m \in DOMAIN q : q[m] = k
    BY OrderedRows DEF Whole
  <1>2. /\ DOMAIN x.episodes = DOMAIN q /\ \A m \in DOMAIN q : q[m] \in DOMAIN t.hist
    BY RowsFacts DEF Whole
  <1>3. DOMAIN c.hist = DOMAIN x.episodes
    BY DEF Replay, Whole, FileHolds
  <1>4. \A m \in DOMAIN x.episodes : Entry(c, m) = Entry(t, q[m])
    BY WholeEntry
  <1>5. History(c) = History(t)
    <2>1. ASSUME NEW n \in History(c) PROVE n \in History(t)
      <3>1. PICK m \in DOMAIN c.hist : n = Entry(c, m)
        BY HistoryEntries
      <3>2. n = Entry(t, q[m]) /\ q[m] \in DOMAIN t.hist
        BY <1>2, <1>3, <1>4, <3>1
      <3>3. History(t) = {Entry(t, k) : k \in DOMAIN t.hist}
        BY HistoryEntries
      <3> QED BY <3>2, <3>3
    <2>2. ASSUME NEW n \in History(t) PROVE n \in History(c)
      <3>1. PICK k \in DOMAIN t.hist : n = Entry(t, k)
        BY HistoryEntries
      <3>2. PICK m \in DOMAIN q : q[m] = k
        BY <1>1
      <3>3. m \in DOMAIN c.hist /\ n = Entry(c, m)
        BY <1>2, <1>3, <1>4, <3>1, <3>2
      <3>4. History(c) = {Entry(c, j) : j \in DOMAIN c.hist}
        BY HistoryEntries
      <3> QED BY <3>3, <3>4
    <2>3. \A n : n \in History(c) <=> n \in History(t)
      BY <2>1, <2>2
    <2>4. History(c) = {Entry(c, j) : j \in DOMAIN c.hist}
          /\ History(t) = {Entry(t, k) : k \in DOMAIN t.hist}
      BY HistoryEntries
    <2> QED BY <2>3, <2>4
  <1>6. Cardinality(DOMAIN c.hist) = Cardinality(DOMAIN t.hist)
    BY <1>1, <1>2, <1>3, FS_Interval
  <1> QED BY <1>5, <1>6

\* A setting without its numbers.
SettingName(t, s) ==
    [scope |-> s.scope, device |-> DeviceName(t, s.device),
     podcast |-> IF s.podcast = None THEN None ELSE t.podcasts[s.podcast]]

LEMMA WholeSettings ==
    ASSUME NEW x, NEW t, NEW q, Whole(x, t, q), NEW c,
           c.podcasts = Renumbered(x.podcasts), c.devices = Renumbered(x.devices),
           c.settings = {ToKey(x, s) : s \in x.settings}
    PROVE  SettingNames(c) = SettingNames(t)
  <1>1. \A s \in t.settings : SettingName(c, ToKey(x, s)) = SettingName(t, s)
    <2> SUFFICES ASSUME NEW s \in t.settings
                 PROVE  SettingName(c, ToKey(x, s)) = SettingName(t, s)
      OBVIOUS
    <2> DEFINE k == ToKey(x, s)
    <2>1. /\ k.scope = s.scope
          /\ s.podcast = None => k.podcast = None
          /\ s.podcast # None => k.podcast # None /\ c.podcasts[k.podcast] = t.podcasts[s.podcast]
          /\ s.device = None => k.device = None
          /\ s.device # None => k.device # None /\ c.devices[k.device] = t.devices[s.device]
      BY ToKeyFacts
    <2> HIDE DEF k
    <2>2. DeviceName(c, k.device) = DeviceName(t, s.device)
      BY <2>1 DEF DeviceName
    <2>3. (IF k.podcast = None THEN None ELSE c.podcasts[k.podcast])
            = (IF s.podcast = None THEN None ELSE t.podcasts[s.podcast])
      BY <2>1
    <2> QED BY <2>1, <2>2, <2>3 DEF SettingName, k
  <1>2. \A s \in t.settings : ToKey(x, s).scope = s.scope
    BY ToKeyFacts
  <1>3. SettingNames(c) = {SettingName(c, k) : k \in {y \in c.settings : y.scope # "episode"}}
    BY DEF SettingNames, SettingName
  <1>4. SettingNames(t) = {SettingName(t, s) : s \in {y \in t.settings : y.scope # "episode"}}
    BY DEF SettingNames, SettingName
  <1>5. c.settings = {ToKey(x, s) : s \in t.settings}
    BY DEF Whole
  <1>6. ASSUME NEW n \in SettingNames(c) PROVE n \in SettingNames(t)
    <2>1. PICK k \in c.settings : k.scope # "episode" /\ n = SettingName(c, k)
      BY <1>3
    <2>2. PICK s \in t.settings : k = ToKey(x, s)
      BY <1>5
    <2>3. s.scope # "episode" /\ n = SettingName(t, s)
      BY <1>1, <1>2, <2>1, <2>2
    <2> QED BY <1>4, <2>3
  <1>7. ASSUME NEW n \in SettingNames(t) PROVE n \in SettingNames(c)
    <2>1. PICK s \in t.settings : s.scope # "episode" /\ n = SettingName(t, s)
      BY <1>4
    <2>2. ToKey(x, s) \in c.settings /\ ToKey(x, s).scope # "episode"
      BY <1>2, <1>5, <2>1
    <2>3. n = SettingName(c, ToKey(x, s))
      BY <1>1, <2>1
    <2> QED BY <1>3, <2>2, <2>3
  <1> QED BY <1>6, <1>7

\* An export that nobody disturbed is imported with everything it had: the rows that the
\* replay matches by address or by GUID are those of one episode.
THEOREM LibraryImportRestores == Spec => []ImportRestores
  <1>1. LibraryInv => ImportRestores
    <2> SUFFICES ASSUME LibraryInv, Complete, ~export.torn, ~SharedGuids(export.start)
                 PROVE  LET copy == ImportAll(export)
                        IN  /\ copy # Failed
                            /\ Named(copy.podcasts) = Named(export.start.podcasts)
                            /\ Named(copy.devices) = Named(export.start.devices)
                            /\ Cardinality(DOMAIN copy.hist)
                                 = Cardinality(DOMAIN export.start.hist)
                            /\ History(copy) = History(export.start)
                            /\ SettingNames(copy) = SettingNames(export.start)
      BY DEF ImportRestores
    <2> DEFINE x == export
               t == export.start
               c == AfterActions(x, Len(x.episodes))
               copy == ImportAll(x)
    <2>1. x.read = 5
      BY DEF Complete, Steps
    <2>2. FileHolds(x) /\ Consistent(t) /\ Undisturbed(x, db)
      BY DEF LibraryInv, FileHolds
    <2>3. /\ x.devices = t.devices /\ x.podcasts = t.podcasts /\ x.settings = t.settings
          /\ \E q \in ByTime(t.hist) : x.episodes = Rows(t, q)
      BY <2>1, <2>2 DEF Undisturbed
    <2>4. PICK q : Whole(x, t, q)
      BY <2>2, <2>3 DEF Whole
    <2>5. /\ Replay(c, x, Len(x.episodes)) /\ copy # Failed
          /\ copy = Content(c.podcasts, c.devices, c.episodes, c.hist,
                            {ToKey(x, s) : s \in x.settings})
      BY <2>4, WholeImported
    <2> HIDE DEF x, t, c, copy
    <2>6. /\ copy.podcasts = c.podcasts /\ copy.devices = c.devices
          /\ copy.episodes = c.episodes /\ copy.hist = c.hist
          /\ copy.settings = {ToKey(x, s) : s \in x.settings}
      BY <2>5, ContentShaped
    <2>7. c.podcasts = Renumbered(x.podcasts) /\ c.devices = Renumbered(x.devices)
      BY <2>5 DEF Replay
    <2>8. DOMAIN x.podcasts \subseteq Ids /\ DOMAIN x.devices \subseteq Ids
      BY <2>2 DEF FileHolds, IsTable
    <2>9. Named(copy.podcasts) = Named(t.podcasts) /\ Named(copy.devices) = Named(t.devices)
      BY <2>3, <2>6, <2>7, <2>8, RenumberedNames
    <2>10. History(c) = History(t) /\ Cardinality(DOMAIN c.hist) = Cardinality(DOMAIN t.hist)
      BY <2>4, <2>5, WholeHistory
    <2>11. History(copy) = History(c)
      BY <2>6 DEF History, DeviceName
    <2>12. SettingNames(copy) = SettingNames(t)
      BY <2>4, <2>6, <2>7, WholeSettings
    <2> QED BY <2>5, <2>6, <2>9, <2>10, <2>11, <2>12 DEF copy, x, t
  <1> QED BY <1>1, LibraryInvariant, PTL
====================================================================================
