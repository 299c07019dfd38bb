--------------------------- MODULE EpisodeStorePgProofs ---------------------------
(***************************************************************************)
(* Theorems about EpisodeStorePg for any sets of requests, batches, rows   *)
(* and row numbers.                                                        *)
(*                                                                         *)
(* Under READ COMMITTED nothing keeps the transactions apart but the       *)
(* numbers they draw and the rows they have written.  So the inductive     *)
(* invariant says of each open transaction how its rows fit to those of    *)
(* the database and of the other transactions, whichever of them commits   *)
(* first; and what it says of episodes and names that have not been raced  *)
(* for is what makes them unique and shows their latest action.            *)
(***************************************************************************)
EXTENDS EpisodeStorePg, TLAPS

\* The rows of r that nobody sees yet.
Mine(r) == tx[r].mine

SameKey(row, a) == row.podcast = a.podcast /\ row.url = a.url

\* Row i of table f, if it is there, is about the episode of a.
KeyIs(f, i, a) == i \in DOMAIN f => SameKey(f[i], a)

\* How far a transaction is: the action it is at, and the devices it has resolved.
ProgressOf(t) ==
    /\ t.phase # "idle" => t.batch \in Batches \cup {<<>>} /\ t.next \in 1 .. Len(t.batch) + 1
    /\ t.phase \notin {"idle", "find", "name", "newName"} => t.next <= Len(t.batch)
    /\ t.phase \in {"name", "newName"} => t.batch = <<>> /\ t.next = 1 /\ t.name \in Devices
    /\ t.phase \in {"podcast", "newPodcast", "device", "newDevice"} =>
          \A k \in 1 .. t.next - 1 : t.batch[k].device \in DOMAIN t.devices
    /\ t.phase \in {"find", "write"} =>
          \A k \in 1 .. Len(t.batch) : t.batch[k].device \in DOMAIN t.devices
Progress(r) == ProgressOf(tx[r])
ProgressInv == \A r \in Requests : Progress(r)

\* Numbers of new rows are given once; an episode row is changed by one transaction.
NumbersInv ==
    /\ \A r \in Requests :
          /\ DOMAIN Mine(r).devices \cap DOMAIN db.devices = {}
          /\ DOMAIN Mine(r).hist \cap DOMAIN db.hist = {}
    /\ \A r, q \in Requests : r # q =>
          /\ DOMAIN Mine(r).devices \cap DOMAIN Mine(q).devices = {}
          /\ DOMAIN Mine(r).episodes \cap DOMAIN Mine(q).episodes = {}
          /\ DOMAIN Mine(r).hist \cap DOMAIN Mine(q).hist = {}

\* The rows of s refer to rows of s or of the database.
Refers(s) ==
    /\ \A i \in DOMAIN s.episodes :
          /\ s.episodes[i].podcast \in s.podcasts \cup db.podcasts
          /\ s.episodes[i].device \in DOMAIN s.devices \cup DOMAIN db.devices \cup {None}
    /\ \A h \in DOMAIN s.hist :
          /\ s.hist[h].episode \in DOMAIN s.episodes \cup DOMAIN db.episodes
          /\ s.hist[h].device \in DOMAIN s.devices \cup DOMAIN db.devices \cup {None}
RefersInv == RowsReferToRows /\ \A r \in Requests : Refers(Mine(r))

\* A row keeps its address, whoever writes it.
KeysInv ==
    \A r \in Requests : \A i \in DOMAIN Mine(r).episodes :
        KeyIs(db.episodes, i, Mine(r).episodes[i])

\* The actions a transaction has gone through are in its history.
RecordedIn(s, f, a) ==
    \E h \in DOMAIN s.hist :
        LET i == s.hist[h].episode
        IN  s.hist[h].ts = a.ts /\ KeyIs(f, i, a) /\ KeyIs(s.episodes, i, a)
RecordedInv ==
    \A r \in Requests : tx[r].phase \in {"find", "write"} =>
        \A k \in 1 .. tx[r].next - 1 : RecordedIn(Mine(r), db.episodes, tx[r].batch[k])

\* A name nobody has raced for is on one row, of the database or of a transaction.
NamesInv ==
    /\ NamesUniqueUnlessRaced
    /\ \A r \in Requests : \A i \in DOMAIN Mine(r).devices :
          LET d == Mine(r).devices[i]
          IN  d \notin raced =>
                /\ Named(db, d) = {}
                /\ \A q \in Requests : \A j \in Named(Mine(q), d) : q = r /\ j = i

Raced(row) == <<row.podcast, row.url>> \in raced

\* An episode nobody has raced for has one row, in the database, in one transaction, or both.
OneRowInv ==
    /\ \A i, j \in DOMAIN db.episodes :
          SameKey(db.episodes[i], db.episodes[j]) /\ ~Raced(db.episodes[i]) => i = j
    /\ \A r \in Requests : \A i \in DOMAIN Mine(r).episodes : ~Raced(Mine(r).episodes[i]) =>
          /\ \A j \in DOMAIN db.episodes :
                SameKey(db.episodes[j], Mine(r).episodes[i]) => i = j
          /\ \A q \in Requests : \A j \in DOMAIN Mine(q).episodes :
                SameKey(Mine(q).episodes[j], Mine(r).episodes[i]) => q = r /\ j = i

\* Row f[i] shows the latest of the rows of hist.
NotOlder(f, i, hist) ==
    i \in DOMAIN f /\ ~Raced(f[i]) =>
        \A h \in DOMAIN hist : hist[h].episode = i => hist[h].ts <= f[i].ts
Shown(f, i, hist) ==
    ~Raced(f[i]) => \E h \in DOMAIN hist : hist[h].episode = i /\ hist[h].ts = f[i].ts

\* What a row shows: in the database, and in a transaction, which only makes it newer.
LatestInv ==
    /\ \A i \in DOMAIN db.episodes :
          NotOlder(db.episodes, i, db.hist) /\ Shown(db.episodes, i, db.hist)
    /\ \A r \in Requests : \A i \in EpisodeIds :
          /\ NotOlder(Mine(r).episodes, i, Mine(r).hist)
          /\ i \notin DOMAIN Mine(r).episodes => NotOlder(db.episodes, i, Mine(r).hist)
    /\ \A r \in Requests : \A i \in DOMAIN Mine(r).episodes :
          /\ Shown(Mine(r).episodes, i, Mine(r).hist)
          /\ ~Raced(Mine(r).episodes[i]) /\ i \in DOMAIN db.episodes =>
                db.episodes[i].ts <= Mine(r).episodes[i].ts

RowsInv == NumbersInv /\ RefersInv /\ KeysInv /\ NamesInv /\ OneRowInv /\ LatestInv

\* A row that a transaction has found is of its episode, wherever it is.
Found(r) ==
    tx[r].phase = "write" /\ tx[r].found # None =>
        /\ KeyIs(db.episodes, tx[r].found, Current(r))
        /\ \A q \in Requests : KeyIs(Mine(q).episodes, tx[r].found, Current(r))

\* What a transaction has looked up of an episode nobody has raced for is still so.
LookedEpisode(r) ==
    tx[r].phase = "write" /\ ~Raced(Current(r)) =>
        /\ tx[r].found = None =>
              Matching(db, Current(r)) = {} /\ Matching(Mine(r), Current(r)) = {}
        /\ tx[r].found \in DOMAIN Mine(r).episodes =>
              tx[r].was = Mine(r).episodes[tx[r].found].ts
        /\ tx[r].found \in DOMAIN db.episodes \ DOMAIN Mine(r).episodes =>
              tx[r].was = db.episodes[tx[r].found].ts

\* ... and of a device name, in an upload or in a request on devices or subscriptions.
LookedDevice(r) ==
    \A d \in Missing(r) : d \notin raced => Named(db, d) = {} /\ Named(Mine(r), d) = {}

LookedInv == \A r \in Requests : Found(r) /\ LookedEpisode(r) /\ LookedDevice(r)

IInv == TypeOK /\ ProgressInv /\ RowsInv /\ RecordedInv /\ LookedInv

-----------------------------------------------------------------------------
\* Tables and transactions.

LEMMA TableOfDomain ==
    ASSUME NEW Ids, NEW Row, NEW f
    PROVE  f \in TableOf(Ids, Row) <=> DOMAIN f \subseteq Ids /\ f \in [DOMAIN f -> Row]
  BY DEF TableOf

LEMMA PutDomain ==
    ASSUME NEW f, NEW i, NEW row
    PROVE  DOMAIN Put(f, i, row) = DOMAIN f \cup {i}
  BY DEF Put

LEMMA PutValue ==
    ASSUME NEW f, NEW i, NEW row, NEW j \in DOMAIN f \cup {i}
    PROVE  Put(f, i, row)[j] = IF j = i THEN row ELSE f[j]
  BY DEF Put

LEMMA PutTyped ==
    ASSUME NEW Ids, NEW Row, NEW f \in TableOf(Ids, Row), NEW i \in Ids, NEW row \in Row
    PROVE  Put(f, i, row) \in TableOf(Ids, Row)
  <1>1. DOMAIN f \cup {i} \in SUBSET Ids /\ f \in [DOMAIN f -> Row]
    BY TableOfDomain
  <1>2. Put(f, i, row) \in [DOMAIN f \cup {i} -> Row]
    BY <1>1 DEF Put
  <1>3. QED
    BY <1>1, <1>2 DEF TableOf

LEMMA OverDomain ==
    ASSUME NEW f, NEW g
    PROVE  DOMAIN Over(f, g) = DOMAIN f \cup DOMAIN g
  BY DEF Over

LEMMA OverValue ==
    ASSUME NEW f, NEW g, NEW j \in DOMAIN f \cup DOMAIN g
    PROVE  Over(f, g)[j] = IF j \in DOMAIN g THEN g[j] ELSE f[j]
  BY DEF Over

LEMMA OverTyped ==
    ASSUME NEW Ids, NEW Row, NEW f \in TableOf(Ids, Row), NEW g \in TableOf(Ids, Row)
    PROVE  Over(f, g) \in TableOf(Ids, Row)
  <1>1. f \in [DOMAIN f -> Row] /\ g \in [DOMAIN g -> Row]
    BY TableOfDomain
  <1>2. DOMAIN f \cup DOMAIN g \in SUBSET Ids
    BY TableOfDomain
  <1>3. Over(f, g) \in [DOMAIN f \cup DOMAIN g -> Row]
    BY <1>1 DEF Over
  <1>4. QED
    BY <1>2, <1>3 DEF TableOf

\* What a statement sees.
LEMMA ViewParts ==
    ASSUME NEW r
    PROVE  /\ View(r).podcasts = db.podcasts \cup Mine(r).podcasts
           /\ View(r).devices = Over(db.devices, Mine(r).devices)
           /\ View(r).episodes = Over(db.episodes, Mine(r).episodes)
           /\ View(r).hist = Over(db.hist, Mine(r).hist)
           /\ DOMAIN View(r).devices = DOMAIN db.devices \cup DOMAIN Mine(r).devices
           /\ DOMAIN View(r).episodes = DOMAIN db.episodes \cup DOMAIN Mine(r).episodes
  <1>1. /\ View(r).podcasts = db.podcasts \cup Mine(r).podcasts
        /\ View(r).devices = Over(db.devices, Mine(r).devices)
        /\ View(r).episodes = Over(db.episodes, Mine(r).episodes)
        /\ View(r).hist = Over(db.hist, Mine(r).hist)
    BY DEF View, Merged, Mine
  <1>2. DOMAIN View(r).devices = DOMAIN db.devices \cup DOMAIN Mine(r).devices
    BY <1>1, OverDomain
  <1>3. DOMAIN View(r).episodes = DOMAIN db.episodes \cup DOMAIN Mine(r).episodes
    BY <1>1, OverDomain
  <1>4. QED
    BY <1>1, <1>2, <1>3

LEMMA NoRowsTyped == NoRows \in Tables /\ NoTx \in TxState
  <1>1. \A Ids, Row : [i \in {} |-> None] \in TableOf(Ids, Row)
    BY DEF TableOf
  <1>2. NoRows \in Tables
    BY <1>1 DEF NoRows, Tables
  <1>3. QED
    BY <1>1, <1>2 DEF NoTx, TxState, Phases

LEMMA TxTyped ==
    ASSUME TypeOK, NEW r \in Requests
    PROVE  /\ tx[r] \in TxState /\ Mine(r) \in Tables
           /\ tx[r].phase # "idle" /\ Progress(r) =>
                 tx[r].batch \in Seq(Upload) /\ tx[r].next \in Nat
           /\ tx[r].phase \notin {"idle", "find", "name", "newName"} /\ Progress(r) =>
                 Current(r) \in Upload
  <1>1. tx[r] \in TxState /\ Mine(r) \in Tables
    BY DEF TypeOK, TxState, Mine
  <1>2. ASSUME tx[r].phase # "idle", Progress(r)
        PROVE  tx[r].batch \in Seq(Upload) /\ tx[r].next \in 1 .. Len(tx[r].batch) + 1
    <2>1. tx[r].batch \in Batches \cup {<<>>} /\ tx[r].next \in 1 .. Len(tx[r].batch) + 1
      BY <1>2 DEF Progress, ProgressOf
    <2>2. <<>> \in Seq(Upload) /\ \A batch \in Batches : batch \in Seq(Upload)
      BY PgAssumption
    <2>3. QED
      BY <2>1, <2>2
  <1>3. ASSUME tx[r].phase \notin {"idle", "find", "name", "newName"}, Progress(r)
        PROVE  Current(r) \in Upload
    <2>1. tx[r].next <= Len(tx[r].batch)
      BY <1>3 DEF Progress, ProgressOf
    <2>2. tx[r].batch \in Seq(Upload) /\ tx[r].next \in 1 .. Len(tx[r].batch) + 1
      BY <1>2, <1>3
    <2>3. tx[r].next \in 1 .. Len(tx[r].batch)
      BY <2>1, <2>2
    <2>4. QED
      BY <2>2, <2>3 DEF Current
  <1>4. QED
    BY <1>1, <1>2, <1>3

-----------------------------------------------------------------------------
\* What each step of an upload does to its transaction, and that types are kept.

OthersSame(r) == \A q \in Requests \ {r} : tx'[q] = tx[q]

LEMMA TxStep ==
    ASSUME TypeOK, NEW r \in Requests, NEW t \in TxState, tx' = [tx EXCEPT ![r] = t]
    PROVE  /\ tx' \in [Requests -> TxState] /\ tx'[r] = t /\ OthersSame(r)
           /\ db' = db /\ raced' = raced => TypeOK'
  BY DEF TypeOK, OthersSame

LEMMA BeginStep ==
    ASSUME TypeOK, NEW r \in Requests, NEW batch \in Batches, Begin(r, batch)
    PROVE  /\ TypeOK' /\ OthersSame(r) /\ db' = db /\ raced' = raced
           /\ tx'[r].phase = "podcast" /\ tx'[r].batch = batch /\ tx'[r].next = 1
           /\ tx'[r].mine = NoRows
  <1>1. PICK cache \in DeviceCaches(db) :
          tx' = [tx EXCEPT ![r] = [NoTx EXCEPT
              !.phase = "podcast", !.batch = batch, !.podcasts = PodcastCache(db),
              !.devices = cache]]
    BY DEF Begin
  <1> DEFINE t == [NoTx EXCEPT !.phase = "podcast", !.batch = batch,
                               !.podcasts = PodcastCache(db), !.devices = cache]
  <1>2. cache \in TableOf(Devices, DeviceIds)
    BY DEF DeviceCaches, TypeOK, Tables, TableOf
  <1>3. t \in TxState
    BY <1>2, NoRowsTyped DEF NoTx, TxState, Phases, PodcastCache, TypeOK, Tables
  <1>4. QED
    BY <1>1, <1>3, TxStep DEF Begin, TypeOK, NoTx

LEMMA FindPodcastStep ==
    ASSUME TypeOK, ProgressInv, NEW r \in Requests, FindPodcast(r)
    PROVE  /\ TypeOK' /\ OthersSame(r) /\ db' = db /\ raced' = raced
           /\ tx'[r].phase \in {"device", "newPodcast"}
           /\ tx'[r].batch = tx[r].batch /\ tx'[r].next = tx[r].next
           /\ tx'[r].devices = tx[r].devices /\ tx'[r].found = tx[r].found
           /\ tx'[r].mine = tx[r].mine
  <1> DEFINE p == Current(r).podcast
  <1>1. tx[r] \in TxState /\ p \in Podcasts
    BY TxTyped DEF FindPodcast, ProgressInv, Upload
  <1>2. CASE p \in tx[r].podcasts \cup View(r).podcasts
    <2> DEFINE t == [tx[r] EXCEPT !.phase = "device", !.podcasts = @ \cup {p}]
    <2>1. /\ t \in TxState /\ t.phase = "device" /\ t.batch = tx[r].batch
          /\ t.next = tx[r].next /\ t.devices = tx[r].devices /\ t.found = tx[r].found
          /\ t.mine = tx[r].mine
      BY <1>1 DEF TxState, Phases
    <2>2. tx' = [tx EXCEPT ![r] = t]
      BY <1>2 DEF FindPodcast
    <2> HIDE DEF t
    <2>3. QED
      BY <2>1, <2>2, TxStep DEF FindPodcast
  <1>3. CASE p \notin tx[r].podcasts \cup View(r).podcasts
    <2> DEFINE t == [tx[r] EXCEPT !.phase = "newPodcast"]
    <2>1. /\ t \in TxState /\ t.phase = "newPodcast" /\ t.batch = tx[r].batch
          /\ t.next = tx[r].next /\ t.devices = tx[r].devices /\ t.found = tx[r].found
          /\ t.mine = tx[r].mine
      BY <1>1 DEF TxState, Phases
    <2>2. tx' = [tx EXCEPT ![r] = t]
      BY <1>3 DEF FindPodcast
    <2> HIDE DEF t
    <2>3. QED
      BY <2>1, <2>2, TxStep DEF FindPodcast
  <1>4. QED
    BY <1>2, <1>3

LEMMA InsertPodcastStep ==
    ASSUME TypeOK, ProgressInv, NEW r \in Requests, InsertPodcast(r)
    PROVE  /\ TypeOK' /\ OthersSame(r) /\ db' = db /\ raced' = raced
           /\ tx'[r].phase = "device"
           /\ tx'[r].batch = tx[r].batch /\ tx'[r].next = tx[r].next
           /\ tx'[r].devices = tx[r].devices /\ tx'[r].found = tx[r].found
           /\ tx'[r].mine = [Mine(r) EXCEPT !.podcasts = @ \cup {Current(r).podcast}]
  <1> DEFINE p == Current(r).podcast
             m == [Mine(r) EXCEPT !.podcasts = @ \cup {p}]
             t == [tx[r] EXCEPT !.phase = "device", !.podcasts = @ \cup {p}, !.mine = m]
  <1>1. tx[r] \in TxState /\ p \in Podcasts
    BY TxTyped DEF InsertPodcast, ProgressInv, Upload
  <1>2. m \in Tables
    BY <1>1 DEF TxState, Tables, Mine
  <1>3. /\ t \in TxState /\ t.phase = "device" /\ t.batch = tx[r].batch
        /\ t.next = tx[r].next /\ t.devices = tx[r].devices /\ t.found = tx[r].found
        /\ t.mine = m
    <2> HIDE DEF m
    <2>1. QED
      BY <1>1, <1>2 DEF TxState, Phases
  <1>4. tx' = [tx EXCEPT ![r] = t]
    BY DEF InsertPodcast, Mine
  <1> HIDE DEF t, m
  <1>5. QED
    BY <1>3, <1>4, TxStep DEF InsertPodcast, m

\* The transaction after the device of its action is resolved to row i.
ResolvedTx(r, d, i) ==
    LET last == tx[r].next = Len(tx[r].batch)
    IN  [tx[r] EXCEPT !.devices = Put(@, d, i),
                      !.phase = IF last THEN "find" ELSE "podcast",
                      !.next = IF last THEN 1 ELSE @ + 1]

LEMMA ResolvedTyped ==
    ASSUME TypeOK, ProgressInv, NEW r \in Requests, NEW i \in DeviceIds,
           tx[r].phase \in {"device", "newDevice"}
    PROVE  LET d == Current(r).device
               t == ResolvedTx(r, d, i)
           IN  /\ t \in TxState /\ d \in Devices
               /\ Resolved(r, d, i) = [tx EXCEPT ![r] = t]
               /\ t.batch = tx[r].batch /\ t.found = tx[r].found /\ t.mine = tx[r].mine
               /\ DOMAIN t.devices = DOMAIN tx[r].devices \cup {d}
               /\ tx[r].next = Len(tx[r].batch) => t.phase = "find" /\ t.next = 1
               /\ tx[r].next # Len(tx[r].batch) =>
                     t.phase = "podcast" /\ t.next = tx[r].next + 1
  <1> DEFINE d == Current(r).device
             t == ResolvedTx(r, d, i)
  <1>1. tx[r] \in TxState /\ d \in Devices
    BY TxTyped DEF ProgressInv, Upload
  <1> DEFINE f == Put(tx[r].devices, d, i)
             last == tx[r].next = Len(tx[r].batch)
  <1>2. f \in TableOf(Devices, DeviceIds) /\ DOMAIN f = DOMAIN tx[r].devices \cup {d}
    <2>1. tx[r].devices \in TableOf(Devices, DeviceIds)
      BY <1>1 DEF TxState
    <2>2. f \in TableOf(Devices, DeviceIds)
      BY <1>1, <2>1, PutTyped
    <2>3. DOMAIN f = DOMAIN tx[r].devices \cup {d}
      BY PutDomain
    <2>4. QED
      BY <2>2, <2>3
  <1>3. /\ t \in TxState
        /\ t.batch = tx[r].batch /\ t.found = tx[r].found /\ t.mine = tx[r].mine
        /\ t.devices = f
        /\ last => t.phase = "find" /\ t.next = 1
        /\ ~last => t.phase = "podcast" /\ t.next = tx[r].next + 1
    <2> DEFINE n == IF last THEN 1 ELSE tx[r].next + 1
               phase == IF last THEN "find" ELSE "podcast"
    <2>1. t = [tx[r] EXCEPT !.devices = f, !.phase = phase, !.next = n]
      BY DEF ResolvedTx
    <2>2. n \in Nat /\ phase \in Phases
      BY <1>1 DEF TxState, Phases
    <2>3. (last => n = 1) /\ (~last => n = tx[r].next + 1)
      OBVIOUS
    <2>4. (last => phase = "find") /\ (~last => phase = "podcast")
      OBVIOUS
    <2> HIDE DEF f, t, d, n, phase, last
    <2>5. QED
      BY <1>1, <1>2, <2>1, <2>2, <2>3, <2>4 DEF TxState
  <1>4. Resolved(r, d, i) = [tx EXCEPT ![r] = t]
    BY <1>1 DEF Resolved, ResolvedTx, TypeOK
  <1>5. QED
    BY <1>1, <1>2, <1>3, <1>4

\* What a resolved device changes in a transaction, its rows apart.
Advanced(r, t) ==
    /\ t.batch = tx[r].batch /\ t.found = tx[r].found
    /\ DOMAIN t.devices = DOMAIN tx[r].devices \cup {Current(r).device}
    /\ tx[r].next = Len(tx[r].batch) => t.phase = "find" /\ t.next = 1
    /\ tx[r].next # Len(tx[r].batch) => t.phase = "podcast" /\ t.next = tx[r].next + 1

LEMMA FindDeviceStep ==
    ASSUME TypeOK, ProgressInv, NEW r \in Requests, FindDevice(r)
    PROVE  /\ TypeOK' /\ OthersSame(r) /\ db' = db /\ raced' = raced
           /\ tx'[r].mine = tx[r].mine
           /\ \/ Advanced(r, tx'[r])
              \/ /\ tx'[r].phase = "newDevice" /\ Named(View(r), Current(r).device) = {}
                 /\ tx'[r].batch = tx[r].batch /\ tx'[r].next = tx[r].next
                 /\ tx'[r].devices = tx[r].devices /\ tx'[r].found = tx[r].found
  <1> DEFINE d == Current(r).device
  <1>1. tx[r] \in TxState /\ d \in Devices
    BY TxTyped DEF FindDevice, ProgressInv, Upload
  <1>2. ASSUME NEW i \in DeviceIds, tx' = Resolved(r, d, i)
        PROVE  TypeOK' /\ OthersSame(r) /\ tx'[r].mine = tx[r].mine /\ Advanced(r, tx'[r])
    <2>1. /\ ResolvedTx(r, d, i) \in TxState
          /\ tx' = [tx EXCEPT ![r] = ResolvedTx(r, d, i)]
          /\ ResolvedTx(r, d, i).mine = tx[r].mine
          /\ Advanced(r, ResolvedTx(r, d, i))
      BY <1>2, ResolvedTyped DEF FindDevice, Advanced
    <2>2. QED
      BY <2>1, TxStep DEF FindDevice
  <1>3. CASE d \in DOMAIN tx[r].devices
    <2>1. tx[r].devices[d] \in DeviceIds
      BY <1>1, <1>3, TableOfDomain DEF TxState
    <2>2. QED
      BY <1>2, <1>3, <2>1 DEF FindDevice
  <1>4. CASE d \notin DOMAIN tx[r].devices /\ Named(View(r), d) # {}
    <2>1. PICK i \in Named(View(r), d) : tx' = Resolved(r, d, i)
      BY <1>4 DEF FindDevice
    <2>2. Named(View(r), d) \subseteq DeviceIds
      <3>1. /\ db.devices \in TableOf(DeviceIds, Devices)
            /\ tx[r].mine.devices \in TableOf(DeviceIds, Devices)
        BY <1>1 DEF TypeOK, TxState, Tables
      <3>2. DOMAIN Over(db.devices, tx[r].mine.devices) \subseteq DeviceIds
        <4>1. DOMAIN db.devices \subseteq DeviceIds /\ DOMAIN tx[r].mine.devices \subseteq DeviceIds
          BY <3>1, TableOfDomain
        <4>2. QED
          BY <4>1, OverDomain
      <3>3. QED
        BY <3>2 DEF Named, View, Merged
    <2>3. QED
      BY <1>2, <2>1, <2>2 DEF FindDevice
  <1>5. CASE d \notin DOMAIN tx[r].devices /\ Named(View(r), d) = {}
    <2> DEFINE t == [tx[r] EXCEPT !.phase = "newDevice"]
    <2>1. /\ t \in TxState /\ t.phase = "newDevice" /\ t.batch = tx[r].batch
          /\ t.next = tx[r].next /\ t.devices = tx[r].devices /\ t.found = tx[r].found
          /\ t.mine = tx[r].mine
      BY <1>1 DEF TxState, Phases
    <2>2. tx' = [tx EXCEPT ![r] = t]
      BY <1>5 DEF FindDevice
    <2> HIDE DEF t
    <2>3. QED
      BY <1>5, <2>1, <2>2, TxStep DEF FindDevice
  <1>6. QED
    BY <1>3, <1>4, <1>5

\* The number that a new device takes.
NewDevice == CHOOSE i \in FreshDevices : TRUE

LEMMA NewDeviceTyped ==
    ASSUME TypeOK, NEW r \in Requests, NEW i \in DeviceIds, NEW d \in Devices
    PROVE  [Mine(r) EXCEPT !.devices = Put(@, i, d)] \in Tables
  <1>1. Mine(r) \in Tables /\ Mine(r).devices \in TableOf(DeviceIds, Devices)
    BY TxTyped DEF Tables
  <1>2. Put(Mine(r).devices, i, d) \in TableOf(DeviceIds, Devices)
    BY <1>1, PutTyped
  <1>3. QED
    BY <1>1, <1>2 DEF Tables

LEMMA InsertDeviceStep ==
    ASSUME TypeOK, ProgressInv, NEW r \in Requests, InsertDevice(r)
    PROVE  LET d == Current(r).device
           IN  /\ TypeOK' /\ OthersSame(r) /\ db' = db
               /\ NewDevice \in FreshDevices /\ d \in Devices
               /\ tx'[r].mine = [Mine(r) EXCEPT !.devices = Put(@, NewDevice, d)]
               /\ Advanced(r, tx'[r])
               /\ raced' = IF \E q \in Others(r) : Named(tx[q].mine, d) # {}
                           THEN raced \cup {d} ELSE raced
  <1> DEFINE d == Current(r).device
             s == ResolvedTx(r, d, NewDevice)
             m == [Mine(r) EXCEPT !.devices = Put(@, NewDevice, d)]
             t == [s EXCEPT !.mine = m]
  <1>1. tx[r] \in TxState /\ d \in Devices /\ Mine(r) \in Tables
    BY TxTyped DEF InsertDevice, ProgressInv, Upload
  <1>2. NewDevice \in FreshDevices /\ NewDevice \in DeviceIds
    BY DEF InsertDevice, NewDevice, FreshDevices
  <1>3. /\ s \in TxState /\ Resolved(r, d, NewDevice) = [tx EXCEPT ![r] = s]
        /\ s.mine = Mine(r) /\ Advanced(r, s)
    BY <1>2, ResolvedTyped DEF InsertDevice, Advanced, Mine
  <1>4. m \in Tables
    BY <1>1, <1>2, NewDeviceTyped
  <1>5. tx' = [tx EXCEPT ![r] = t]
    <2>1. tx' = [[tx EXCEPT ![r] = s] EXCEPT ![r].mine.devices = Put(@, NewDevice, d)]
      BY <1>3 DEF InsertDevice, NewDevice
    <2> HIDE DEF s, d
    <2>2. QED
      BY <1>1, <1>3, <2>1 DEF Mine, TypeOK, TxState
  <1>6. t \in TxState /\ t.mine = m /\ Advanced(r, t)
    <2> HIDE DEF s, m
    <2>1. QED
      BY <1>3, <1>4 DEF TxState, Advanced
  <1>7. raced' \subseteq (Podcasts \X Urls) \cup Devices
    BY <1>1 DEF InsertDevice, TypeOK
  <1> HIDE DEF t, s
  <1>8. TypeOK' /\ OthersSame(r) /\ tx'[r] = t /\ db' = db
    BY <1>5, <1>6, <1>7, TxStep DEF InsertDevice, TypeOK
  <1>9. QED
    BY <1>1, <1>2, <1>6, <1>8 DEF InsertDevice

LEMMA FindEpisodeStep ==
    ASSUME TypeOK, ProgressInv, NEW r \in Requests, FindEpisode(r)
    PROVE  /\ TypeOK' /\ OthersSame(r) /\ db' = db /\ raced' = raced
           /\ tx'[r].phase = "write" /\ tx'[r].mine = tx[r].mine
           /\ tx'[r].batch = tx[r].batch /\ tx'[r].next = tx[r].next
           /\ tx'[r].devices = tx[r].devices
           /\ \/ /\ Matching(View(r), Current(r)) = {}
                 /\ tx'[r].found = None /\ tx'[r].was = 0
              \/ /\ tx'[r].found \in Matching(View(r), Current(r))
                 /\ tx'[r].was = View(r).episodes[tx'[r].found].ts
  <1>1. tx[r] \in TxState
    BY TxTyped
  <1>2. ASSUME NEW i \in EpisodeIds \cup {None}, NEW n \in Nat,
               tx' = [tx EXCEPT ![r].phase = "write", ![r].found = i, ![r].was = n]
        PROVE  /\ TypeOK' /\ OthersSame(r)
               /\ tx'[r].phase = "write" /\ tx'[r].mine = tx[r].mine
               /\ tx'[r].batch = tx[r].batch /\ tx'[r].next = tx[r].next
               /\ tx'[r].devices = tx[r].devices
               /\ tx'[r].found = i /\ tx'[r].was = n
    <2> DEFINE t == [tx[r] EXCEPT !.phase = "write", !.found = i, !.was = n]
    <2>1. /\ t \in TxState /\ t.phase = "write" /\ t.batch = tx[r].batch
          /\ t.next = tx[r].next /\ t.devices = tx[r].devices /\ t.mine = tx[r].mine
          /\ t.found = i /\ t.was = n
      BY <1>1 DEF TxState, Phases
    <2>2. tx' = [tx EXCEPT ![r] = t]
      BY <1>2
    <2> HIDE DEF t
    <2>3. QED
      BY <2>1, <2>2, TxStep DEF FindEpisode
  <1>3. CASE Matching(View(r), Current(r)) = {}
    <2>1. tx' = [tx EXCEPT ![r].phase = "write", ![r].found = None, ![r].was = 0]
      BY <1>3 DEF FindEpisode
    <2>2. QED
      BY <1>2, <1>3, <2>1 DEF FindEpisode
  <1>4. CASE Matching(View(r), Current(r)) # {}
    <2>1. PICK i \in Matching(View(r), Current(r)) :
            tx' = [tx EXCEPT ![r].phase = "write", ![r].found = i,
                             ![r].was = View(r).episodes[i].ts]
      BY <1>4 DEF FindEpisode
    <2>2. View(r).episodes \in TableOf(EpisodeIds, EpisodeRow)
      BY <1>1, OverTyped DEF TypeOK, TxState, Tables, View, Merged
    <2>3. i \in EpisodeIds /\ View(r).episodes[i].ts \in Nat
      <3>1. i \in DOMAIN View(r).episodes
        BY DEF Matching
      <3>2. i \in EpisodeIds /\ View(r).episodes[i] \in EpisodeRow
        BY <2>2, <3>1, TableOfDomain
      <3>3. QED
        BY <3>2, PgAssumption DEF EpisodeRow
    <2>4. QED
      BY <1>2, <2>1, <2>3 DEF FindEpisode
  <1>5. QED
    BY <1>3, <1>4

\* The numbers that WriteEpisode takes, and whether it writes an episode row.
NewEpisode(r) ==
    IF tx[r].found = None THEN CHOOSE e \in FreshEpisodes : TRUE ELSE tx[r].found
NewHist == CHOOSE h \in FreshHist : TRUE
Writes(r) == tx[r].found = None \/ tx[r].was < Current(r).ts

LEMMA WriteEpisodeStep ==
    ASSUME TypeOK, ProgressInv, NEW r \in Requests, WriteEpisode(r)
    PROVE  LET a == Current(r)
               i == NewEpisode(r)
           IN  /\ TypeOK' /\ OthersSame(r) /\ db' = db
               /\ a \in Upload /\ i \in EpisodeIds /\ NewHist \in FreshHist
               /\ tx[r].found = None => i \in FreshEpisodes
               /\ RowOf(r) \in EpisodeRow /\ SameKey(RowOf(r), a) /\ RowOf(r).ts = a.ts
               /\ RowOf(r).device = tx[r].devices[a.device]
               /\ Mine(r)'.podcasts = Mine(r).podcasts /\ Mine(r)'.devices = Mine(r).devices
               /\ Mine(r)'.episodes = IF Writes(r) THEN Put(Mine(r).episodes, i, RowOf(r))
                                      ELSE Mine(r).episodes
               /\ Mine(r)'.hist = Put(Mine(r).hist, NewHist,
                     [episode |-> i, device |-> tx[r].devices[a.device], ts |-> a.ts])
               /\ tx'[r].phase = "find" /\ tx'[r].found = None
               /\ tx'[r].batch = tx[r].batch /\ tx'[r].next = tx[r].next + 1
               /\ tx'[r].devices = tx[r].devices
               /\ raced' = IF Racing(r, a) THEN raced \cup {<<a.podcast, a.url>>} ELSE raced
  <1> DEFINE a == Current(r)
             i == NewEpisode(r)
             episodes == IF Writes(r) THEN Put(Mine(r).episodes, i, RowOf(r))
                         ELSE Mine(r).episodes
             row == [episode |-> i, device |-> tx[r].devices[a.device], ts |-> a.ts]
             hist == Put(Mine(r).hist, NewHist, row)
             m == [Mine(r) EXCEPT !.episodes = episodes, !.hist = hist]
             t == [tx[r] EXCEPT !.mine = m, !.phase = "find", !.found = None, !.next = @ + 1]
  <1>1. tx[r] \in TxState /\ a \in Upload /\ Mine(r) \in Tables
    BY TxTyped DEF WriteEpisode, ProgressInv
  <1>2. i \in EpisodeIds /\ NewHist \in FreshHist /\ NewHist \in HistIds
    <2>1. FreshEpisodes # {} /\ tx[r].found = None => i \in FreshEpisodes
      BY DEF NewEpisode
    <2>2. QED
      BY <1>1, <2>1 DEF WriteEpisode, NewEpisode, NewHist, FreshEpisodes, FreshHist, TxState
  <1>3. tx[r].found = None => i \in FreshEpisodes
    BY DEF WriteEpisode, NewEpisode
  <1>4. tx[r].devices[a.device] \in DeviceIds
    <2>1. a.device \in DOMAIN tx[r].devices
      BY <1>1 DEF WriteEpisode, ProgressInv, Progress, ProgressOf, Current, TxState
    <2>2. QED
      BY <1>1, <2>1, TableOfDomain DEF TxState
  <1>5. /\ RowOf(r) \in EpisodeRow /\ SameKey(RowOf(r), a) /\ RowOf(r).ts = a.ts
        /\ RowOf(r).device = tx[r].devices[a.device]
    BY <1>1, <1>4 DEF RowOf, EpisodeRow, SameKey, Upload
  <1>6. row \in HistRow
    BY <1>1, <1>2, <1>4 DEF HistRow, Upload
  <1>7. m \in Tables /\ m.podcasts = Mine(r).podcasts /\ m.devices = Mine(r).devices
        /\ m.episodes = episodes /\ m.hist = hist
    <2>1. /\ Mine(r).episodes \in TableOf(EpisodeIds, EpisodeRow)
          /\ Mine(r).hist \in TableOf(HistIds, HistRow)
      BY <1>1 DEF Tables
    <2>2. episodes \in TableOf(EpisodeIds, EpisodeRow)
      <3>1. Put(Mine(r).episodes, i, RowOf(r)) \in TableOf(EpisodeIds, EpisodeRow)
        BY <1>2, <1>5, <2>1, PutTyped
      <3>2. QED
        BY <2>1, <3>1
    <2>3. hist \in TableOf(HistIds, HistRow)
      <3> HIDE DEF row
      <3>1. QED
        BY <1>2, <1>6, <2>1, PutTyped
    <2> HIDE DEF episodes, hist
    <2>4. QED
      BY <1>1, <2>2, <2>3 DEF Tables
  <1>8. tx' = [tx EXCEPT ![r] = t]
    <2>1. tx' = Written(r, i, episodes, NewHist)
      BY DEF WriteEpisode, NewEpisode, NewHist, Writes, Mine
    <2> HIDE DEF episodes
    <2>2. QED
      BY <1>1, <2>1 DEF Written, Mine, TypeOK, TxState, Tables
  <1>9. /\ t \in TxState /\ t.mine = m /\ t.phase = "find" /\ t.found = None
        /\ t.batch = tx[r].batch /\ t.next = tx[r].next + 1 /\ t.devices = tx[r].devices
    <2>1. tx[r] \in TxState /\ m \in Tables
      BY <1>1, <1>7
    <2> DEFINE n == tx[r].next + 1
    <2>2. n \in Nat
      BY <2>1 DEF TxState
    <2> HIDE DEF m, a, n
    <2>3. t = [tx[r] EXCEPT !.mine = m, !.phase = "find", !.found = None, !.next = n]
      BY DEF n
    <2> HIDE DEF t
    <2>4. t \in TxState
      BY <2>1, <2>2, <2>3 DEF TxState, Phases
    <2>5. /\ t.mine = m /\ t.phase = "find" /\ t.found = None
          /\ t.batch = tx[r].batch /\ t.next = n /\ t.devices = tx[r].devices
      BY <2>1, <2>3 DEF TxState
    <2>6. QED
      BY <2>4, <2>5 DEF n
  <1>10. raced' = IF Racing(r, a) THEN raced \cup {<<a.podcast, a.url>>} ELSE raced
    BY DEF WriteEpisode
  <1>11. raced' \subseteq (Podcasts \X Urls) \cup Devices
    BY <1>1, <1>10 DEF TypeOK, Upload
  <1> HIDE DEF t, m
  <1>12. TypeOK' /\ OthersSame(r) /\ tx'[r] = t /\ db' = db /\ Mine(r)' = m
    BY <1>8, <1>9, <1>11, TxStep DEF WriteEpisode, TypeOK, Mine
  <1>13. QED
    BY <1>1, <1>2, <1>3, <1>5, <1>7, <1>9, <1>10, <1>12

LEMMA BeginNamingStep ==
    ASSUME TypeOK, NEW r \in Requests, NEW d \in Devices, BeginNaming(r, d)
    PROVE  /\ TypeOK' /\ OthersSame(r) /\ db' = db /\ raced' = raced
           /\ tx'[r].phase = "name" /\ tx'[r].batch = <<>> /\ tx'[r].next = 1
           /\ tx'[r].name = d /\ tx'[r].mine = NoRows
  <1> DEFINE t == [NoTx EXCEPT !.phase = "name", !.name = d]
  <1>1. t \in TxState
    BY NoRowsTyped DEF NoTx, TxState, Phases
  <1>2. QED
    BY <1>1, TxStep DEF BeginNaming, NoTx

LEMMA FindNameStep ==
    ASSUME TypeOK, NEW r \in Requests, FindName(r)
    PROVE  /\ TypeOK' /\ OthersSame(r) /\ db' = db /\ raced' = raced
           /\ tx'[r].phase \in {"find", "newName"}
           /\ tx'[r].phase = "newName" => Named(View(r), tx[r].name) = {}
           /\ tx'[r].batch = tx[r].batch /\ tx'[r].next = tx[r].next
           /\ tx'[r].name = tx[r].name /\ tx'[r].mine = tx[r].mine
  <1> DEFINE phase == IF Named(View(r), tx[r].name) # {} THEN "find" ELSE "newName"
             t == [tx[r] EXCEPT !.phase = phase]
  <1>1. /\ phase \in {"find", "newName"}
        /\ phase = "newName" => Named(View(r), tx[r].name) = {}
    OBVIOUS
  <1>2. tx' = [tx EXCEPT ![r] = t]
    BY DEF FindName
  <1> HIDE DEF phase
  <1>3. /\ t \in TxState /\ t.phase = phase /\ t.batch = tx[r].batch
        /\ t.next = tx[r].next /\ t.name = tx[r].name /\ t.mine = tx[r].mine
    BY <1>1, TxTyped DEF TxState, Phases
  <1> HIDE DEF t
  <1>4. QED
    BY <1>1, <1>2, <1>3, TxStep DEF FindName

LEMMA InsertNameStep ==
    ASSUME TypeOK, ProgressInv, NEW r \in Requests, InsertName(r)
    PROVE  LET d == tx[r].name
           IN  /\ TypeOK' /\ OthersSame(r) /\ db' = db
               /\ NewDevice \in FreshDevices /\ d \in Devices
               /\ tx'[r].mine = [Mine(r) EXCEPT !.devices = Put(@, NewDevice, d)]
               /\ tx'[r].phase = "find" /\ tx'[r].batch = <<>> /\ tx'[r].next = 1
               /\ raced' = IF \E q \in Others(r) : Named(tx[q].mine, d) # {}
                           THEN raced \cup {d} ELSE raced
  <1> DEFINE d == tx[r].name
             m == [Mine(r) EXCEPT !.devices = Put(@, NewDevice, d)]
             t == [tx[r] EXCEPT !.phase = "find", !.mine = m]
  <1>1. tx[r] \in TxState /\ d \in Devices /\ tx[r].batch = <<>> /\ tx[r].next = 1
    BY TxTyped DEF InsertName, ProgressInv, Progress, ProgressOf
  <1>2. NewDevice \in FreshDevices /\ NewDevice \in DeviceIds
    BY DEF InsertName, NewDevice, FreshDevices
  <1>3. m \in Tables
    BY <1>1, <1>2, NewDeviceTyped
  <1>4. tx' = [tx EXCEPT ![r] = t]
    BY <1>1 DEF InsertName, NewDevice, Mine, TypeOK, TxState
  <1>5. raced' \subseteq (Podcasts \X Urls) \cup Devices
    BY <1>1 DEF InsertName, TypeOK
  <1> HIDE DEF m
  <1>6. /\ t \in TxState /\ t.mine = m /\ t.phase = "find" /\ t.batch = <<>> /\ t.next = 1
    BY <1>1, <1>3 DEF TxState, Phases
  <1> HIDE DEF t
  <1>7. TypeOK' /\ OthersSame(r) /\ tx'[r] = t /\ db' = db
    BY <1>4, <1>5, <1>6, TxStep DEF InsertName, TypeOK
  <1>8. QED
    BY <1>1, <1>2, <1>6, <1>7 DEF InsertName, m

LEMMA InsertSubscribedStep ==
    ASSUME TypeOK, NEW r \in Requests, NEW p \in Podcasts, InsertSubscribed(r, p)
    PROVE  /\ TypeOK' /\ OthersSame(r) /\ db' = db /\ raced' = raced
           /\ tx[r].phase = "find" /\ tx[r].batch = <<>>
           /\ tx'[r].phase = "find" /\ tx'[r].batch = <<>> /\ tx'[r].next = tx[r].next
           /\ tx'[r].mine = [Mine(r) EXCEPT !.podcasts = @ \cup {p}]
  <1> DEFINE m == [Mine(r) EXCEPT !.podcasts = @ \cup {p}]
             t == [tx[r] EXCEPT !.mine = m]
  <1>1. tx[r] \in TxState /\ tx[r].phase = "find" /\ tx[r].batch = <<>>
    BY TxTyped DEF InsertSubscribed
  <1>2. m \in Tables
    BY TxTyped DEF Tables
  <1>3. tx' = [tx EXCEPT ![r] = t]
    BY <1>1 DEF InsertSubscribed, Mine, TypeOK, TxState
  <1> HIDE DEF m
  <1>4. /\ t \in TxState /\ t.mine = m /\ t.phase = "find" /\ t.batch = <<>>
        /\ t.next = tx[r].next
    BY <1>1, <1>2 DEF TxState
  <1> HIDE DEF t
  <1>5. QED
    BY <1>1, <1>3, <1>4, TxStep DEF InsertSubscribed, m

LEMMA RollbackStep ==
    ASSUME TypeOK, NEW r \in Requests, Rollback(r)
    PROVE  /\ TypeOK' /\ OthersSame(r) /\ db' = db /\ raced' = raced
           /\ tx'[r] = NoTx
  BY NoRowsTyped, TxStep DEF Rollback

LEMMA CommitStep ==
    ASSUME TypeOK, ProgressInv, NEW r \in Requests, Commit(r)
    PROVE  /\ TypeOK' /\ OthersSame(r) /\ tx'[r] = NoTx
           /\ db'.podcasts = db.podcasts \cup Mine(r).podcasts
           /\ db'.devices = Over(db.devices, Mine(r).devices)
           /\ db'.episodes = Over(db.episodes, Mine(r).episodes)
           /\ db'.hist = Over(db.hist, Mine(r).hist)
           /\ raced' = raced \cup Outdated(r)
  <1>1. tx' \in [Requests -> TxState] /\ tx'[r] = NoTx /\ OthersSame(r)
    BY NoRowsTyped, TxStep DEF Commit
  <1>2. db \in Tables /\ Mine(r) \in Tables
    BY TxTyped DEF TypeOK
  <1>3. db' \in Tables
    <2>1. Over(db.devices, Mine(r).devices) \in TableOf(DeviceIds, Devices)
      BY <1>2, OverTyped DEF Tables
    <2>2. Over(db.episodes, Mine(r).episodes) \in TableOf(EpisodeIds, EpisodeRow)
      BY <1>2, OverTyped DEF Tables
    <2>3. Over(db.hist, Mine(r).hist) \in TableOf(HistIds, HistRow)
      BY <1>2, OverTyped DEF Tables
    <2>4. QED
      BY <1>2, <2>1, <2>2, <2>3 DEF Commit, View, Merged, Mine, Tables
  <1>4. Outdated(r) \subseteq (Podcasts \X Urls) \cup Devices
    <2>1. \A q \in Requests : tx[q].phase \in {"write", "newDevice"} => Current(q) \in Upload
      BY TxTyped DEF ProgressInv
    <2>2. ASSUME NEW q \in Requests
          PROVE  Missing(q) \subseteq Devices
      BY <2>1 DEF Missing, Upload, ProgressInv, Progress, ProgressOf
    <2>3. QED
      BY <2>1, <2>2 DEF Outdated, Others, Upload
  <1>5. TypeOK'
    BY <1>1, <1>3, <1>4 DEF TypeOK, Commit
  <1>6. QED
    BY <1>1, <1>5 DEF Commit, View, Merged, Mine

LEMMA DeletePodcastStep ==
    ASSUME TypeOK, NEW p \in Podcasts, DeletePodcast(p)
    PROVE  /\ TypeOK'
           /\ db'.podcasts = db.podcasts \ {p} /\ db'.devices = db.devices
           /\ DOMAIN db'.episodes = {i \in DOMAIN db.episodes : db.episodes[i].podcast # p}
           /\ \A i \in DOMAIN db'.episodes : db'.episodes[i] = db.episodes[i]
           /\ DOMAIN db'.hist = {h \in DOMAIN db.hist : db.hist[h].episode \in DOMAIN db'.episodes}
           /\ \A h \in DOMAIN db'.hist : db'.hist[h] = db.hist[h]
           /\ raced' = raced \ ({p} \X Urls) /\ tx' = tx
  <1> DEFINE left == {i \in DOMAIN db.episodes : db.episodes[i].podcast # p}
             kept == {h \in DOMAIN db.hist : db.hist[h].episode \in left}
             episodes == [i \in left |-> db.episodes[i]]
             hist == [h \in kept |-> db.hist[h]]
  <1>1. db \in Tables
    BY DEF TypeOK
  <1>2. db' = [db EXCEPT !.podcasts = @ \ {p}, !.episodes = episodes, !.hist = hist]
    BY DEF DeletePodcast
  <1>3. episodes \in TableOf(EpisodeIds, EpisodeRow)
    <2>1. /\ left \in SUBSET EpisodeIds
          /\ \A i \in DOMAIN db.episodes : db.episodes[i] \in EpisodeRow
      BY <1>1, TableOfDomain DEF Tables
    <2>2. episodes \in [left -> EpisodeRow]
      BY <2>1
    <2>3. QED
      BY <2>1, <2>2 DEF TableOf
  <1>4. hist \in TableOf(HistIds, HistRow)
    <2>1. /\ kept \in SUBSET HistIds
          /\ \A h \in DOMAIN db.hist : db.hist[h] \in HistRow
      BY <1>1, TableOfDomain DEF Tables
    <2>2. hist \in [kept -> HistRow]
      BY <2>1
    <2>3. QED
      BY <2>1, <2>2 DEF TableOf
  <1>5. /\ DOMAIN episodes = left /\ \A i \in left : episodes[i] = db.episodes[i]
        /\ DOMAIN hist = kept /\ \A h \in kept : hist[h] = db.hist[h]
    OBVIOUS
  <1> HIDE DEF episodes, hist
  <1>6. db' \in Tables /\ db'.episodes = episodes /\ db'.hist = hist
        /\ db'.podcasts = db.podcasts \ {p} /\ db'.devices = db.devices
    BY <1>1, <1>2, <1>3, <1>4 DEF Tables
  <1>7. TypeOK'
    BY <1>6 DEF DeletePodcast, TypeOK
  <1>8. QED
    BY <1>5, <1>6, <1>7 DEF DeletePodcast

\* The rows of f, with NULL for device row i.
Unset(f, i) == [e \in DOMAIN f |-> IF f[e].device = i THEN [f[e] EXCEPT !.device = None] ELSE f[e]]

LEMMA DeleteDeviceStep ==
    ASSUME TypeOK, NEW i \in DeviceIds, DeleteDevice(i)
    PROVE  /\ TypeOK'
           /\ db'.podcasts = db.podcasts
           /\ DOMAIN db'.devices = DOMAIN db.devices \ {i}
           /\ \A j \in DOMAIN db'.devices : db'.devices[j] = db.devices[j]
           /\ DOMAIN db'.episodes = DOMAIN db.episodes
           /\ \A e \in DOMAIN db.episodes :
                 /\ SameKey(db'.episodes[e], db.episodes[e])
                 /\ db'.episodes[e].ts = db.episodes[e].ts
                 /\ db'.episodes[e].device \in {db.episodes[e].device, None} \ {i}
           /\ DOMAIN db'.hist = DOMAIN db.hist
           /\ \A h \in DOMAIN db.hist :
                 /\ db'.hist[h].episode = db.hist[h].episode
                 /\ db'.hist[h].ts = db.hist[h].ts
                 /\ db'.hist[h].device \in {db.hist[h].device, None} \ {i}
           /\ raced' = raced /\ tx' = tx
  <1> DEFINE devices == [j \in DOMAIN db.devices \ {i} |-> db.devices[j]]
  <1>1. db \in Tables
    BY DEF TypeOK
  <1>2. db' = [db EXCEPT !.devices = devices, !.episodes = Unset(db.episodes, i),
                         !.hist = Unset(db.hist, i)]
    BY DEF DeleteDevice, Unset
  <1>3. devices \in TableOf(DeviceIds, Devices)
    <2>1. /\ DOMAIN db.devices \ {i} \in SUBSET DeviceIds
          /\ \A j \in DOMAIN db.devices : db.devices[j] \in Devices
      BY <1>1, TableOfDomain DEF Tables
    <2>2. devices \in [DOMAIN db.devices \ {i} -> Devices]
      BY <2>1
    <2>3. QED
      BY <2>1, <2>2 DEF TableOf
  <1>4. /\ Unset(db.episodes, i) \in TableOf(EpisodeIds, EpisodeRow)
        /\ DOMAIN Unset(db.episodes, i) = DOMAIN db.episodes
        /\ \A e \in DOMAIN db.episodes :
              /\ SameKey(Unset(db.episodes, i)[e], db.episodes[e])
              /\ Unset(db.episodes, i)[e].ts = db.episodes[e].ts
              /\ Unset(db.episodes, i)[e].device \in {db.episodes[e].device, None} \ {i}
    <2>1. /\ DOMAIN db.episodes \in SUBSET EpisodeIds
          /\ \A e \in DOMAIN db.episodes : db.episodes[e] \in EpisodeRow
      BY <1>1, TableOfDomain DEF Tables
    <2>2. ASSUME NEW e \in DOMAIN db.episodes
          PROVE  /\ Unset(db.episodes, i)[e] \in EpisodeRow
                 /\ SameKey(Unset(db.episodes, i)[e], db.episodes[e])
                 /\ Unset(db.episodes, i)[e].ts = db.episodes[e].ts
                 /\ Unset(db.episodes, i)[e].device \in {db.episodes[e].device, None} \ {i}
      BY <2>1, PgAssumption DEF Unset, EpisodeRow, SameKey
    <2>3. Unset(db.episodes, i) \in [DOMAIN db.episodes -> EpisodeRow]
      BY <2>2 DEF Unset
    <2>4. QED
      BY <2>1, <2>2, <2>3 DEF TableOf
  <1>5. /\ Unset(db.hist, i) \in TableOf(HistIds, HistRow)
        /\ DOMAIN Unset(db.hist, i) = DOMAIN db.hist
        /\ \A h \in DOMAIN db.hist :
              /\ Unset(db.hist, i)[h].episode = db.hist[h].episode
              /\ Unset(db.hist, i)[h].ts = db.hist[h].ts
              /\ Unset(db.hist, i)[h].device \in {db.hist[h].device, None} \ {i}
    <2>1. /\ DOMAIN db.hist \in SUBSET HistIds
          /\ \A h \in DOMAIN db.hist : db.hist[h] \in HistRow
      BY <1>1, TableOfDomain DEF Tables
    <2>2. ASSUME NEW h \in DOMAIN db.hist
          PROVE  /\ Unset(db.hist, i)[h] \in HistRow
                 /\ Unset(db.hist, i)[h].episode = db.hist[h].episode
                 /\ Unset(db.hist, i)[h].ts = db.hist[h].ts
                 /\ Unset(db.hist, i)[h].device \in {db.hist[h].device, None} \ {i}
      BY <2>1, PgAssumption DEF Unset, HistRow
    <2>3. Unset(db.hist, i) \in [DOMAIN db.hist -> HistRow]
      BY <2>2 DEF Unset
    <2>4. QED
      BY <2>1, <2>2, <2>3 DEF TableOf
  <1>6. DOMAIN devices = DOMAIN db.devices \ {i}
        /\ \A j \in DOMAIN devices : devices[j] = db.devices[j]
    OBVIOUS
  <1> HIDE DEF devices
  <1>7. /\ db' \in Tables /\ db'.podcasts = db.podcasts /\ db'.devices = devices
        /\ db'.episodes = Unset(db.episodes, i) /\ db'.hist = Unset(db.hist, i)
    BY <1>1, <1>2, <1>3, <1>4, <1>5 DEF Tables
  <1>8. TypeOK' /\ raced' = raced /\ tx' = tx
    BY <1>7 DEF DeleteDevice, TypeOK
  <1>9. QED
    BY <1>4, <1>5, <1>6, <1>7, <1>8

-----------------------------------------------------------------------------
\* Progress.

LEMMA ProgressStep ==
    ASSUME TypeOK, ProgressInv, [Next]_vars
    PROVE  ProgressInv'
  <1>1. ASSUME NEW r \in Requests, OthersSame(r), Progress(r)'
        PROVE  ProgressInv'
    BY <1>1 DEF ProgressInv, Progress, OthersSame
  <1>2. ASSUME NEW r \in Requests
        PROVE  /\ tx[r].phase # "idle" => tx[r].batch \in Seq(Upload) /\ tx[r].next \in Nat
               /\ Progress(r)
    BY TxTyped DEF ProgressInv
  <1>3. ASSUME NEW r \in Requests, AddAction(r)
        PROVE  ProgressInv'
    <2>1. CASE \E batch \in Batches : Begin(r, batch)
      <3>1. PICK batch \in Batches : Begin(r, batch)
        BY <2>1
      <3>2. Len(batch) >= 1
        BY PgAssumption
      <3>3. Progress(r)'
        BY <3>1, <3>2, BeginStep DEF Progress, ProgressOf
      <3>4. QED
        BY <1>1, <3>1, <3>3, BeginStep
    <2>2. CASE FindPodcast(r)
      <3>1. Progress(r)'
        BY <1>2, <2>2, FindPodcastStep DEF Progress, ProgressOf, FindPodcast
      <3>2. QED
        BY <1>1, <2>2, <3>1, FindPodcastStep
    <2>3. CASE InsertPodcast(r)
      <3>1. Progress(r)'
        BY <1>2, <2>3, InsertPodcastStep DEF Progress, ProgressOf, InsertPodcast
      <3>2. QED
        BY <1>1, <2>3, <3>1, InsertPodcastStep
    <2>4. ASSUME Advanced(r, tx'[r]), tx[r].phase \in {"device", "newDevice"}
          PROVE  Progress(r)'
      <3>1. tx[r].batch \in Seq(Upload) /\ tx[r].next \in Nat /\ Len(tx[r].batch) \in Nat
        BY <1>2, <2>4
      <3>2. \A k \in 1 .. tx[r].next : tx'[r].batch[k].device \in DOMAIN tx'[r].devices
        <4>1. ASSUME NEW k \in 1 .. tx[r].next
              PROVE  tx[r].batch[k].device \in DOMAIN tx[r].devices \cup {Current(r).device}
          <5>1. CASE k = tx[r].next
            BY <5>1 DEF Current
          <5>2. CASE k # tx[r].next
            <6>1. k \in 1 .. tx[r].next - 1
              BY <3>1, <5>2
            <6>2. QED
              BY <1>2, <2>4, <6>1 DEF Progress, ProgressOf
          <5>3. QED
            BY <5>1, <5>2
        <4>2. QED
          BY <2>4, <4>1 DEF Advanced
      <3>3. CASE tx[r].next = Len(tx[r].batch)
        BY <1>2, <2>4, <3>1, <3>2, <3>3 DEF Progress, ProgressOf, Advanced
      <3>4. CASE tx[r].next # Len(tx[r].batch)
        BY <1>2, <2>4, <3>1, <3>2, <3>4 DEF Progress, ProgressOf, Advanced
      <3>5. QED
        BY <3>3, <3>4
    <2>5. CASE FindDevice(r)
      <3>1. CASE Advanced(r, tx'[r])
        BY <1>1, <2>4, <2>5, <3>1, FindDeviceStep DEF FindDevice
      <3>2. CASE ~Advanced(r, tx'[r])
        <4>1. Progress(r)'
          BY <1>2, <2>5, <3>2, FindDeviceStep DEF Progress, ProgressOf, FindDevice
        <4>2. QED
          BY <1>1, <2>5, <4>1, FindDeviceStep
      <3>3. QED
        BY <3>1, <3>2
    <2>6. CASE InsertDevice(r)
      BY <1>1, <2>4, <2>6, InsertDeviceStep DEF InsertDevice
    <2>7. CASE FindEpisode(r)
      <3>1. Progress(r)'
        BY <1>2, <2>7, FindEpisodeStep DEF Progress, ProgressOf, FindEpisode
      <3>2. QED
        BY <1>1, <2>7, <3>1, FindEpisodeStep
    <2>8. CASE WriteEpisode(r)
      <3>1. tx[r].batch \in Seq(Upload) /\ tx[r].next \in Nat /\ Len(tx[r].batch) \in Nat
        BY <1>2, <2>8 DEF WriteEpisode
      <3>2. tx[r].phase = "write"
        BY <2>8 DEF WriteEpisode
      <3>3. /\ tx'[r].phase = "find" /\ tx'[r].batch = tx[r].batch
            /\ tx'[r].next = tx[r].next + 1 /\ tx'[r].devices = tx[r].devices
        BY <2>8, WriteEpisodeStep
      <3>4. Progress(r)'
        BY <1>2, <3>1, <3>2, <3>3 DEF Progress, ProgressOf
      <3>5. QED
        BY <1>1, <2>8, <3>4, WriteEpisodeStep
    <2>9. CASE Commit(r)
      <3>1. Progress(r)'
        BY <2>9, CommitStep DEF Progress, ProgressOf, NoTx
      <3>2. QED
        BY <1>1, <2>9, <3>1, CommitStep
    <2>10. CASE Rollback(r)
      <3>1. Progress(r)'
        BY <2>10, RollbackStep DEF Progress, ProgressOf, NoTx
      <3>2. QED
        BY <1>1, <2>10, <3>1, RollbackStep
    <2>11. QED
      BY <1>3, <2>1, <2>2, <2>3, <2>5, <2>6, <2>7, <2>8, <2>9, <2>10 DEF AddAction
  <1>4. ASSUME NEW r \in Requests, SaveDevice(r)
        PROVE  ProgressInv'
    <2> DEFINE batch == <<>>
    <2>6. batch \in Batches \cup {<<>>} /\ 1 \in 1 .. Len(batch) + 1
          /\ \A k \in 1 .. Len(batch) : FALSE
      OBVIOUS
    <2>1. CASE \E d \in Devices : BeginNaming(r, d)
      <3>1. OthersSame(r) /\ Progress(r)'
        <4>1. /\ OthersSame(r) /\ tx'[r].phase = "name" /\ tx'[r].batch = batch
              /\ tx'[r].next = 1 /\ tx'[r].name \in Devices
          BY <2>1, BeginNamingStep
        <4>2. QED
          BY <2>6, <4>1 DEF Progress, ProgressOf
      <3>2. QED
        BY <1>1, <3>1
    <2>2. CASE FindName(r)
      <3>1. OthersSame(r) /\ Progress(r)'
        <4>1. /\ OthersSame(r) /\ tx'[r].phase \in {"find", "newName"} /\ tx'[r].batch = batch
              /\ tx'[r].next = 1 /\ tx'[r].name \in Devices
          BY <1>2, <2>2, FindNameStep DEF Progress, ProgressOf, FindName
        <4> HIDE DEF batch
        <4>2. QED
          BY <2>6, <4>1 DEF Progress, ProgressOf, batch
      <3>2. QED
        BY <1>1, <3>1
    <2>3. CASE InsertName(r)
      <3>1. OthersSame(r) /\ Progress(r)'
        <4>1. OthersSame(r) /\ tx'[r].phase = "find" /\ tx'[r].batch = batch /\ tx'[r].next = 1
          BY <2>3, InsertNameStep
        <4> HIDE DEF batch
        <4>2. QED
          BY <2>6, <4>1 DEF Progress, ProgressOf
      <3>2. QED
        BY <1>1, <3>1
    <2>4. CASE \E p \in Podcasts : InsertSubscribed(r, p)
      <3>1. OthersSame(r) /\ Progress(r)'
        <4>1. OthersSame(r) /\ tx'[r].phase = "find" /\ tx'[r].batch = batch /\ tx'[r].next = 1
          <5>1. /\ OthersSame(r) /\ tx'[r].phase = "find" /\ tx'[r].batch = batch
                /\ tx'[r].next = tx[r].next /\ tx[r].phase = "find" /\ tx[r].batch = batch
            BY <2>4, InsertSubscribedStep
          <5>2. tx[r].next \in 1 .. Len(batch) + 1
            BY <1>2, <5>1 DEF Progress, ProgressOf
          <5>3. tx[r].next = 1
            BY <5>2
          <5>4. QED
            BY <5>1, <5>3
        <4> HIDE DEF batch
        <4>2. QED
          BY <2>6, <4>1 DEF Progress, ProgressOf
      <3>2. QED
        BY <1>1, <3>1
    <2>5. QED
      BY <1>4, <2>1, <2>2, <2>3, <2>4 DEF SaveDevice
  <1>5. CASE tx' = tx
    BY <1>5 DEF ProgressInv, Progress
  <1>6. QED
    BY <1>3, <1>4, <1>5 DEF Next, vars, DeletePodcast, DeleteDevice

-----------------------------------------------------------------------------
\* Steps that write no row, and those that end or begin a transaction.

SameRows(q) ==
    /\ Mine(q)'.devices = Mine(q).devices /\ Mine(q)'.episodes = Mine(q).episodes
    /\ Mine(q)'.hist = Mine(q).hist /\ Mine(q).podcasts \subseteq Mine(q)'.podcasts

Empty(s) == DOMAIN s.devices = {} /\ DOMAIN s.episodes = {} /\ DOMAIN s.hist = {}

LEMMA NoRowsEmpty == Empty(NoRows)
  BY DEF Empty, NoRows

LEMMA QuietRows ==
    ASSUME RowsInv, db' = db, raced' = raced,
           \A q \in Requests : SameRows(q) \/ Empty(Mine(q)')
    PROVE  RowsInv'
  <1>1. NumbersInv'
    BY DEF RowsInv, NumbersInv, SameRows, Empty
  <1>2. RefersInv'
    BY DEF RowsInv, RefersInv, Refers, RowsReferToRows, SameRows, Empty
  <1>3. KeysInv'
    BY DEF RowsInv, KeysInv, KeyIs, SameRows, Empty
  <1>4. NamesInv'
    BY DEF RowsInv, NamesInv, NamesUniqueUnlessRaced, Named, SameRows, Empty
  <1>5. OneRowInv'
    BY DEF RowsInv, OneRowInv, Raced, SameKey, SameRows, Empty
  <1>6. LatestInv'
    BY DEF RowsInv, LatestInv, NotOlder, Shown, Raced, SameRows, Empty
  <1>7. QED
    BY <1>1, <1>2, <1>3, <1>4, <1>5, <1>6 DEF RowsInv

\* A new number is in use nowhere.
LEMMA FreshDeviceUnused ==
    ASSUME NEW i \in FreshDevices
    PROVE  i \notin DOMAIN db.devices /\ \A q \in Requests : i \notin DOMAIN Mine(q).devices
  <1>1. ASSUME NEW q \in Requests
        PROVE  i \notin DOMAIN tx[q].mine.devices
    BY DEF FreshDevices
  <1>2. QED
    BY <1>1 DEF FreshDevices, Mine

LEMMA FreshEpisodeUnused ==
    ASSUME NEW i \in FreshEpisodes
    PROVE  /\ i \notin DOMAIN db.episodes
           /\ \A q \in Requests : i \notin DOMAIN Mine(q).episodes /\ i # tx[q].found
  <1>1. ASSUME NEW q \in Requests
        PROVE  i \notin DOMAIN tx[q].mine.episodes /\ i # tx[q].found
    BY DEF FreshEpisodes
  <1>2. QED
    BY <1>1 DEF FreshEpisodes, Mine

LEMMA FreshHistUnused ==
    ASSUME NEW h \in FreshHist
    PROVE  h \notin DOMAIN db.hist /\ \A q \in Requests : h \notin DOMAIN Mine(q).hist
  <1>1. ASSUME NEW q \in Requests
        PROVE  h \notin DOMAIN tx[q].mine.hist
    BY DEF FreshHist
  <1>2. QED
    BY <1>1 DEF FreshHist, Mine

SameEpisodes(q) ==
    /\ Mine(q)'.podcasts = Mine(q).podcasts /\ Mine(q)'.episodes = Mine(q).episodes
    /\ Mine(q)'.hist = Mine(q).hist

LEMMA SameEpisodesOneRow ==
    ASSUME RowsInv, db' = db, raced \subseteq raced', \A q \in Requests : SameEpisodes(q)
    PROVE  OneRowInv'
  BY DEF RowsInv, OneRowInv, Raced, SameKey, SameEpisodes

LEMMA SameEpisodesLatest ==
    ASSUME RowsInv, db' = db, raced \subseteq raced', \A q \in Requests : SameEpisodes(q)
    PROVE  LatestInv'
  BY DEF RowsInv, LatestInv, NotOlder, Shown, Raced, SameEpisodes

\* A device inserted by an upload or by another request.
LEMMA InsertDeviceRows ==
    ASSUME TypeOK, RowsInv, NEW r \in Requests, NEW d \in Missing(r), NEW i \in FreshDevices,
           LookedDevice(r), OthersSame(r), db' = db,
           tx'[r].mine = [Mine(r) EXCEPT !.devices = Put(@, i, d)],
           raced' = IF \E q \in Others(r) : Named(tx[q].mine, d) # {}
                    THEN raced \cup {d} ELSE raced
    PROVE  RowsInv'
  <1>1. /\ db' = db /\ raced \subseteq raced'
        /\ raced' = IF \E q \in Others(r) : Named(Mine(q), d) # {} THEN raced \cup {d} ELSE raced
    BY DEF Mine
  <1>2. \A q \in Requests \ {r} : Mine(q)' = Mine(q)
    BY DEF Mine, OthersSame
  <1>3. Mine(r)' = [Mine(r) EXCEPT !.devices = Put(@, i, d)] /\ Mine(r) \in Tables
    BY TxTyped DEF Mine
  <1>4. /\ Mine(r)'.podcasts = Mine(r).podcasts /\ Mine(r)'.episodes = Mine(r).episodes
        /\ Mine(r)'.hist = Mine(r).hist /\ Mine(r)'.devices = Put(Mine(r).devices, i, d)
    BY <1>3 DEF Tables
  <1>5. /\ DOMAIN Mine(r)'.devices = DOMAIN Mine(r).devices \cup {i}
        /\ \A j \in DOMAIN Mine(r)'.devices :
              Mine(r)'.devices[j] = IF j = i THEN d ELSE Mine(r).devices[j]
    BY <1>4 DEF Put
  <1>6. i \notin DOMAIN db.devices /\ \A q \in Requests : i \notin DOMAIN Mine(q).devices
    BY FreshDeviceUnused
  <1>7. \A q \in Requests :
          /\ Mine(q)'.podcasts = Mine(q).podcasts /\ Mine(q)'.episodes = Mine(q).episodes
          /\ Mine(q)'.hist = Mine(q).hist
          /\ DOMAIN Mine(q).devices \subseteq DOMAIN Mine(q)'.devices
    BY <1>2, <1>4, <1>5
  <1>8. d \notin raced => Named(db, d) = {} /\ Named(Mine(r), d) = {}
    BY DEF LookedDevice
  <1>9. NumbersInv'
    BY <1>1, <1>2, <1>5, <1>6, <1>7 DEF RowsInv, NumbersInv
  <1>10. RefersInv'
    BY <1>1, <1>7 DEF RowsInv, RefersInv, Refers, RowsReferToRows
  <1>11. KeysInv'
    BY <1>1, <1>7 DEF RowsInv, KeysInv, KeyIs
  <1>12. NamesInv'
    <2>1. NamesUniqueUnlessRaced'
      BY <1>1 DEF RowsInv, NamesInv, NamesUniqueUnlessRaced
    <2>2. ASSUME NEW s \in Requests, NEW k \in DOMAIN Mine(s)'.devices,
                 Mine(s)'.devices[k] \notin raced'
          PROVE  /\ Named(db, Mine(s)'.devices[k]) = {}
                 /\ \A q \in Requests : \A j \in DOMAIN Mine(q)'.devices :
                       Mine(q)'.devices[j] = Mine(s)'.devices[k] => q = s /\ j = k
      <3>1. CASE s = r /\ k = i
        <4>1. Mine(s)'.devices[k] = d
          BY <1>5, <3>1
        <4>2. d \notin raced /\ \A q \in Requests \ {r} : Named(Mine(q), d) = {}
          BY <1>1, <2>2, <4>1 DEF Others
        <4>3. QED
          BY <1>2, <1>5, <1>8, <3>1, <4>1, <4>2 DEF Named
      <3>2. CASE ~(s = r /\ k = i)
        <4>1. k \in DOMAIN Mine(s).devices /\ Mine(s)'.devices[k] = Mine(s).devices[k]
          BY <1>2, <1>5, <3>2
        <4>2. Mine(s).devices[k] \notin raced
          BY <1>1, <2>2, <4>1
        <4>3. /\ Named(db, Mine(s).devices[k]) = {}
              /\ \A q \in Requests : \A j \in Named(Mine(q), Mine(s).devices[k]) :
                    q = s /\ j = k
          BY <4>1, <4>2 DEF RowsInv, NamesInv
        <4>4. Mine(s).devices[k] # d
          <5>1. ASSUME Mine(s).devices[k] = d
                PROVE  FALSE
            <6>1. k \in Named(Mine(s), d)
              BY <4>1, <5>1 DEF Named
            <6>2. d \notin raced /\ d \notin raced'
              BY <2>2, <4>1, <4>2, <5>1
            <6>3. s \notin Others(r)
              BY <1>1, <6>1, <6>2
            <6>4. QED
              BY <1>8, <6>1, <6>2, <6>3 DEF Others
          <5>2. QED
            BY <5>1
        <4>5. QED
          BY <1>2, <1>5, <4>1, <4>3, <4>4 DEF Named
      <3>3. QED
        BY <3>1, <3>2
    <2>3. QED
      BY <1>1, <2>1, <2>2 DEF NamesInv, Named
  <1>13. \A q \in Requests : SameEpisodes(q)
    BY <1>7 DEF SameEpisodes
  <1>14. OneRowInv' /\ LatestInv'
    BY <1>1, <1>13, SameEpisodesOneRow, SameEpisodesLatest
  <1>15. QED
    BY <1>9, <1>10, <1>11, <1>12, <1>14 DEF RowsInv

\* The rows before and after WriteEpisode, as the parts of the invariant need them.
WriteFacts(r, a, i, h) ==
    /\ db' = db /\ raced \subseteq raced'
    /\ \A q \in Requests \ {r} : Mine(q)' = Mine(q)
    /\ Mine(r)'.podcasts = Mine(r).podcasts /\ Mine(r)'.devices = Mine(r).devices
    /\ DOMAIN Mine(r)'.episodes = DOMAIN Mine(r).episodes \cup (IF Writes(r) THEN {i} ELSE {})
    /\ \A j \in DOMAIN Mine(r)'.episodes : ~(Writes(r) /\ j = i) =>
          Mine(r)'.episodes[j] = Mine(r).episodes[j]
    /\ Writes(r) =>
          /\ SameKey(Mine(r)'.episodes[i], a) /\ Mine(r)'.episodes[i].ts = a.ts
          /\ Mine(r)'.episodes[i].device \in DOMAIN Mine(r).devices \cup DOMAIN db.devices
          /\ a.podcast \in Mine(r).podcasts \cup db.podcasts
          /\ \A q \in Requests \ {r} : i \notin DOMAIN Mine(q).episodes
    /\ ~Writes(r) => i \in DOMAIN Mine(r).episodes \cup DOMAIN db.episodes
    /\ DOMAIN Mine(r)'.hist = DOMAIN Mine(r).hist \cup {h}
    /\ \A g \in DOMAIN Mine(r)'.hist : g # h => Mine(r)'.hist[g] = Mine(r).hist[g]
    /\ Mine(r)'.hist[h].episode = i /\ Mine(r)'.hist[h].ts = a.ts
    /\ Mine(r)'.hist[h].device \in DOMAIN Mine(r).devices \cup DOMAIN db.devices
    /\ h \notin DOMAIN db.hist /\ \A q \in Requests : h \notin DOMAIN Mine(q).hist
    /\ KeyIs(db.episodes, i, a) /\ KeyIs(Mine(r).episodes, i, a)

\* ... and what is known of an episode that nobody has raced for.
UnracedFacts(r, a, i) ==
    <<a.podcast, a.url>> \notin raced' =>
        /\ \A q \in Requests \ {r} : \A j \in DOMAIN Mine(q).episodes :
              ~SameKey(Mine(q).episodes[j], a)
        /\ \A j \in DOMAIN db.episodes : SameKey(db.episodes[j], a) => j = i
        /\ \A j \in DOMAIN Mine(r).episodes : SameKey(Mine(r).episodes[j], a) => j = i
        /\ i \in DOMAIN Mine(r).episodes =>
              IF Writes(r) THEN Mine(r).episodes[i].ts <= a.ts ELSE a.ts <= Mine(r).episodes[i].ts
        /\ i \in DOMAIN db.episodes \ DOMAIN Mine(r).episodes =>
              IF Writes(r) THEN db.episodes[i].ts <= a.ts ELSE a.ts <= db.episodes[i].ts

LEMMA WriteFactsHold ==
    ASSUME TypeOK, ProgressInv, RowsInv, NEW r \in Requests, Found(r), WriteEpisode(r)
    PROVE  WriteFacts(r, Current(r), NewEpisode(r), NewHist)
  <1> DEFINE a == Current(r)
             i == NewEpisode(r)
             h == NewHist
             row == [episode |-> i, device |-> tx[r].devices[a.device], ts |-> a.ts]
  <1>1. db' = db /\ raced \subseteq raced' /\ \A q \in Requests \ {r} : Mine(q)' = Mine(q)
    BY WriteEpisodeStep DEF OthersSame, Mine
  <1>2. /\ Mine(r)'.podcasts = Mine(r).podcasts /\ Mine(r)'.devices = Mine(r).devices
        /\ Mine(r)'.episodes = IF Writes(r) THEN Put(Mine(r).episodes, i, RowOf(r))
                               ELSE Mine(r).episodes
        /\ Mine(r)'.hist = Put(Mine(r).hist, h, row)
        /\ SameKey(RowOf(r), a) /\ RowOf(r).ts = a.ts
        /\ RowOf(r).device = tx[r].devices[a.device]
        /\ tx[r].found = None => i \in FreshEpisodes
        /\ h \in FreshHist
    BY WriteEpisodeStep
  <1>3. h \notin DOMAIN db.hist /\ \A q \in Requests : h \notin DOMAIN Mine(q).hist
    BY <1>2, FreshHistUnused
  <1>4. tx[r].found = None =>
          i \notin DOMAIN db.episodes /\ \A q \in Requests : i \notin DOMAIN Mine(q).episodes
    BY <1>2, FreshEpisodeUnused
  <1>5. tx[r].found # None => i = tx[r].found
    BY DEF NewEpisode
  <1>6. KeyIs(db.episodes, i, a) /\ KeyIs(Mine(r).episodes, i, a)
    BY <1>4, <1>5 DEF Found, WriteEpisode, KeyIs
  <1>7. RefsFound(r, tx[r].found)
    BY DEF WriteEpisode
  <1>8. tx[r].devices[a.device] \in DOMAIN Mine(r).devices \cup DOMAIN db.devices
    BY <1>7, ViewParts DEF RefsFound
  <1>9. tx[r].found # None => i \in DOMAIN Mine(r).episodes \cup DOMAIN db.episodes
    BY <1>5, <1>7, ViewParts DEF RefsFound
  <1>10. a.podcast \in Mine(r).podcasts \cup db.podcasts
    <2>1. CASE tx[r].found = None
      BY <1>7, <2>1, ViewParts DEF RefsFound
    <2>2. CASE tx[r].found # None
      BY <1>6, <1>9, <2>2 DEF KeyIs, SameKey, RowsInv, RefersInv, Refers, RowsReferToRows
    <2>3. QED
      BY <2>1, <2>2
  <1>11. Writes(r) => \A q \in Requests \ {r} : i \notin DOMAIN Mine(q).episodes
    <2>1. CASE tx[r].found = None
      BY <1>4, <2>1
    <2>2. CASE tx[r].found # None
      BY <1>5, <2>2 DEF WriteEpisode, Writes, Locked, Others, Mine
    <2>3. QED
      BY <2>1, <2>2
  <1>12. /\ DOMAIN Mine(r)'.episodes = DOMAIN Mine(r).episodes \cup (IF Writes(r) THEN {i} ELSE {})
         /\ \A j \in DOMAIN Mine(r)'.episodes : ~(Writes(r) /\ j = i) =>
               Mine(r)'.episodes[j] = Mine(r).episodes[j]
         /\ Writes(r) => Mine(r)'.episodes[i] = RowOf(r)
    <2> HIDE DEF i, h, row, a
    <2>1. CASE Writes(r)
      BY <1>2, <2>1 DEF Put
    <2>2. CASE ~Writes(r)
      BY <1>2, <2>2
    <2>3. QED
      BY <2>1, <2>2
  <1>13. /\ DOMAIN Mine(r)'.hist = DOMAIN Mine(r).hist \cup {h}
         /\ \A g \in DOMAIN Mine(r)'.hist : g # h => Mine(r)'.hist[g] = Mine(r).hist[g]
         /\ Mine(r)'.hist[h] = row
    <2> HIDE DEF i, h, row, a
    <2>1. QED
      BY <1>2 DEF Put
  <1>14. row.episode = i /\ row.ts = a.ts /\ row.device = tx[r].devices[a.device]
    OBVIOUS
  <1>15. ~Writes(r) => tx[r].found # None
    BY DEF Writes
  <1> HIDE DEF a, i, h, row
  <1>16. WriteFacts(r, a, i, h)
    BY <1>1, <1>2, <1>3, <1>6, <1>8, <1>9, <1>10, <1>11, <1>12, <1>13, <1>14, <1>15
       DEF WriteFacts, SameKey
  <1>17. QED
    BY <1>16 DEF a, i, h

LEMMA UnracedFactsHold ==
    ASSUME TypeOK, ProgressInv, RowsInv, NEW r \in Requests, LookedEpisode(r), WriteEpisode(r),
           WriteFacts(r, Current(r), NewEpisode(r), NewHist)
    PROVE  UnracedFacts(r, Current(r), NewEpisode(r))
  <1> DEFINE a == Current(r)
             i == NewEpisode(r)
             key == <<a.podcast, a.url>>
  <1>1. SUFFICES ASSUME key \notin raced'
                 PROVE  /\ \A q \in Requests \ {r} : \A j \in DOMAIN Mine(q).episodes :
                              ~SameKey(Mine(q).episodes[j], a)
                        /\ \A j \in DOMAIN db.episodes : SameKey(db.episodes[j], a) => j = i
                        /\ \A j \in DOMAIN Mine(r).episodes :
                              SameKey(Mine(r).episodes[j], a) => j = i
                        /\ i \in DOMAIN Mine(r).episodes =>
                              IF Writes(r) THEN Mine(r).episodes[i].ts <= a.ts
                              ELSE a.ts <= Mine(r).episodes[i].ts
                        /\ i \in DOMAIN db.episodes \ DOMAIN Mine(r).episodes =>
                              IF Writes(r) THEN db.episodes[i].ts <= a.ts
                              ELSE a.ts <= db.episodes[i].ts
    BY DEF UnracedFacts
  <1>2. ~Racing(r, a) /\ key \notin raced
    BY <1>1, WriteEpisodeStep
  <1>3. \A q \in Requests \ {r} : \A j \in DOMAIN Mine(q).episodes :
          ~SameKey(Mine(q).episodes[j], a)
    BY <1>2 DEF Racing, Others, Matching, SameKey, Mine
  <1>4. /\ tx[r].found = None =>
              Matching(db, a) = {} /\ Matching(Mine(r), a) = {}
        /\ tx[r].found \in DOMAIN Mine(r).episodes =>
              tx[r].was = Mine(r).episodes[tx[r].found].ts
        /\ tx[r].found \in DOMAIN db.episodes \ DOMAIN Mine(r).episodes =>
              tx[r].was = db.episodes[tx[r].found].ts
    BY <1>2 DEF LookedEpisode, WriteEpisode, Raced
  <1>5. a.ts \in Nat /\ tx[r].was \in Nat
    BY WriteEpisodeStep, TxTyped, PgAssumption DEF Upload, TxState
  <1>6. CASE tx[r].found = None
    <2>1. \A j \in DOMAIN db.episodes : ~SameKey(db.episodes[j], a)
      BY <1>4, <1>6 DEF Matching, SameKey
    <2>2. \A j \in DOMAIN Mine(r).episodes : ~SameKey(Mine(r).episodes[j], a)
      BY <1>4, <1>6 DEF Matching, SameKey
    <2>3. i \notin DOMAIN db.episodes \cup DOMAIN Mine(r).episodes
      BY <2>1, <2>2 DEF WriteFacts, KeyIs
    <2>4. QED
      BY <1>3, <2>1, <2>2, <2>3
  <1>7. CASE tx[r].found # None
    <2>1. i = tx[r].found
      BY <1>7 DEF NewEpisode
    <2>2. i \in DOMAIN Mine(r).episodes \cup DOMAIN db.episodes
      BY <1>7, <2>1, ViewParts DEF WriteEpisode, RefsFound
    <2>3. Writes(r) <=> tx[r].was < a.ts
      BY <1>7 DEF Writes
    <2>4. KeyIs(db.episodes, i, a) /\ KeyIs(Mine(r).episodes, i, a)
      BY DEF WriteFacts
    <2>5. CASE i \in DOMAIN Mine(r).episodes
      <3>1. SameKey(Mine(r).episodes[i], a) /\ ~Raced(Mine(r).episodes[i])
        BY <1>2, <2>4, <2>5 DEF KeyIs, SameKey, Raced
      <3>2. /\ \A j \in DOMAIN db.episodes :
                  SameKey(db.episodes[j], Mine(r).episodes[i]) => i = j
            /\ \A j \in DOMAIN Mine(r).episodes :
                  SameKey(Mine(r).episodes[j], Mine(r).episodes[i]) => j = i
        BY <2>5, <3>1 DEF RowsInv, OneRowInv
      <3>3. /\ \A j \in DOMAIN db.episodes : SameKey(db.episodes[j], a) => j = i
            /\ \A j \in DOMAIN Mine(r).episodes : SameKey(Mine(r).episodes[j], a) => j = i
        BY <3>1, <3>2 DEF SameKey
      <3>4. QED
        BY <1>3, <1>4, <1>5, <2>1, <2>3, <2>5, <3>3
    <2>6. CASE i \notin DOMAIN Mine(r).episodes
      <3>1. i \in DOMAIN db.episodes
        BY <2>2, <2>6
      <3>2. SameKey(db.episodes[i], a) /\ ~Raced(db.episodes[i])
        BY <1>2, <2>4, <3>1 DEF KeyIs, SameKey, Raced
      <3>3. \A j \in DOMAIN db.episodes : SameKey(db.episodes[j], a) => j = i
        BY <3>1, <3>2 DEF RowsInv, OneRowInv, SameKey
      <3>4. ASSUME NEW j \in DOMAIN Mine(r).episodes, SameKey(Mine(r).episodes[j], a)
            PROVE  j = i
        <4>1. ~Raced(Mine(r).episodes[j]) /\ SameKey(db.episodes[i], Mine(r).episodes[j])
          BY <1>2, <3>2, <3>4 DEF SameKey, Raced
        <4>2. QED
          BY <3>1, <4>1 DEF RowsInv, OneRowInv
      <3>5. QED
        BY <1>3, <1>4, <1>5, <2>1, <2>3, <2>6, <3>1, <3>3, <3>4
    <2>7. QED
      BY <2>5, <2>6
  <1>8. QED
    BY <1>6, <1>7

\* The dates of rows are numbers.
LEMMA DatesTyped ==
    ASSUME TypeOK
    PROVE  /\ \A i \in DOMAIN db.episodes : db.episodes[i].ts \in Nat
           /\ \A h \in DOMAIN db.hist : db.hist[h].ts \in Nat
           /\ \A q \in Requests :
                 /\ \A i \in DOMAIN Mine(q).episodes : Mine(q).episodes[i].ts \in Nat
                 /\ \A h \in DOMAIN Mine(q).hist : Mine(q).hist[h].ts \in Nat
  <1>1. ASSUME NEW t \in Tables
        PROVE  /\ \A i \in DOMAIN t.episodes : t.episodes[i].ts \in Nat
               /\ \A h \in DOMAIN t.hist : t.hist[h].ts \in Nat
    <2>1. t.episodes \in TableOf(EpisodeIds, EpisodeRow) /\ t.hist \in TableOf(HistIds, HistRow)
      BY DEF Tables
    <2>2. /\ \A i \in DOMAIN t.episodes : t.episodes[i] \in EpisodeRow
          /\ \A h \in DOMAIN t.hist : t.hist[h] \in HistRow
      BY <2>1, TableOfDomain
    <2>3. QED
      BY <2>2, PgAssumption DEF EpisodeRow, HistRow
  <1>2. db \in Tables /\ \A q \in Requests : Mine(q) \in Tables
    BY TxTyped DEF TypeOK
  <1>3. QED
    BY <1>1, <1>2

LEMMA WriteEpisodeOneRow ==
    ASSUME RowsInv, NEW r \in Requests, NEW a \in Upload, NEW i, NEW h,
           WriteFacts(r, a, i, h), UnracedFacts(r, a, i)
    PROVE  OneRowInv'
  <1>1. \A k, j \in DOMAIN db'.episodes :
          SameKey(db'.episodes[k], db'.episodes[j])
          /\ <<db'.episodes[k].podcast, db'.episodes[k].url>> \notin raced' => k = j
    BY DEF RowsInv, OneRowInv, Raced, WriteFacts
  <1>2. ASSUME NEW s \in Requests, NEW k \in DOMAIN Mine(s)'.episodes,
               <<Mine(s)'.episodes[k].podcast, Mine(s)'.episodes[k].url>> \notin raced'
        PROVE  /\ \A j \in DOMAIN db'.episodes :
                     SameKey(db'.episodes[j], Mine(s)'.episodes[k]) => k = j
               /\ \A q \in Requests : \A j \in DOMAIN Mine(q)'.episodes :
                     SameKey(Mine(q)'.episodes[j], Mine(s)'.episodes[k]) => q = s /\ j = k
    <2>1. CASE s = r /\ Writes(r) /\ k = i
      <3>1. SameKey(Mine(s)'.episodes[k], a) /\ <<a.podcast, a.url>> \notin raced'
        BY <1>2, <2>1 DEF WriteFacts, SameKey
      <3>2. \A j \in DOMAIN db'.episodes : SameKey(db'.episodes[j], a) => k = j
        BY <2>1, <3>1 DEF WriteFacts, UnracedFacts
      <3>3. ASSUME NEW q \in Requests, NEW j \in DOMAIN Mine(q)'.episodes,
                   SameKey(Mine(q)'.episodes[j], a)
            PROVE  q = s /\ j = k
        <4>1. CASE q = r /\ j = i
          BY <2>1, <4>1
        <4>2. CASE ~(q = r /\ j = i)
          <5>1. j \in DOMAIN Mine(q).episodes /\ Mine(q)'.episodes[j] = Mine(q).episodes[j]
            BY <3>3, <4>2 DEF WriteFacts
          <5>2. QED
            BY <2>1, <3>1, <3>3, <4>2, <5>1 DEF UnracedFacts
        <4>3. QED
          BY <4>1, <4>2
      <3>4. QED
        BY <3>1, <3>2, <3>3 DEF SameKey
    <2>2. CASE ~(s = r /\ Writes(r) /\ k = i)
      <3>1. k \in DOMAIN Mine(s).episodes /\ Mine(s)'.episodes[k] = Mine(s).episodes[k]
        BY <1>2, <2>2 DEF WriteFacts
      <3>2. ~Raced(Mine(s).episodes[k]) /\ db' = db
        BY <1>2, <3>1 DEF WriteFacts, Raced
      <3>3. /\ \A j \in DOMAIN db.episodes :
                  SameKey(db.episodes[j], Mine(s).episodes[k]) => k = j
            /\ \A q \in Requests : \A j \in DOMAIN Mine(q).episodes :
                  SameKey(Mine(q).episodes[j], Mine(s).episodes[k]) => q = s /\ j = k
        BY <3>1, <3>2 DEF RowsInv, OneRowInv
      <3>4. ASSUME NEW q \in Requests, NEW j \in DOMAIN Mine(q)'.episodes,
                   SameKey(Mine(q)'.episodes[j], Mine(s).episodes[k])
            PROVE  q = s /\ j = k
        <4>1. CASE q = r /\ Writes(r) /\ j = i
          <5>1. SameKey(Mine(s).episodes[k], a) /\ <<a.podcast, a.url>> \notin raced'
            BY <1>2, <3>1, <3>4, <4>1 DEF WriteFacts, SameKey
          <5>2. QED
            BY <2>2, <3>1, <4>1, <5>1 DEF UnracedFacts
        <4>2. CASE ~(q = r /\ Writes(r) /\ j = i)
          <5>1. j \in DOMAIN Mine(q).episodes /\ Mine(q)'.episodes[j] = Mine(q).episodes[j]
            BY <3>4, <4>2 DEF WriteFacts
          <5>2. QED
            BY <3>3, <3>4, <5>1
        <4>3. QED
          BY <4>1, <4>2
      <3>5. QED
        BY <3>1, <3>2, <3>3, <3>4
    <2>3. QED
      BY <2>1, <2>2
  <1>3. QED
    BY <1>1, <1>2 DEF OneRowInv, Raced

LEMMA WriteEpisodeLatest ==
    ASSUME TypeOK, RowsInv, NEW r \in Requests, NEW a \in Upload, NEW i, NEW h,
           WriteFacts(r, a, i, h), UnracedFacts(r, a, i)
    PROVE  LatestInv'
  <1> DEFINE unraced(row) == <<row.podcast, row.url>> \notin raced'
  <1>1. db' = db /\ a.ts \in Nat
    BY PgAssumption DEF WriteFacts, Upload
  <1>2. \A row : unraced(row) => ~Raced(row)
    BY DEF WriteFacts, Raced
  <1>3. /\ \A k \in DOMAIN db.episodes : db.episodes[k].ts \in Nat
        /\ \A k \in DOMAIN Mine(r).episodes : Mine(r).episodes[k].ts \in Nat
        /\ \A g \in DOMAIN Mine(r).hist : Mine(r).hist[g].ts \in Nat
    BY DatesTyped
  <1>4. \A row : SameKey(row, a) /\ unraced(row) => <<a.podcast, a.url>> \notin raced'
    BY DEF SameKey
  <1>5. \A k \in DOMAIN db'.episodes :
          NotOlder(db.episodes, k, db.hist)' /\ Shown(db.episodes, k, db.hist)'
    BY <1>1, <1>2 DEF RowsInv, LatestInv, NotOlder, Shown, Raced
  <1>6. ASSUME NEW s \in Requests \ {r}
        PROVE  /\ \A k \in EpisodeIds :
                     /\ NotOlder(Mine(s).episodes, k, Mine(s).hist)'
                     /\ k \notin DOMAIN Mine(s)'.episodes =>
                           NotOlder(db.episodes, k, Mine(s).hist)'
               /\ \A k \in DOMAIN Mine(s)'.episodes :
                     /\ Shown(Mine(s).episodes, k, Mine(s).hist)'
                     /\ unraced(Mine(s)'.episodes[k]) /\ k \in DOMAIN db'.episodes =>
                           db'.episodes[k].ts <= Mine(s)'.episodes[k].ts
    <2>1. Mine(s)' = Mine(s)
      BY DEF WriteFacts
    <2>2. QED
      BY <1>1, <1>2, <2>1 DEF RowsInv, LatestInv, NotOlder, Shown, Raced
  <1>7. ASSUME NEW g \in DOMAIN Mine(r).hist, Mine(r).hist[g].episode = i, Writes(r),
               <<a.podcast, a.url>> \notin raced', i \in EpisodeIds
        PROVE  Mine(r).hist[g].ts <= a.ts
    <2>1. i \in DOMAIN Mine(r).episodes \cup DOMAIN db.episodes
      BY <1>7 DEF RowsInv, RefersInv, Refers
    <2>2. /\ i \in DOMAIN db.episodes => ~Raced(db.episodes[i])
          /\ i \in DOMAIN Mine(r).episodes => ~Raced(Mine(r).episodes[i])
      BY <1>7 DEF WriteFacts, KeyIs, SameKey, Raced
    <2>3. CASE i \in DOMAIN Mine(r).episodes
      <3>1. Mine(r).hist[g].ts <= Mine(r).episodes[i].ts
        BY <1>7, <2>2, <2>3 DEF RowsInv, LatestInv, NotOlder
      <3>2. Mine(r).episodes[i].ts <= a.ts
        BY <1>7, <2>3 DEF UnracedFacts
      <3>3. QED
        BY <1>1, <1>3, <2>3, <3>1, <3>2
    <2>4. CASE i \notin DOMAIN Mine(r).episodes
      <3>1. Mine(r).hist[g].ts <= db.episodes[i].ts
        BY <1>7, <2>1, <2>2, <2>4 DEF RowsInv, LatestInv, NotOlder
      <3>2. db.episodes[i].ts <= a.ts
        BY <1>7, <2>1, <2>4 DEF UnracedFacts
      <3>3. QED
        BY <1>1, <1>3, <2>1, <2>4, <3>1, <3>2
    <2>5. QED
      BY <2>3, <2>4
  <1>8. ASSUME NEW k \in EpisodeIds, k \in DOMAIN Mine(r)'.episodes,
               unraced(Mine(r)'.episodes[k]), NEW g \in DOMAIN Mine(r)'.hist,
               Mine(r)'.hist[g].episode = k
        PROVE  Mine(r)'.hist[g].ts <= Mine(r)'.episodes[k].ts
    <2>1. CASE Writes(r) /\ k = i
      <3>1. <<a.podcast, a.url>> \notin raced' /\ Mine(r)'.episodes[k].ts = a.ts
        BY <1>4, <1>8, <2>1 DEF WriteFacts
      <3>2. CASE g = h
        BY <1>1, <3>1, <3>2 DEF WriteFacts
      <3>3. CASE g # h
        BY <1>7, <1>8, <2>1, <3>1, <3>3 DEF WriteFacts
      <3>4. QED
        BY <3>2, <3>3
    <2>2. CASE ~(Writes(r) /\ k = i)
      <3>1. k \in DOMAIN Mine(r).episodes /\ Mine(r)'.episodes[k] = Mine(r).episodes[k]
        BY <1>8, <2>2 DEF WriteFacts
      <3>2. CASE g = h
        <4>1. k = i /\ ~Writes(r) /\ Mine(r)'.hist[g].ts = a.ts
          BY <1>8, <2>2, <3>2 DEF WriteFacts
        <4>2. <<a.podcast, a.url>> \notin raced'
          BY <1>4, <1>8, <3>1, <4>1 DEF WriteFacts, KeyIs
        <4>3. QED
          BY <3>1, <4>1, <4>2 DEF UnracedFacts
      <3>3. CASE g # h
        <4>1. g \in DOMAIN Mine(r).hist /\ Mine(r)'.hist[g] = Mine(r).hist[g]
          BY <3>3, <1>8 DEF WriteFacts
        <4>2. ~Raced(Mine(r).episodes[k])
          BY <1>2, <1>8, <3>1
        <4>3. QED
          BY <1>8, <3>1, <4>1, <4>2 DEF RowsInv, LatestInv, NotOlder
      <3>4. QED
        BY <3>2, <3>3
    <2>3. QED
      BY <2>1, <2>2
  <1>9. ASSUME NEW k \in EpisodeIds, k \notin DOMAIN Mine(r)'.episodes, k \in DOMAIN db.episodes,
               unraced(db.episodes[k]), NEW g \in DOMAIN Mine(r)'.hist,
               Mine(r)'.hist[g].episode = k
        PROVE  Mine(r)'.hist[g].ts <= db.episodes[k].ts
    <2>1. k \notin DOMAIN Mine(r).episodes /\ ~(Writes(r) /\ k = i)
      BY <1>9 DEF WriteFacts
    <2>2. CASE g = h
      <3>1. k = i /\ ~Writes(r) /\ Mine(r)'.hist[g].ts = a.ts
        BY <1>9, <2>1, <2>2 DEF WriteFacts
      <3>2. <<a.podcast, a.url>> \notin raced'
        BY <1>4, <1>9, <3>1 DEF WriteFacts, KeyIs
      <3>3. QED
        BY <1>9, <2>1, <3>1, <3>2 DEF UnracedFacts
    <2>3. CASE g # h
      <3>1. g \in DOMAIN Mine(r).hist /\ Mine(r)'.hist[g] = Mine(r).hist[g]
        BY <1>9, <2>3 DEF WriteFacts
      <3>2. QED
        BY <1>2, <1>9, <2>1, <3>1 DEF RowsInv, LatestInv, NotOlder
    <2>4. QED
      BY <2>2, <2>3
  <1>10. ASSUME NEW k \in DOMAIN Mine(r)'.episodes, unraced(Mine(r)'.episodes[k])
         PROVE  /\ \E g \in DOMAIN Mine(r)'.hist :
                      Mine(r)'.hist[g].episode = k /\ Mine(r)'.hist[g].ts = Mine(r)'.episodes[k].ts
                /\ k \in DOMAIN db.episodes => db.episodes[k].ts <= Mine(r)'.episodes[k].ts
    <2>1. CASE Writes(r) /\ k = i
      <3>1. <<a.podcast, a.url>> \notin raced' /\ Mine(r)'.episodes[k].ts = a.ts
        BY <1>4, <1>10, <2>1 DEF WriteFacts
      <3>2. h \in DOMAIN Mine(r)'.hist /\ Mine(r)'.hist[h].episode = k /\ Mine(r)'.hist[h].ts = a.ts
        BY <2>1 DEF WriteFacts
      <3>3. ASSUME k \in DOMAIN db.episodes
            PROVE  db.episodes[k].ts <= a.ts
        <4>1. CASE k \in DOMAIN Mine(r).episodes
          <5>1. ~Raced(Mine(r).episodes[k])
            BY <2>1, <3>1, <4>1 DEF WriteFacts, KeyIs, SameKey, Raced
          <5>2. db.episodes[k].ts <= Mine(r).episodes[k].ts
            BY <3>3, <4>1, <5>1 DEF RowsInv, LatestInv
          <5>3. Mine(r).episodes[k].ts <= a.ts
            BY <2>1, <3>1, <4>1 DEF UnracedFacts
          <5>4. QED
            BY <1>1, <1>3, <3>3, <4>1, <5>2, <5>3
        <4>2. CASE k \notin DOMAIN Mine(r).episodes
          BY <2>1, <3>1, <3>3, <4>2 DEF UnracedFacts
        <4>3. QED
          BY <4>1, <4>2
      <3>4. QED
        BY <3>1, <3>2, <3>3
    <2>2. CASE ~(Writes(r) /\ k = i)
      <3>1. k \in DOMAIN Mine(r).episodes /\ Mine(r)'.episodes[k] = Mine(r).episodes[k]
        BY <1>10, <2>2 DEF WriteFacts
      <3>2. ~Raced(Mine(r).episodes[k])
        BY <1>2, <1>10, <3>1
      <3>3. \A g \in DOMAIN Mine(r).hist :
              g \in DOMAIN Mine(r)'.hist /\ Mine(r)'.hist[g] = Mine(r).hist[g]
        BY DEF WriteFacts
      <3>4. QED
        BY <3>1, <3>2, <3>3 DEF RowsInv, LatestInv, Shown
    <2>3. QED
      BY <2>1, <2>2
  <1>11. \A k \in EpisodeIds :
           /\ NotOlder(Mine(r).episodes, k, Mine(r).hist)'
           /\ k \notin DOMAIN Mine(r)'.episodes => NotOlder(db.episodes, k, Mine(r).hist)'
    BY <1>1, <1>8, <1>9 DEF NotOlder, Raced
  <1>12. \A k \in DOMAIN Mine(r)'.episodes :
           /\ Shown(Mine(r).episodes, k, Mine(r).hist)'
           /\ unraced(Mine(r)'.episodes[k]) /\ k \in DOMAIN db'.episodes =>
                 db'.episodes[k].ts <= Mine(r)'.episodes[k].ts
    BY <1>1, <1>10 DEF Shown, Raced
  <1>13. QED
    BY <1>5, <1>6, <1>11, <1>12 DEF LatestInv, Raced

LEMMA WriteEpisodeRows ==
    ASSUME TypeOK, RowsInv, NEW r \in Requests, NEW a \in Upload, NEW i, NEW h,
           WriteFacts(r, a, i, h), UnracedFacts(r, a, i)
    PROVE  RowsInv'
  <1>1. NumbersInv'
    BY DEF RowsInv, NumbersInv, WriteFacts
  <1>2. RefersInv'
    <2>1. RowsReferToRows' /\ \A q \in Requests \ {r} : Refers(Mine(q))'
      BY DEF RowsInv, RefersInv, Refers, RowsReferToRows, WriteFacts
    <2>2. Refers(Mine(r))'
      BY DEF RowsInv, RefersInv, Refers, WriteFacts, SameKey
    <2>3. QED
      BY <2>1, <2>2 DEF RefersInv
  <1>3. KeysInv'
    BY DEF RowsInv, KeysInv, KeyIs, SameKey, WriteFacts
  <1>4. NamesInv'
    BY DEF RowsInv, NamesInv, NamesUniqueUnlessRaced, Named, WriteFacts
  <1>5. OneRowInv' /\ LatestInv'
    BY WriteEpisodeOneRow, WriteEpisodeLatest
  <1>6. QED
    BY <1>1, <1>2, <1>3, <1>4, <1>5 DEF RowsInv

\* The rows before and after Commit.
CommitFacts(r) ==
    /\ raced \subseteq raced'
    /\ Empty(Mine(r)') /\ \A q \in Requests \ {r} : Mine(q)' = Mine(q)
    /\ db'.podcasts = db.podcasts \cup Mine(r).podcasts
    /\ DOMAIN db'.devices = DOMAIN db.devices \cup DOMAIN Mine(r).devices
    /\ \A i \in DOMAIN db'.devices : db'.devices[i] =
          IF i \in DOMAIN Mine(r).devices THEN Mine(r).devices[i] ELSE db.devices[i]
    /\ DOMAIN db'.episodes = DOMAIN db.episodes \cup DOMAIN Mine(r).episodes
    /\ \A i \in DOMAIN db'.episodes : db'.episodes[i] =
          IF i \in DOMAIN Mine(r).episodes THEN Mine(r).episodes[i] ELSE db.episodes[i]
    /\ DOMAIN db'.hist = DOMAIN db.hist \cup DOMAIN Mine(r).hist
    /\ \A h \in DOMAIN db'.hist : db'.hist[h] =
          IF h \in DOMAIN Mine(r).hist THEN Mine(r).hist[h] ELSE db.hist[h]

LEMMA CommitFactsHold ==
    ASSUME TypeOK, ProgressInv, NEW r \in Requests, Commit(r)
    PROVE  CommitFacts(r)
  <1>1. /\ DOMAIN db'.devices = DOMAIN db.devices \cup DOMAIN Mine(r).devices
        /\ \A i \in DOMAIN db'.devices : db'.devices[i] =
              IF i \in DOMAIN Mine(r).devices THEN Mine(r).devices[i] ELSE db.devices[i]
    <2>1. db'.devices = Over(db.devices, Mine(r).devices)
      BY CommitStep
    <2>2. QED
      BY <2>1 DEF Over
  <1>2. /\ DOMAIN db'.episodes = DOMAIN db.episodes \cup DOMAIN Mine(r).episodes
        /\ \A i \in DOMAIN db'.episodes : db'.episodes[i] =
              IF i \in DOMAIN Mine(r).episodes THEN Mine(r).episodes[i] ELSE db.episodes[i]
    <2>1. db'.episodes = Over(db.episodes, Mine(r).episodes)
      BY CommitStep
    <2>2. QED
      BY <2>1 DEF Over
  <1>3. /\ DOMAIN db'.hist = DOMAIN db.hist \cup DOMAIN Mine(r).hist
        /\ \A h \in DOMAIN db'.hist : db'.hist[h] =
              IF h \in DOMAIN Mine(r).hist THEN Mine(r).hist[h] ELSE db.hist[h]
    <2>1. db'.hist = Over(db.hist, Mine(r).hist)
      BY CommitStep
    <2>2. QED
      BY <2>1 DEF Over
  <1>4. /\ raced \subseteq raced' /\ Mine(r)' = NoRows
        /\ \A q \in Requests \ {r} : Mine(q)' = Mine(q)
        /\ db'.podcasts = db.podcasts \cup Mine(r).podcasts
    BY CommitStep DEF OthersSame, Mine, NoTx
  <1>5. QED
    BY <1>1, <1>2, <1>3, <1>4, NoRowsEmpty DEF CommitFacts

LEMMA CommitLatest ==
    ASSUME TypeOK, RowsInv, NEW r \in Requests, CommitFacts(r)
    PROVE  LatestInv'
  <1> DEFINE unraced(row) == <<row.podcast, row.url>> \notin raced'
  <1>1. \A row : unraced(row) => ~Raced(row)
    BY DEF CommitFacts, Raced
  <1>2. /\ \A k \in DOMAIN db.episodes : db.episodes[k].ts \in Nat
        /\ \A k \in DOMAIN Mine(r).episodes : Mine(r).episodes[k].ts \in Nat
        /\ \A g \in DOMAIN db.hist : db.hist[g].ts \in Nat
        /\ \A q \in Requests : \A g \in DOMAIN Mine(q).hist : Mine(q).hist[g].ts \in Nat
    BY DatesTyped
  <1>3. /\ DOMAIN db.episodes \subseteq EpisodeIds
        /\ \A q \in Requests : DOMAIN Mine(q).episodes \subseteq EpisodeIds
    BY TxTyped, TableOfDomain DEF TypeOK, Tables
  <1>4. ASSUME NEW k \in DOMAIN db.episodes, k \in DOMAIN Mine(r).episodes,
               unraced(Mine(r).episodes[k])
        PROVE  ~Raced(db.episodes[k]) /\ db.episodes[k].ts <= Mine(r).episodes[k].ts
    <2>1. ~Raced(Mine(r).episodes[k])
      BY <1>1, <1>4
    <2>2. ~Raced(db.episodes[k])
      BY <1>4, <2>1 DEF RowsInv, KeysInv, KeyIs, SameKey, Raced
    <2>3. QED
      BY <1>4, <2>1, <2>2 DEF RowsInv, LatestInv
  <1>5. ASSUME NEW k \in DOMAIN db'.episodes, unraced(db'.episodes[k]),
               NEW g \in DOMAIN db'.hist, db'.hist[g].episode = k
        PROVE  db'.hist[g].ts <= db'.episodes[k].ts
    <2>1. CASE k \in DOMAIN Mine(r).episodes /\ g \in DOMAIN Mine(r).hist
      <3>1. db'.episodes[k] = Mine(r).episodes[k] /\ db'.hist[g] = Mine(r).hist[g]
        BY <2>1, <1>5 DEF CommitFacts
      <3>2. QED
        BY <1>1, <1>3, <1>5, <2>1, <3>1 DEF RowsInv, LatestInv, NotOlder
    <2>2. CASE k \in DOMAIN Mine(r).episodes /\ g \notin DOMAIN Mine(r).hist
      <3>1. /\ db'.episodes[k] = Mine(r).episodes[k]
            /\ g \in DOMAIN db.hist /\ db'.hist[g] = db.hist[g]
        BY <2>2, <1>5 DEF CommitFacts
      <3>2. k \in DOMAIN db.episodes
        BY <1>5, <3>1 DEF RowsInv, RefersInv, RowsReferToRows
      <3>3. ~Raced(db.episodes[k]) /\ db.episodes[k].ts <= Mine(r).episodes[k].ts
        BY <1>4, <1>5, <2>2, <3>1, <3>2
      <3>4. db.hist[g].ts <= db.episodes[k].ts
        BY <1>5, <3>1, <3>2, <3>3 DEF RowsInv, LatestInv, NotOlder
      <3>5. QED
        BY <1>2, <2>2, <3>1, <3>2, <3>3, <3>4
    <2>3. CASE k \notin DOMAIN Mine(r).episodes
      <3>1. k \in DOMAIN db.episodes /\ db'.episodes[k] = db.episodes[k] /\ ~Raced(db.episodes[k])
        BY <1>1, <1>5, <2>3 DEF CommitFacts
      <3>2. CASE g \in DOMAIN Mine(r).hist
        <4>1. db'.hist[g] = Mine(r).hist[g]
          BY <1>5, <3>2 DEF CommitFacts
        <4>2. QED
          BY <1>3, <1>5, <2>3, <3>1, <3>2, <4>1 DEF RowsInv, LatestInv, NotOlder
      <3>3. CASE g \notin DOMAIN Mine(r).hist
        <4>1. g \in DOMAIN db.hist /\ db'.hist[g] = db.hist[g]
          BY <1>5, <3>3 DEF CommitFacts
        <4>2. QED
          BY <1>5, <3>1, <4>1 DEF RowsInv, LatestInv, NotOlder
      <3>4. QED
        BY <3>2, <3>3
    <2>4. QED
      BY <2>1, <2>2, <2>3
  <1>6. ASSUME NEW k \in DOMAIN db'.episodes, unraced(db'.episodes[k])
        PROVE  \E g \in DOMAIN db'.hist :
                  db'.hist[g].episode = k /\ db'.hist[g].ts = db'.episodes[k].ts
    <2>1. CASE k \in DOMAIN Mine(r).episodes
      <3>1. db'.episodes[k] = Mine(r).episodes[k] /\ ~Raced(Mine(r).episodes[k])
        BY <1>1, <1>6, <2>1 DEF CommitFacts
      <3>2. PICK g \in DOMAIN Mine(r).hist :
              Mine(r).hist[g].episode = k /\ Mine(r).hist[g].ts = Mine(r).episodes[k].ts
        BY <2>1, <3>1 DEF RowsInv, LatestInv, Shown
      <3>3. g \in DOMAIN db'.hist /\ db'.hist[g] = Mine(r).hist[g]
        BY DEF CommitFacts
      <3>4. QED
        BY <3>1, <3>2, <3>3
    <2>2. CASE k \notin DOMAIN Mine(r).episodes
      <3>1. k \in DOMAIN db.episodes /\ db'.episodes[k] = db.episodes[k] /\ ~Raced(db.episodes[k])
        BY <1>1, <1>6, <2>2 DEF CommitFacts
      <3>2. PICK g \in DOMAIN db.hist :
              db.hist[g].episode = k /\ db.hist[g].ts = db.episodes[k].ts
        BY <3>1 DEF RowsInv, LatestInv, Shown
      <3>3. g \notin DOMAIN Mine(r).hist
        BY DEF RowsInv, NumbersInv
      <3>4. g \in DOMAIN db'.hist /\ db'.hist[g] = db.hist[g]
        BY <3>3 DEF CommitFacts
      <3>5. QED
        BY <3>1, <3>2, <3>4
    <2>3. QED
      BY <2>1, <2>2
  <1>7. ASSUME NEW q \in Requests \ {r}, NEW k \in EpisodeIds, k \notin DOMAIN Mine(q).episodes,
               k \in DOMAIN db'.episodes, unraced(db'.episodes[k]),
               NEW g \in DOMAIN Mine(q).hist, Mine(q).hist[g].episode = k
        PROVE  Mine(q).hist[g].ts <= db'.episodes[k].ts
    <2>1. k \in DOMAIN db.episodes
      BY <1>7 DEF RowsInv, RefersInv, Refers
    <2>2. CASE k \in DOMAIN Mine(r).episodes
      <3>1. db'.episodes[k] = Mine(r).episodes[k]
        BY <1>7, <2>2 DEF CommitFacts
      <3>2. ~Raced(db.episodes[k]) /\ db.episodes[k].ts <= Mine(r).episodes[k].ts
        BY <1>4, <1>7, <2>1, <2>2, <3>1
      <3>3. Mine(q).hist[g].ts <= db.episodes[k].ts
        BY <1>7, <2>1, <3>2 DEF RowsInv, LatestInv, NotOlder
      <3>4. QED
        BY <1>2, <2>1, <2>2, <3>1, <3>2, <3>3
    <2>3. CASE k \notin DOMAIN Mine(r).episodes
      <3>1. db'.episodes[k] = db.episodes[k] /\ ~Raced(db.episodes[k])
        BY <1>1, <1>7, <2>3 DEF CommitFacts
      <3>2. QED
        BY <1>7, <2>1, <3>1 DEF RowsInv, LatestInv, NotOlder
    <2>4. QED
      BY <2>2, <2>3
  <1>8. \A k \in DOMAIN db'.episodes :
          NotOlder(db.episodes, k, db.hist)' /\ Shown(db.episodes, k, db.hist)'
    BY <1>5, <1>6 DEF NotOlder, Shown, Raced
  <1>9. \A q \in Requests : \A k \in EpisodeIds :
          /\ NotOlder(Mine(q).episodes, k, Mine(q).hist)'
          /\ k \notin DOMAIN Mine(q)'.episodes => NotOlder(db.episodes, k, Mine(q).hist)'
    <2>1. ASSUME NEW q \in Requests \ {r}, NEW k \in EpisodeIds
          PROVE  /\ NotOlder(Mine(q).episodes, k, Mine(q).hist)'
                 /\ k \notin DOMAIN Mine(q)'.episodes =>
                       NotOlder(db.episodes, k, Mine(q).hist)'
      <3>1. Mine(q)' = Mine(q)
        BY DEF CommitFacts
      <3>2. NotOlder(Mine(q).episodes, k, Mine(q).hist)'
        BY <1>1, <3>1 DEF RowsInv, LatestInv, NotOlder, Raced
      <3>3. k \notin DOMAIN Mine(q)'.episodes => NotOlder(db.episodes, k, Mine(q).hist)'
        BY <1>7, <3>1 DEF NotOlder, Raced
      <3>4. QED
        BY <3>2, <3>3
    <2>2. \A k \in EpisodeIds :
            /\ NotOlder(Mine(r).episodes, k, Mine(r).hist)'
            /\ k \notin DOMAIN Mine(r)'.episodes => NotOlder(db.episodes, k, Mine(r).hist)'
      BY DEF CommitFacts, Empty, NotOlder
    <2>3. QED
      BY <2>1, <2>2
  <1>10. \A q \in Requests : \A k \in DOMAIN Mine(q)'.episodes :
           /\ Shown(Mine(q).episodes, k, Mine(q).hist)'
           /\ unraced(Mine(q)'.episodes[k]) /\ k \in DOMAIN db'.episodes =>
                 db'.episodes[k].ts <= Mine(q)'.episodes[k].ts
    <2>1. ASSUME NEW q \in Requests, NEW k \in DOMAIN Mine(q)'.episodes
          PROVE  /\ Shown(Mine(q).episodes, k, Mine(q).hist)'
                 /\ unraced(Mine(q)'.episodes[k]) /\ k \in DOMAIN db'.episodes =>
                       db'.episodes[k].ts <= Mine(q)'.episodes[k].ts
      <3>1. q # r /\ Mine(q)' = Mine(q)
        BY <2>1 DEF CommitFacts, Empty
      <3>2. Shown(Mine(q).episodes, k, Mine(q).hist)'
        BY <1>1, <3>1 DEF RowsInv, LatestInv, Shown, Raced
      <3>3. k \notin DOMAIN Mine(r).episodes
        BY <3>1 DEF RowsInv, NumbersInv
      <3>4. unraced(Mine(q)'.episodes[k]) /\ k \in DOMAIN db'.episodes =>
               db'.episodes[k].ts <= Mine(q)'.episodes[k].ts
        BY <1>1, <3>1, <3>3 DEF RowsInv, LatestInv, CommitFacts
      <3>5. QED
        BY <3>2, <3>4
    <2>2. QED
      BY <2>1
  <1>11. QED
    BY <1>8, <1>9, <1>10 DEF LatestInv, Raced

LEMMA CommitRows ==
    ASSUME TypeOK, RowsInv, NEW r \in Requests, CommitFacts(r)
    PROVE  RowsInv'
  <1>1. NumbersInv'
    BY DEF RowsInv, NumbersInv, CommitFacts, Empty
  <1>2. RefersInv'
    <2>1. RowsReferToRows'
      BY DEF RowsInv, RefersInv, Refers, RowsReferToRows, CommitFacts
    <2>2. ASSUME NEW q \in Requests
          PROVE  Refers(Mine(q))'
      <3>1. CASE q = r
        BY <3>1 DEF Refers, CommitFacts, Empty
      <3>2. CASE q # r
        BY <3>2 DEF RowsInv, RefersInv, Refers, CommitFacts
      <3>3. QED
        BY <3>1, <3>2
    <2>3. QED
      BY <2>1, <2>2 DEF RefersInv
  <1>3. KeysInv'
    BY DEF RowsInv, KeysInv, KeyIs, NumbersInv, CommitFacts, Empty
  <1>4. NamesInv'
    <2>1. NamesUniqueUnlessRaced'
      <3>1. SUFFICES ASSUME NEW i \in DOMAIN db'.devices, NEW j \in DOMAIN db'.devices,
                            db'.devices[i] = db'.devices[j], db'.devices[i] \notin raced'
                     PROVE  i = j
        BY DEF NamesUniqueUnlessRaced
      <3>2. db'.devices[i] \notin raced
        BY <3>1 DEF CommitFacts
      <3>3. ASSUME NEW x \in DOMAIN Mine(r).devices, NEW y \in DOMAIN db'.devices,
                   db'.devices[x] = db'.devices[y], db'.devices[x] \notin raced
            PROVE  x = y
        <4>1. db'.devices[x] = Mine(r).devices[x]
          BY DEF CommitFacts
        <4>2. Mine(r).devices[x] \notin raced
          BY <3>3, <4>1 DEF CommitFacts
        <4>3. /\ Named(db, Mine(r).devices[x]) = {}
              /\ \A y1 \in Named(Mine(r), Mine(r).devices[x]) : y1 = x
          BY <4>2 DEF RowsInv, NamesInv
        <4>4. CASE y \in DOMAIN Mine(r).devices
          <5>1. Mine(r).devices[y] = Mine(r).devices[x]
            BY <3>3, <4>1, <4>4 DEF CommitFacts
          <5>2. QED
            BY <4>3, <4>4, <5>1 DEF Named
        <4>5. CASE y \notin DOMAIN Mine(r).devices
          <5>1. y \in DOMAIN db.devices /\ db.devices[y] = Mine(r).devices[x]
            BY <3>3, <4>1, <4>5 DEF CommitFacts
          <5>2. QED
            BY <4>3, <5>1 DEF Named
        <4>6. QED
          BY <4>4, <4>5
      <3>4. CASE i \in DOMAIN Mine(r).devices \/ j \in DOMAIN Mine(r).devices
        BY <3>1, <3>2, <3>3, <3>4
      <3>5. CASE i \notin DOMAIN Mine(r).devices /\ j \notin DOMAIN Mine(r).devices
        BY <3>1, <3>2, <3>5 DEF CommitFacts, RowsInv, NamesInv, NamesUniqueUnlessRaced
      <3>6. QED
        BY <3>4, <3>5
    <2>2. ASSUME NEW s \in Requests, NEW k \in DOMAIN Mine(s)'.devices,
                 Mine(s)'.devices[k] \notin raced'
          PROVE  /\ Named(db', Mine(s)'.devices[k]) = {}
                 /\ \A q \in Requests : \A j \in Named(Mine(q)', Mine(s)'.devices[k]) :
                       q = s /\ j = k
      <3>1. s # r /\ Mine(s)' = Mine(s)
        BY <2>2 DEF CommitFacts, Empty
      <3>2. Mine(s).devices[k] \notin raced
        BY <2>2, <3>1 DEF CommitFacts
      <3>3. /\ Named(db, Mine(s).devices[k]) = {}
            /\ \A q \in Requests : \A j \in Named(Mine(q), Mine(s).devices[k]) :
                  q = s /\ j = k
        BY <3>1, <3>2 DEF RowsInv, NamesInv
      <3>4. Named(db', Mine(s).devices[k]) = {}
        BY <3>1, <3>3 DEF Named, CommitFacts
      <3>5. QED
        BY <3>1, <3>3, <3>4 DEF Named, CommitFacts, Empty
    <2>3. QED
      BY <2>1, <2>2 DEF NamesInv, Named
  <1>5. OneRowInv'
    <2>1. ASSUME NEW i \in DOMAIN db'.episodes, NEW j \in DOMAIN db'.episodes,
                 SameKey(db'.episodes[i], db'.episodes[j]), ~Raced(db'.episodes[i])
          PROVE  i = j
      <3>1. ~Raced(db'.episodes[j])
        BY <2>1 DEF SameKey, Raced
      <3>2. ASSUME NEW x \in DOMAIN Mine(r).episodes, NEW y \in DOMAIN db'.episodes,
                   SameKey(db'.episodes[y], db'.episodes[x]), ~Raced(db'.episodes[x])
            PROVE  x = y
        <4>1. db'.episodes[x] = Mine(r).episodes[x]
          BY DEF CommitFacts
        <4>2. QED
          BY <3>2, <4>1 DEF CommitFacts, RowsInv, OneRowInv
      <3>3. CASE i \in DOMAIN Mine(r).episodes \/ j \in DOMAIN Mine(r).episodes
        BY <2>1, <3>1, <3>2, <3>3 DEF SameKey
      <3>4. CASE i \notin DOMAIN Mine(r).episodes /\ j \notin DOMAIN Mine(r).episodes
        BY <2>1, <3>4 DEF CommitFacts, RowsInv, OneRowInv
      <3>5. QED
        BY <3>3, <3>4
    <2>2. ASSUME NEW s \in Requests, NEW k \in DOMAIN Mine(s)'.episodes,
                 ~Raced(Mine(s)'.episodes[k])
          PROVE  /\ \A j \in DOMAIN db'.episodes :
                       SameKey(db'.episodes[j], Mine(s)'.episodes[k]) => k = j
                 /\ \A q \in Requests : \A j \in DOMAIN Mine(q)'.episodes :
                       SameKey(Mine(q)'.episodes[j], Mine(s)'.episodes[k]) => q = s /\ j = k
      <3>1. s # r /\ Mine(s)' = Mine(s)
        BY <2>2 DEF CommitFacts, Empty
      <3>2. /\ \A j \in DOMAIN db.episodes :
                  SameKey(db.episodes[j], Mine(s).episodes[k]) => k = j
            /\ \A q \in Requests : \A j \in DOMAIN Mine(q).episodes :
                  SameKey(Mine(q).episodes[j], Mine(s).episodes[k]) => q = s /\ j = k
        BY <2>2, <3>1 DEF RowsInv, OneRowInv
      <3>3. QED
        BY <3>1, <3>2 DEF CommitFacts, Empty
    <2>3. \A row : <<row.podcast, row.url>> \notin raced' => ~Raced(row)
      BY DEF CommitFacts, Raced
    <2>4. QED
      BY <2>1, <2>2, <2>3 DEF OneRowInv, Raced, SameKey
  <1>6. LatestInv'
    BY CommitLatest
  <1>7. QED
    BY <1>1, <1>2, <1>3, <1>4, <1>5, <1>6 DEF RowsInv

\* The rows before and after DeletePodcast.
LEMMA DeletePodcastRows ==
    ASSUME TypeOK, RowsInv, NEW p \in Podcasts, DeletePodcast(p)
    PROVE  RowsInv'
  <1> DEFINE unraced(row) == <<row.podcast, row.url>> \notin raced'
  <1>1. /\ db'.podcasts = db.podcasts \ {p} /\ db'.devices = db.devices
        /\ DOMAIN db'.episodes = {i \in DOMAIN db.episodes : db.episodes[i].podcast # p}
        /\ \A i \in DOMAIN db'.episodes : db'.episodes[i] = db.episodes[i]
        /\ DOMAIN db'.hist = {h \in DOMAIN db.hist : db.hist[h].episode \in DOMAIN db'.episodes}
        /\ \A h \in DOMAIN db'.hist : db'.hist[h] = db.hist[h]
        /\ raced' = raced \ ({p} \X Urls)
    BY DeletePodcastStep
  <1>2. \A q \in Requests : Mine(q)' = Mine(q)
    BY DeletePodcastStep DEF Mine
  <1>3. ASSUME NEW q \in Requests
        PROVE  /\ \A e \in DOMAIN Mine(q).episodes : Mine(q).episodes[e].podcast # p
               /\ \A h \in DOMAIN Mine(q).hist :
                     Mine(q).hist[h].episode \in DOMAIN db.episodes =>
                        Mine(q).hist[h].episode \in DOMAIN db'.episodes
    <2>1. ~PodcastInUse(p)
      BY DEF DeletePodcast
    <2>2. \A e \in DOMAIN Mine(q).episodes : Mine(q).episodes[e].podcast # p
      BY <2>1 DEF PodcastInUse, Mine
    <2>3. \A h \in DOMAIN Mine(q).hist :
            LET e == Mine(q).hist[h].episode
            IN  ~(e \in DOMAIN db.episodes /\ db.episodes[e].podcast = p)
      BY <2>1 DEF PodcastInUse, Mine
    <2>4. QED
      BY <1>1, <2>2, <2>3
  <1>4. \A row : row.podcast # p /\ unraced(row) => ~Raced(row)
    BY <1>1 DEF Raced
  <1>5. \A d \in Devices : d \notin raced' => d \notin raced
    <2>1. {p} \X Urls \subseteq Podcasts \X Urls
      OBVIOUS
    <2>2. \A d \in Devices : d \notin {p} \X Urls
      BY <2>1, PgAssumption
    <2>3. QED
      BY <1>1, <2>2
  <1>6. /\ \A i \in DOMAIN db.devices : db.devices[i] \in Devices
        /\ \A q \in Requests : \A i \in DOMAIN Mine(q).devices : Mine(q).devices[i] \in Devices
    BY TxTyped, TableOfDomain DEF TypeOK, Tables
  <1>7. NumbersInv'
    BY <1>1, <1>2 DEF RowsInv, NumbersInv
  <1>8. RefersInv'
    BY <1>1, <1>2, <1>3 DEF RowsInv, RefersInv, Refers, RowsReferToRows
  <1>9. KeysInv'
    BY <1>1, <1>2 DEF RowsInv, KeysInv, KeyIs
  <1>10. NamesInv'
    BY <1>1, <1>2, <1>5, <1>6 DEF RowsInv, NamesInv, NamesUniqueUnlessRaced, Named
  <1>11. OneRowInv'
    <2>1. \A k, j \in DOMAIN db'.episodes :
            SameKey(db'.episodes[k], db'.episodes[j]) /\ unraced(db'.episodes[k]) => k = j
      BY <1>1, <1>4 DEF RowsInv, OneRowInv
    <2>2. \A q \in Requests : \A k \in DOMAIN Mine(q).episodes :
            unraced(Mine(q).episodes[k]) => ~Raced(Mine(q).episodes[k])
      BY <1>3, <1>4
    <2>3. \A q \in Requests : \A k \in DOMAIN Mine(q)'.episodes :
            unraced(Mine(q)'.episodes[k]) =>
              /\ \A j \in DOMAIN db'.episodes :
                    SameKey(db'.episodes[j], Mine(q)'.episodes[k]) => k = j
              /\ \A o \in Requests : \A j \in DOMAIN Mine(o)'.episodes :
                    SameKey(Mine(o)'.episodes[j], Mine(q)'.episodes[k]) => o = q /\ j = k
      BY <1>1, <1>2, <2>2 DEF RowsInv, OneRowInv
    <2>4. QED
      BY <2>1, <2>3 DEF OneRowInv, Raced
  <1>12. LatestInv'
    <2>1. \A k \in DOMAIN db'.episodes : unraced(db'.episodes[k]) => ~Raced(db.episodes[k])
      BY <1>1, <1>4
    <2>2. \A q \in Requests : \A k \in DOMAIN Mine(q).episodes :
            unraced(Mine(q).episodes[k]) => ~Raced(Mine(q).episodes[k])
      BY <1>3, <1>4
    <2>3. \A k \in DOMAIN db'.episodes : unraced(db'.episodes[k]) =>
            /\ \A h \in DOMAIN db'.hist :
                  db'.hist[h].episode = k => db'.hist[h].ts <= db'.episodes[k].ts
            /\ \E h \in DOMAIN db'.hist :
                  db'.hist[h].episode = k /\ db'.hist[h].ts = db'.episodes[k].ts
      BY <1>1, <2>1 DEF RowsInv, LatestInv, NotOlder, Shown
    <2>4. \A q \in Requests : \A k \in EpisodeIds :
            /\ k \in DOMAIN Mine(q).episodes /\ unraced(Mine(q).episodes[k]) =>
                  \A h \in DOMAIN Mine(q).hist :
                     Mine(q).hist[h].episode = k => Mine(q).hist[h].ts <= Mine(q).episodes[k].ts
            /\ k \notin DOMAIN Mine(q).episodes /\ k \in DOMAIN db'.episodes
               /\ unraced(db'.episodes[k]) =>
                  \A h \in DOMAIN Mine(q).hist :
                     Mine(q).hist[h].episode = k => Mine(q).hist[h].ts <= db'.episodes[k].ts
      BY <1>1, <2>1, <2>2 DEF RowsInv, LatestInv, NotOlder
    <2>5. \A q \in Requests : \A k \in DOMAIN Mine(q).episodes :
            unraced(Mine(q).episodes[k]) =>
              /\ \E h \in DOMAIN Mine(q).hist :
                    /\ Mine(q).hist[h].episode = k
                    /\ Mine(q).hist[h].ts = Mine(q).episodes[k].ts
              /\ k \in DOMAIN db'.episodes => db'.episodes[k].ts <= Mine(q).episodes[k].ts
      BY <1>1, <2>2 DEF RowsInv, LatestInv, Shown
    <2>6. QED
      BY <1>2, <2>3, <2>4, <2>5 DEF LatestInv, NotOlder, Shown, Raced
  <1>13. QED
    BY <1>7, <1>8, <1>9, <1>10, <1>11, <1>12 DEF RowsInv

LEMMA DeleteDeviceRows ==
    ASSUME TypeOK, RowsInv, NEW i \in DeviceIds, DeleteDevice(i)
    PROVE  RowsInv'
  <1> DEFINE unraced(row) == <<row.podcast, row.url>> \notin raced'
  <1>1. /\ db'.podcasts = db.podcasts
        /\ DOMAIN db'.devices = DOMAIN db.devices \ {i}
        /\ \A j \in DOMAIN db'.devices : db'.devices[j] = db.devices[j]
        /\ DOMAIN db'.episodes = DOMAIN db.episodes
        /\ \A e \in DOMAIN db.episodes :
              /\ SameKey(db'.episodes[e], db.episodes[e])
              /\ db'.episodes[e].ts = db.episodes[e].ts
              /\ db'.episodes[e].device \in {db.episodes[e].device, None} \ {i}
        /\ DOMAIN db'.hist = DOMAIN db.hist
        /\ \A h \in DOMAIN db.hist :
              /\ db'.hist[h].episode = db.hist[h].episode
              /\ db'.hist[h].ts = db.hist[h].ts
              /\ db'.hist[h].device \in {db.hist[h].device, None} \ {i}
        /\ raced' = raced
    BY DeleteDeviceStep
  <1>2. \A q \in Requests : Mine(q)' = Mine(q)
    BY DeleteDeviceStep DEF Mine
  <1>3. ASSUME NEW q \in Requests
        PROVE  /\ \A e \in DOMAIN Mine(q).episodes : Mine(q).episodes[e].device # i
               /\ \A h \in DOMAIN Mine(q).hist : Mine(q).hist[h].device # i
    BY DEF DeleteDevice, DeviceInUse, Mine
  <1>4. NumbersInv'
    BY <1>1, <1>2 DEF RowsInv, NumbersInv
  <1>5. RefersInv'
    <2>1. RowsReferToRows'
      BY <1>1 DEF RowsInv, RefersInv, RowsReferToRows, SameKey
    <2>2. \A q \in Requests : Refers(Mine(q))'
      BY <1>1, <1>2, <1>3 DEF RowsInv, RefersInv, Refers
    <2>3. QED
      BY <2>1, <2>2 DEF RefersInv
  <1>6. KeysInv'
    BY <1>1, <1>2 DEF RowsInv, KeysInv, KeyIs, SameKey
  <1>7. NamesInv'
    BY <1>1, <1>2 DEF RowsInv, NamesInv, NamesUniqueUnlessRaced, Named
  <1>8. /\ \A e \in DOMAIN db.episodes : unraced(db'.episodes[e]) => ~Raced(db.episodes[e])
        /\ \A row : unraced(row) => ~Raced(row)
    BY <1>1 DEF Raced, SameKey
  <1>9. OneRowInv'
    <2>1. \A k, j \in DOMAIN db'.episodes :
            SameKey(db'.episodes[k], db'.episodes[j]) /\ unraced(db'.episodes[k]) => k = j
      BY <1>1, <1>8 DEF RowsInv, OneRowInv, SameKey
    <2>2. ASSUME NEW q \in Requests, NEW k \in DOMAIN Mine(q).episodes,
                 ~Raced(Mine(q).episodes[k]), NEW j \in DOMAIN db.episodes,
                 SameKey(db'.episodes[j], Mine(q).episodes[k])
          PROVE  k = j
      <3>1. SameKey(db.episodes[j], Mine(q).episodes[k])
        BY <1>1, <2>2 DEF SameKey
      <3>2. QED
        BY <2>2, <3>1 DEF RowsInv, OneRowInv
    <2>3. \A q \in Requests : \A k \in DOMAIN Mine(q)'.episodes :
            unraced(Mine(q)'.episodes[k]) =>
              /\ \A j \in DOMAIN db'.episodes :
                    SameKey(db'.episodes[j], Mine(q)'.episodes[k]) => k = j
              /\ \A o \in Requests : \A j \in DOMAIN Mine(o)'.episodes :
                    SameKey(Mine(o)'.episodes[j], Mine(q)'.episodes[k]) => o = q /\ j = k
      BY <1>1, <1>2, <1>8, <2>2 DEF RowsInv, OneRowInv
    <2>4. QED
      BY <2>1, <2>3 DEF OneRowInv, Raced
  <1>10. LatestInv'
    <2>1. \A k \in DOMAIN db'.episodes : unraced(db'.episodes[k]) =>
            /\ \A h \in DOMAIN db'.hist :
                  db'.hist[h].episode = k => db'.hist[h].ts <= db'.episodes[k].ts
            /\ \E h \in DOMAIN db'.hist :
                  db'.hist[h].episode = k /\ db'.hist[h].ts = db'.episodes[k].ts
      <3>1. SUFFICES ASSUME NEW k \in DOMAIN db'.episodes, unraced(db'.episodes[k])
                     PROVE  /\ \A h \in DOMAIN db'.hist :
                                  db'.hist[h].episode = k => db'.hist[h].ts <= db'.episodes[k].ts
                            /\ \E h \in DOMAIN db'.hist :
                                  db'.hist[h].episode = k /\ db'.hist[h].ts = db'.episodes[k].ts
        OBVIOUS
      <3>2. k \in DOMAIN db.episodes /\ ~Raced(db.episodes[k])
        BY <1>1, <1>8, <3>1
      <3>3. NotOlder(db.episodes, k, db.hist) /\ Shown(db.episodes, k, db.hist)
        BY <3>2 DEF RowsInv, LatestInv
      <3>4. \A h \in DOMAIN db.hist : db.hist[h].episode = k => db.hist[h].ts <= db.episodes[k].ts
        BY <3>2, <3>3 DEF NotOlder
      <3>5. \E h \in DOMAIN db.hist : db.hist[h].episode = k /\ db.hist[h].ts = db.episodes[k].ts
        BY <3>2, <3>3 DEF Shown
      <3>6. QED
        BY <1>1, <3>2, <3>4, <3>5
    <2>2. \A q \in Requests : \A k \in EpisodeIds :
            /\ k \in DOMAIN Mine(q).episodes /\ unraced(Mine(q).episodes[k]) =>
                  \A h \in DOMAIN Mine(q).hist :
                     Mine(q).hist[h].episode = k => Mine(q).hist[h].ts <= Mine(q).episodes[k].ts
            /\ k \notin DOMAIN Mine(q).episodes /\ k \in DOMAIN db'.episodes
               /\ unraced(db'.episodes[k]) =>
                  \A h \in DOMAIN Mine(q).hist :
                     Mine(q).hist[h].episode = k => Mine(q).hist[h].ts <= db'.episodes[k].ts
      BY <1>1, <1>8 DEF RowsInv, LatestInv, NotOlder
    <2>3. \A q \in Requests : \A k \in DOMAIN Mine(q).episodes :
            unraced(Mine(q).episodes[k]) =>
              /\ \E h \in DOMAIN Mine(q).hist :
                    /\ Mine(q).hist[h].episode = k
                    /\ Mine(q).hist[h].ts = Mine(q).episodes[k].ts
              /\ k \in DOMAIN db'.episodes => db'.episodes[k].ts <= Mine(q).episodes[k].ts
      BY <1>1, <1>8 DEF RowsInv, LatestInv, Shown
    <2>4. QED
      BY <1>2, <2>1, <2>2, <2>3 DEF LatestInv, NotOlder, Shown, Raced
  <1>11. QED
    BY <1>4, <1>5, <1>6, <1>7, <1>9, <1>10 DEF RowsInv

-----------------------------------------------------------------------------
\* What a transaction has gone through is in its history.

\* Steps that leave the rows alone and record nothing.
LEMMA RecordedKept ==
    ASSUME RecordedInv, NEW r \in Requests, OthersSame(r), db' = db,
           tx'[r].phase \notin {"find", "write"} \/ tx'[r].next = 1
    PROVE  RecordedInv'
  <1>1. ASSUME NEW q \in Requests \ {r}
        PROVE  Mine(q)' = Mine(q) /\ tx'[q] = tx[q]
    BY DEF OthersSame, Mine
  <1>2. \A k \in 1 .. 1 - 1 : FALSE
    OBVIOUS
  <1>3. QED
    BY <1>1, <1>2 DEF RecordedInv

LEMMA FindEpisodeRecorded ==
    ASSUME TypeOK, ProgressInv, RecordedInv, NEW r \in Requests, FindEpisode(r)
    PROVE  RecordedInv'
  <1>1. \A q \in Requests :
          /\ Mine(q)' = Mine(q) /\ tx'[q].batch = tx[q].batch /\ tx'[q].next = tx[q].next
          /\ tx'[q].phase \in {"find", "write"} => tx[q].phase \in {"find", "write"}
    BY FindEpisodeStep DEF OthersSame, Mine, FindEpisode
  <1>2. QED
    BY <1>1, FindEpisodeStep DEF RecordedInv

LEMMA WriteEpisodeRecorded ==
    ASSUME TypeOK, ProgressInv, RowsInv, RecordedInv, NEW r \in Requests, WriteEpisode(r),
           NEW a, NEW i, NEW h, a = Current(r), WriteFacts(r, a, i, h)
    PROVE  RecordedInv'
  <1>1. /\ OthersSame(r) /\ tx'[r].batch = tx[r].batch /\ tx'[r].next = tx[r].next + 1
        /\ tx[r].phase = "write" /\ a = tx[r].batch[tx[r].next] /\ tx[r].next \in Nat
    BY WriteEpisodeStep, TxTyped DEF WriteEpisode, Current, TxState
  <1>2. RecordedIn(Mine(r)', db'.episodes, a)
    <2>1. /\ h \in DOMAIN Mine(r)'.hist /\ Mine(r)'.hist[h].episode = i
          /\ Mine(r)'.hist[h].ts = a.ts
      BY DEF WriteFacts
    <2>2. KeyIs(db'.episodes, i, a)
      BY DEF WriteFacts, KeyIs
    <2>3. KeyIs(Mine(r)'.episodes, i, a)
      BY DEF WriteFacts, KeyIs
    <2>4. QED
      BY <2>1, <2>2, <2>3 DEF RecordedIn
  <1>3. ASSUME NEW b, RecordedIn(Mine(r), db.episodes, b)
        PROVE  RecordedIn(Mine(r)', db'.episodes, b)
    <2>1. PICK g \in DOMAIN Mine(r).hist :
            /\ Mine(r).hist[g].ts = b.ts
            /\ KeyIs(db.episodes, Mine(r).hist[g].episode, b)
            /\ KeyIs(Mine(r).episodes, Mine(r).hist[g].episode, b)
      BY <1>3 DEF RecordedIn
    <2> DEFINE e == Mine(r).hist[g].episode
    <2>2. /\ g \in DOMAIN Mine(r)'.hist /\ Mine(r)'.hist[g] = Mine(r).hist[g]
          /\ db'.episodes = db.episodes
      BY DEF WriteFacts
    <2>3. e \in DOMAIN Mine(r).episodes \cup DOMAIN db.episodes
      BY DEF RowsInv, RefersInv, Refers
    <2>4. KeyIs(Mine(r)'.episodes, e, b)
      <3>1. CASE Writes(r) /\ e = i
        <4>1. SameKey(Mine(r)'.episodes[e], a)
          BY <3>1 DEF WriteFacts
        <4>2. SameKey(a, b)
          BY <2>1, <2>3, <3>1 DEF WriteFacts, KeyIs, SameKey
        <4>3. QED
          BY <4>1, <4>2 DEF KeyIs, SameKey
      <3>2. CASE ~(Writes(r) /\ e = i)
        BY <2>1, <3>2 DEF WriteFacts, KeyIs
      <3>3. QED
        BY <3>1, <3>2
    <2>5. QED
      BY <2>1, <2>2, <2>4 DEF RecordedIn
  <1>4. ASSUME NEW q \in Requests, tx'[q].phase \in {"find", "write"},
               NEW k \in 1 .. tx'[q].next - 1
        PROVE  RecordedIn(Mine(q)', db'.episodes, tx'[q].batch[k])
    <2>1. CASE q = r
      <3>1. CASE k = tx[r].next
        BY <1>1, <1>2, <2>1, <3>1
      <3>2. CASE k # tx[r].next
        <4>1. k \in 1 .. tx[r].next - 1
          BY <1>1, <1>4, <2>1, <3>2
        <4>2. QED
          BY <1>1, <1>3, <2>1, <4>1 DEF RecordedInv
      <3>3. QED
        BY <3>1, <3>2
    <2>2. CASE q # r
      <3>1. Mine(q)' = Mine(q) /\ db' = db /\ tx'[q] = tx[q]
        BY <1>1, <2>2 DEF WriteFacts, OthersSame
      <3>2. QED
        BY <1>4, <3>1 DEF RecordedInv
    <2>3. QED
      BY <2>1, <2>2
  <1>5. QED
    BY <1>4 DEF RecordedInv

LEMMA CommitRecorded ==
    ASSUME TypeOK, ProgressInv, RowsInv, RecordedInv, NEW r \in Requests, Commit(r),
           CommitFacts(r)
    PROVE  RecordedInv'
  <1>1. tx'[r].phase = "idle" /\ OthersSame(r)
    BY CommitStep DEF NoTx
  <1>2. ASSUME NEW q \in Requests \ {r}, NEW b, RecordedIn(Mine(q), db.episodes, b)
        PROVE  RecordedIn(Mine(q)', db'.episodes, b)
    <2>1. PICK g \in DOMAIN Mine(q).hist :
            /\ Mine(q).hist[g].ts = b.ts
            /\ KeyIs(db.episodes, Mine(q).hist[g].episode, b)
            /\ KeyIs(Mine(q).episodes, Mine(q).hist[g].episode, b)
      BY <1>2 DEF RecordedIn
    <2> DEFINE e == Mine(q).hist[g].episode
    <2>2. Mine(q)' = Mine(q)
      BY DEF CommitFacts
    <2>3. KeyIs(db'.episodes, e, b)
      <3>1. CASE e \in DOMAIN Mine(r).episodes
        <4>1. e \in DOMAIN db.episodes
          BY <3>1 DEF RowsInv, RefersInv, Refers, NumbersInv
        <4>2. SameKey(db.episodes[e], b) /\ SameKey(db.episodes[e], Mine(r).episodes[e])
          BY <2>1, <3>1, <4>1 DEF RowsInv, KeysInv, KeyIs
        <4>3. QED
          BY <3>1, <4>2 DEF CommitFacts, KeyIs, SameKey
      <3>2. CASE e \notin DOMAIN Mine(r).episodes
        BY <2>1, <3>2 DEF CommitFacts, KeyIs
      <3>3. QED
        BY <3>1, <3>2
    <2>4. QED
      BY <2>1, <2>2, <2>3 DEF RecordedIn
  <1>3. QED
    BY <1>1, <1>2 DEF RecordedInv, OthersSame

\* Steps of the other writers, which keep the addresses of the rows they leave.
LEMMA DeleteRecorded ==
    ASSUME RecordedInv, tx' = tx, DOMAIN db'.episodes \subseteq DOMAIN db.episodes,
           \A i \in DOMAIN db'.episodes : SameKey(db'.episodes[i], db.episodes[i])
    PROVE  RecordedInv'
  <1>1. \A i, a : KeyIs(db.episodes, i, a) => KeyIs(db'.episodes, i, a)
    BY DEF KeyIs, SameKey
  <1>2. \A s, a : RecordedIn(s, db.episodes, a) => RecordedIn(s, db'.episodes, a)
    BY <1>1 DEF RecordedIn
  <1>3. \A q \in Requests : Mine(q)' = Mine(q)
    BY DEF Mine
  <1>4. QED
    BY <1>2, <1>3 DEF RecordedInv

-----------------------------------------------------------------------------
\* What a transaction has looked up.

Looked(r) == Found(r) /\ LookedEpisode(r) /\ LookedDevice(r)

\* Steps that leave the rows alone, or give them up: the other transactions.
LEMMA LookedOthers ==
    ASSUME LookedInv, NEW r \in Requests, OthersSame(r), db' = db, raced \subseteq raced',
           Mine(r)'.episodes = Mine(r).episodes \/ DOMAIN Mine(r)'.episodes = {},
           NEW q \in Requests \ {r}
    PROVE  Looked(q)'
  <1>1. Mine(q)' = Mine(q) /\ tx'[q] = tx[q] /\ Current(q)' = Current(q)
    BY DEF OthersSame, Mine, Current
  <1>2. Found(q)'
    <2>1. Found(q)
      BY DEF LookedInv
    <2>2. ASSUME NEW o \in Requests
          PROVE  Mine(o)'.episodes = Mine(o).episodes \/ DOMAIN Mine(o)'.episodes = {}
      BY DEF OthersSame, Mine
    <2>3. QED
      BY <1>1, <2>1, <2>2 DEF Found, KeyIs
  <1>3. LookedEpisode(q)'
    <2>1. LookedEpisode(q)
      BY DEF LookedInv
    <2>2. QED
      BY <1>1, <2>1 DEF LookedEpisode, Raced, Matching
  <1>4. LookedDevice(q)'
    <2>1. LookedDevice(q)
      BY DEF LookedInv
    <2>2. Missing(q)' = Missing(q)
      BY <1>1 DEF Missing
    <2>3. QED
      BY <1>1, <2>1, <2>2 DEF LookedDevice, Named
  <1>5. QED
    BY <1>2, <1>3, <1>4 DEF Looked

LEMMA LookedKept ==
    ASSUME LookedInv, NEW r \in Requests, OthersSame(r), db' = db, raced \subseteq raced',
           Mine(r)'.episodes = Mine(r).episodes \/ DOMAIN Mine(r)'.episodes = {},
           tx'[r].phase \notin {"write", "newDevice", "newName"}
    PROVE  LookedInv'
  <1>1. \A q \in Requests \ {r} : Looked(q)'
    BY LookedOthers
  <1>2. Looked(r)'
    BY DEF Looked, Found, LookedEpisode, LookedDevice, Missing
  <1>3. QED
    BY <1>1, <1>2 DEF LookedInv, Looked

\* A name that no statement of r sees is on no row of its own or of the database.
LEMMA NotNamed ==
    ASSUME RowsInv, NEW r \in Requests, NEW d, Named(View(r), d) = {}
    PROVE  Named(db, d) = {} /\ Named(Mine(r), d) = {}
  <1>1. \A i \in DOMAIN db.devices \cup DOMAIN Mine(r).devices :
          View(r).devices[i] =
             IF i \in DOMAIN Mine(r).devices THEN Mine(r).devices[i] ELSE db.devices[i]
    BY ViewParts, OverValue
  <1>2. \A i \in DOMAIN db.devices \cup DOMAIN Mine(r).devices : View(r).devices[i] # d
    BY ViewParts DEF Named
  <1>3. QED
    BY <1>1, <1>2 DEF Named, RowsInv, NumbersInv

LEMMA FindDeviceLooked ==
    ASSUME TypeOK, ProgressInv, RowsInv, LookedInv, NEW r \in Requests, FindDevice(r)
    PROVE  LookedInv'
  <1>1. OthersSame(r) /\ db' = db /\ raced' = raced /\ Mine(r)' = Mine(r)
    BY FindDeviceStep DEF Mine
  <1>2. CASE Advanced(r, tx'[r])
    BY <1>1, <1>2, LookedKept DEF Advanced
  <1>3. CASE ~Advanced(r, tx'[r])
    <2>1. /\ tx'[r].phase = "newDevice" /\ Named(View(r), Current(r).device) = {}
          /\ Current(r)' = Current(r)
      BY <1>3, FindDeviceStep DEF Current
    <2>2. Named(db, Current(r).device) = {} /\ Named(Mine(r), Current(r).device) = {}
      BY <2>1, NotNamed
    <2>3. Missing(r)' = {Current(r).device}
      BY <2>1 DEF Missing
    <2>4. Looked(r)'
      BY <1>1, <2>1, <2>2, <2>3 DEF Looked, Found, LookedEpisode, LookedDevice, Named
    <2>5. \A q \in Requests \ {r} : Looked(q)'
      BY <1>1, LookedOthers
    <2>6. QED
      BY <2>4, <2>5 DEF LookedInv, Looked
  <1>4. QED
    BY <1>2, <1>3

LEMMA FindNameLooked ==
    ASSUME TypeOK, RowsInv, LookedInv, NEW r \in Requests, FindName(r)
    PROVE  LookedInv'
  <1>1. /\ OthersSame(r) /\ db' = db /\ raced' = raced /\ Mine(r)' = Mine(r)
        /\ tx'[r].phase \in {"find", "newName"} /\ tx'[r].name = tx[r].name
        /\ tx'[r].phase = "newName" => Named(View(r), tx[r].name) = {}
    BY FindNameStep DEF Mine
  <1>2. tx'[r].phase = "newName" =>
          Named(db, tx[r].name) = {} /\ Named(Mine(r), tx[r].name) = {}
    BY <1>1, NotNamed
  <1>3. Missing(r)' = IF tx'[r].phase = "newName" THEN {tx[r].name} ELSE {}
    BY <1>1 DEF Missing
  <1>4. Looked(r)'
    BY <1>1, <1>2, <1>3 DEF Looked, Found, LookedEpisode, LookedDevice, Named
  <1>5. \A q \in Requests \ {r} : Looked(q)'
    BY <1>1, LookedOthers
  <1>6. QED
    BY <1>4, <1>5 DEF LookedInv, Looked

LEMMA FindEpisodeLooked ==
    ASSUME TypeOK, ProgressInv, RowsInv, LookedInv, NEW r \in Requests, FindEpisode(r)
    PROVE  LookedInv'
  <1> DEFINE a == Current(r)
             i == tx'[r].found
  <1>1. /\ OthersSame(r) /\ db' = db /\ raced' = raced /\ Mine(r)' = Mine(r)
        /\ tx'[r].phase = "write" /\ Current(r)' = a
    BY FindEpisodeStep DEF Mine, Current
  <1>2. \A q \in Requests : Mine(q)' = Mine(q)
    BY <1>1 DEF OthersSame, Mine
  <1>3. /\ DOMAIN View(r).episodes = DOMAIN db.episodes \cup DOMAIN Mine(r).episodes
        /\ \A e \in DOMAIN db.episodes \cup DOMAIN Mine(r).episodes :
              View(r).episodes[e] =
                 IF e \in DOMAIN Mine(r).episodes THEN Mine(r).episodes[e] ELSE db.episodes[e]
    BY ViewParts, OverValue
  <1>4. \/ Matching(View(r), a) = {} /\ i = None /\ tx'[r].was = 0
        \/ i \in Matching(View(r), a) /\ tx'[r].was = View(r).episodes[i].ts
    BY FindEpisodeStep
  <1>5. DOMAIN db.episodes \cup DOMAIN Mine(r).episodes \subseteq EpisodeIds
    BY TxTyped, TableOfDomain DEF TypeOK, Tables
  <1> HIDE DEF a, i
  <1>6. CASE Matching(View(r), a) = {} /\ i = None /\ tx'[r].was = 0
    <2>1. \A e \in DOMAIN db.episodes \cup DOMAIN Mine(r).episodes :
            ~SameKey(View(r).episodes[e], a)
      BY <1>3, <1>6 DEF Matching, SameKey
    <2>2. \A e \in DOMAIN Mine(r).episodes : ~SameKey(Mine(r).episodes[e], a)
      BY <1>3, <2>1
    <2>3. \A e \in DOMAIN db.episodes : ~SameKey(db.episodes[e], a)
      BY <1>3, <2>1, <2>2 DEF RowsInv, KeysInv, KeyIs, SameKey
    <2>4. Matching(db, a) = {} /\ Matching(Mine(r), a) = {}
      BY <2>2, <2>3 DEF Matching, SameKey
    <2>5. None \notin DOMAIN db.episodes \cup DOMAIN Mine(r).episodes
      BY <1>5, PgAssumption
    <2>6. Found(r)' /\ LookedDevice(r)'
      BY <1>1, <1>6 DEF Found, LookedDevice, Missing, i
    <2>7. LookedEpisode(r)'
      BY <1>1, <1>6, <2>4, <2>5 DEF LookedEpisode, Matching, i
    <2>8. QED
      BY <1>1, <2>6, <2>7, LookedOthers DEF LookedInv, Looked
  <1>7. CASE i \in Matching(View(r), a) /\ tx'[r].was = View(r).episodes[i].ts
    <2>1. i \in DOMAIN db.episodes \cup DOMAIN Mine(r).episodes /\ SameKey(View(r).episodes[i], a)
      BY <1>3, <1>7 DEF Matching, SameKey
    <2>2. i # None
      BY <1>5, <2>1, PgAssumption
    <2>3. KeyIs(db.episodes, i, a)
      BY <1>3, <2>1 DEF RowsInv, KeysInv, KeyIs, SameKey
    <2>4. ASSUME NEW q \in Requests
          PROVE  KeyIs(Mine(q).episodes, i, a)
      <3>1. CASE q = r
        BY <1>3, <2>1, <3>1 DEF KeyIs
      <3>2. CASE q # r /\ i \in DOMAIN Mine(q).episodes
        <4>1. i \in DOMAIN db.episodes
          BY <2>1, <3>2 DEF RowsInv, NumbersInv
        <4>2. QED
          BY <2>3, <3>2, <4>1 DEF RowsInv, KeysInv, KeyIs, SameKey
      <3>3. QED
        BY <3>1, <3>2 DEF KeyIs
    <2>5. Found(r)' /\ LookedDevice(r)'
      BY <1>1, <1>2, <2>3, <2>4 DEF Found, LookedDevice, Missing, KeyIs, i
    <2>6. LookedEpisode(r)'
      BY <1>1, <1>3, <1>7, <2>1, <2>2 DEF LookedEpisode, i
    <2>7. QED
      BY <1>1, <2>5, <2>6, LookedOthers DEF LookedInv, Looked
  <1>8. QED
    BY <1>4, <1>6, <1>7

LEMMA WriteEpisodeLooked ==
    ASSUME TypeOK, ProgressInv, RowsInv, LookedInv, NEW r \in Requests, WriteEpisode(r),
           NEW a, NEW i, NEW h, a = Current(r), i = NewEpisode(r), WriteFacts(r, a, i, h)
    PROVE  LookedInv'
  <1>1. /\ OthersSame(r) /\ tx'[r].phase = "find" /\ db' = db /\ raced \subseteq raced'
    BY WriteEpisodeStep DEF WriteFacts
  <1>2. ASSUME NEW q \in Requests \ {r}
        PROVE  /\ Mine(q)' = Mine(q) /\ tx'[q] = tx[q] /\ Current(q)' = Current(q)
               /\ Found(q) /\ LookedEpisode(q) /\ LookedDevice(q)
    BY <1>1 DEF OthersSame, Mine, Current, LookedInv
  <1>3. ASSUME NEW q \in Requests \ {r}, tx[q].phase = "write", tx[q].found = i, Writes(r)
        PROVE  SameKey(a, Current(q))
    <2>1. tx[r].found # None
      <3>1. tx[r].found = None => i \in FreshEpisodes
        BY WriteEpisodeStep
      <3>2. QED
        BY <1>3, <3>1, FreshEpisodeUnused
    <2>2. i = tx[r].found
      BY <2>1 DEF NewEpisode
    <2>3. i \in DOMAIN Mine(r).episodes \cup DOMAIN db.episodes
      BY <2>1, <2>2, ViewParts DEF WriteEpisode, RefsFound
    <2>4. KeyIs(db.episodes, i, Current(q)) /\ KeyIs(Mine(r).episodes, i, Current(q))
      BY <1>2, <1>3, <2>1, <2>2 DEF Found
    <2>5. QED
      BY <2>3, <2>4 DEF WriteFacts, KeyIs, SameKey
  <1>4. ASSUME NEW q \in Requests \ {r}
        PROVE  Found(q)'
    <2>1. ASSUME tx[q].phase = "write", tx[q].found # None
          PROVE  /\ KeyIs(db.episodes, tx[q].found, Current(q))
                 /\ \A o \in Requests : KeyIs(Mine(o)'.episodes, tx[q].found, Current(q))
      <3>1. /\ KeyIs(db.episodes, tx[q].found, Current(q))
            /\ \A o \in Requests : KeyIs(Mine(o).episodes, tx[q].found, Current(q))
        BY <1>2, <2>1 DEF Found
      <3>2. KeyIs(Mine(r)'.episodes, tx[q].found, Current(q))
        <4>1. CASE Writes(r) /\ tx[q].found = i
          BY <1>3, <2>1, <4>1 DEF WriteFacts, KeyIs, SameKey
        <4>2. CASE ~(Writes(r) /\ tx[q].found = i)
          BY <3>1, <4>2 DEF WriteFacts, KeyIs
        <4>3. QED
          BY <4>1, <4>2
      <3>3. \A o \in Requests \ {r} : Mine(o)' = Mine(o)
        BY DEF WriteFacts
      <3>4. QED
        BY <3>1, <3>2, <3>3
    <2>2. QED
      BY <1>1, <1>2, <2>1 DEF Found, KeyIs
  <1>5. ASSUME NEW q \in Requests \ {r}
        PROVE  LookedEpisode(q)'
    <2>1. /\ LookedEpisode(q) /\ Mine(q)' = Mine(q) /\ tx'[q] = tx[q]
          /\ Current(q)' = Current(q)
      BY <1>2
    <2>2. QED
      BY <1>1, <2>1 DEF LookedEpisode, Raced, Matching
  <1>6. ASSUME NEW q \in Requests \ {r}
        PROVE  LookedDevice(q)'
    <2>1. Missing(q)' = Missing(q)
      BY <1>2 DEF Missing
    <2>2. QED
      BY <1>1, <1>2, <2>1 DEF LookedDevice, Named
  <1>7. Found(r)' /\ LookedEpisode(r)' /\ LookedDevice(r)'
    BY <1>1 DEF Found, LookedEpisode, LookedDevice, Missing
  <1>8. QED
    BY <1>4, <1>5, <1>6, <1>7 DEF LookedInv

LEMMA CommitLooked ==
    ASSUME TypeOK, ProgressInv, RowsInv, LookedInv, NEW r \in Requests, Commit(r),
           CommitFacts(r)
    PROVE  LookedInv'
  <1>1. tx'[r].phase = "idle" /\ OthersSame(r) /\ raced' = raced \cup Outdated(r)
    BY CommitStep DEF NoTx
  <1>2. ASSUME NEW q \in Requests \ {r}
        PROVE  /\ Mine(q)' = Mine(q) /\ tx'[q] = tx[q] /\ Current(q)' = Current(q)
               /\ Found(q) /\ LookedEpisode(q) /\ LookedDevice(q)
    BY <1>1 DEF OthersSame, Mine, Current, LookedInv
  <1>3. DOMAIN Mine(r).episodes \subseteq EpisodeIds /\ None \notin EpisodeIds
    BY TxTyped, TableOfDomain, PgAssumption DEF Tables
  <1>4. ASSUME NEW q \in Requests \ {r}
        PROVE  Found(q)'
    <2>1. ASSUME tx[q].phase = "write", tx[q].found # None
          PROVE  /\ KeyIs(db'.episodes, tx[q].found, Current(q))
                 /\ \A o \in Requests : KeyIs(Mine(o)'.episodes, tx[q].found, Current(q))
      <3>1. /\ KeyIs(db.episodes, tx[q].found, Current(q))
            /\ \A o \in Requests : KeyIs(Mine(o).episodes, tx[q].found, Current(q))
        BY <1>2, <2>1 DEF Found
      <3>2. KeyIs(db'.episodes, tx[q].found, Current(q))
        BY <3>1 DEF CommitFacts, KeyIs
      <3>3. \A o \in Requests : Mine(o)' = Mine(o) \/ Empty(Mine(o)')
        BY DEF CommitFacts
      <3>4. QED
        BY <3>1, <3>2, <3>3 DEF KeyIs, Empty
    <2>2. QED
      BY <1>2, <2>1 DEF Found, KeyIs
  <1>5. ASSUME NEW q \in Requests \ {r}
        PROVE  LookedEpisode(q)'
    <2>1. ASSUME tx[q].phase = "write",
                 <<Current(q).podcast, Current(q).url>> \notin raced'
          PROVE  /\ tx[q].found = None =>
                       Matching(db', Current(q)) = {} /\ Matching(Mine(q), Current(q)) = {}
                 /\ tx[q].found \in DOMAIN Mine(q).episodes =>
                       tx[q].was = Mine(q).episodes[tx[q].found].ts
                 /\ tx[q].found \in DOMAIN db'.episodes \ DOMAIN Mine(q).episodes =>
                       tx[q].was = db'.episodes[tx[q].found].ts
      <3>1. Matching(Mine(r), Current(q)) = {}
        BY <1>1, <2>1 DEF Outdated, Others, Mine
      <3>2. ~Raced(Current(q))
        BY <1>1, <2>1 DEF Raced
      <3>3. /\ tx[q].found = None =>
                  Matching(db, Current(q)) = {} /\ Matching(Mine(q), Current(q)) = {}
            /\ tx[q].found \in DOMAIN Mine(q).episodes =>
                  tx[q].was = Mine(q).episodes[tx[q].found].ts
            /\ tx[q].found \in DOMAIN db.episodes \ DOMAIN Mine(q).episodes =>
                  tx[q].was = db.episodes[tx[q].found].ts
        BY <1>2, <2>1, <3>2 DEF LookedEpisode
      <3>4. tx[q].found \notin DOMAIN Mine(r).episodes
        BY <1>2, <1>3, <2>1, <3>1 DEF Found, KeyIs, SameKey, Matching
      <3>5. Matching(db, Current(q)) = {} => Matching(db', Current(q)) = {}
        BY <3>1 DEF Matching, CommitFacts
      <3>6. QED
        BY <3>3, <3>4, <3>5 DEF CommitFacts
    <2>2. QED
      BY <1>2, <2>1 DEF LookedEpisode, Raced, Matching
  <1>6. ASSUME NEW q \in Requests \ {r}
        PROVE  LookedDevice(q)'
    <2>1. ASSUME NEW d \in Missing(q), d \notin raced'
          PROVE  Named(db', d) = {} /\ Named(Mine(q), d) = {}
      <3>1. Named(Mine(r), d) = {}
        BY <1>1, <2>1 DEF Outdated, Others, Mine
      <3>2. Named(db, d) = {} /\ Named(Mine(q), d) = {}
        BY <1>1, <1>2, <2>1 DEF LookedDevice
      <3>3. QED
        BY <3>1, <3>2 DEF Named, CommitFacts
    <2>2. Missing(q)' = Missing(q)
      BY <1>2 DEF Missing
    <2>3. QED
      BY <1>2, <2>1, <2>2 DEF LookedDevice, Named
  <1>7. Found(r)' /\ LookedEpisode(r)' /\ LookedDevice(r)'
    BY <1>1 DEF Found, LookedEpisode, LookedDevice, Missing
  <1>8. QED
    BY <1>4, <1>5, <1>6, <1>7 DEF LookedInv

LEMMA DeletePodcastLooked ==
    ASSUME TypeOK, ProgressInv, RowsInv, LookedInv, NEW p \in Podcasts, DeletePodcast(p)
    PROVE  LookedInv'
  <1>1. /\ db'.devices = db.devices
        /\ DOMAIN db'.episodes = {i \in DOMAIN db.episodes : db.episodes[i].podcast # p}
        /\ \A i \in DOMAIN db'.episodes : db'.episodes[i] = db.episodes[i]
        /\ raced' = raced \ ({p} \X Urls) /\ tx' = tx
    BY DeletePodcastStep
  <1>2. ASSUME NEW q \in Requests
        PROVE  /\ Mine(q)' = Mine(q) /\ Current(q)' = Current(q) /\ Looked(q)
               /\ \A e \in DOMAIN Mine(q).episodes :
                     Mine(q).episodes[e].podcast # p /\ e \in EpisodeIds
    <2>1. Mine(q)' = Mine(q) /\ Current(q)' = Current(q) /\ Looked(q)
      BY <1>1 DEF Mine, Current, LookedInv, Looked
    <2>2. ~PodcastInUse(p)
      BY DEF DeletePodcast
    <2>3. \A e \in DOMAIN Mine(q).episodes : Mine(q).episodes[e].podcast # p
      BY <2>2 DEF PodcastInUse, Mine
    <2>4. DOMAIN Mine(q).episodes \subseteq EpisodeIds
      BY TxTyped, TableOfDomain DEF Tables
    <2>5. QED
      BY <2>1, <2>3, <2>4
  <1>3. DOMAIN db.episodes \subseteq EpisodeIds /\ None \notin EpisodeIds
    BY TableOfDomain, PgAssumption DEF TypeOK, Tables
  <1>4. ASSUME NEW q \in Requests
        PROVE  Found(q)'
    BY <1>1, <1>2 DEF Looked, Found, KeyIs
  <1>5. ASSUME NEW q \in Requests, tx[q].phase = "write",
               <<Current(q).podcast, Current(q).url>> \notin raced'
        PROVE  /\ tx[q].found = None =>
                     Matching(db', Current(q)) = {} /\ Matching(Mine(q), Current(q)) = {}
               /\ tx[q].found \in DOMAIN Mine(q).episodes =>
                     tx[q].was = Mine(q).episodes[tx[q].found].ts
               /\ tx[q].found \in DOMAIN db'.episodes \ DOMAIN Mine(q).episodes =>
                     tx[q].was = db'.episodes[tx[q].found].ts
    <2>1. CASE Current(q).podcast = p
      <3>1. Matching(db', Current(q)) = {} /\ Matching(Mine(q), Current(q)) = {}
        BY <1>1, <1>2, <2>1 DEF Matching
      <3>2. tx[q].found \notin DOMAIN Mine(q).episodes
        BY <1>2, <1>3, <1>5, <2>1 DEF Looked, Found, KeyIs, SameKey
      <3>3. tx[q].found \notin DOMAIN db'.episodes
        BY <1>1, <1>2, <1>3, <1>5, <2>1 DEF Looked, Found, KeyIs, SameKey
      <3>4. QED
        BY <3>1, <3>2, <3>3
    <2>2. CASE Current(q).podcast # p
      <3>1. ~Raced(Current(q))
        BY <1>1, <1>5, <2>2 DEF Raced
      <3>2. Matching(db, Current(q)) = {} => Matching(db', Current(q)) = {}
        BY <1>1 DEF Matching
      <3>3. QED
        BY <1>1, <1>2, <1>5, <3>1, <3>2 DEF Looked, LookedEpisode
    <2>3. QED
      BY <2>1, <2>2
  <1>6. ASSUME NEW q \in Requests
        PROVE  LookedEpisode(q)'
    BY <1>1, <1>2, <1>5 DEF LookedEpisode, Raced, Matching
  <1>7. ASSUME NEW q \in Requests
        PROVE  LookedDevice(q)'
    <2>1. ASSUME NEW d \in Missing(q), d \notin raced'
          PROVE  d \notin raced
      <3>1. d \in Devices
        BY <2>1, TxTyped DEF Missing, ProgressInv, Progress, ProgressOf, Upload
      <3>2. {p} \X Urls \subseteq Podcasts \X Urls
        OBVIOUS
      <3>3. d \notin {p} \X Urls
        BY <3>1, <3>2, PgAssumption
      <3>4. QED
        BY <1>1, <2>1, <3>3
    <2>2. Missing(q)' = Missing(q)
      BY <1>1, <1>2 DEF Missing
    <2>3. QED
      BY <1>1, <1>2, <2>1, <2>2 DEF Looked, LookedDevice, Named
  <1>8. QED
    BY <1>4, <1>6, <1>7 DEF LookedInv

LEMMA DeleteDeviceLooked ==
    ASSUME TypeOK, LookedInv, NEW i \in DeviceIds, DeleteDevice(i)
    PROVE  LookedInv'
  <1>1. /\ DOMAIN db'.devices = DOMAIN db.devices \ {i}
        /\ \A j \in DOMAIN db'.devices : db'.devices[j] = db.devices[j]
        /\ DOMAIN db'.episodes = DOMAIN db.episodes
        /\ \A e \in DOMAIN db.episodes :
              SameKey(db'.episodes[e], db.episodes[e]) /\ db'.episodes[e].ts = db.episodes[e].ts
        /\ raced' = raced /\ tx' = tx
    BY DeleteDeviceStep
  <1>2. ASSUME NEW q \in Requests
        PROVE  Mine(q)' = Mine(q) /\ Current(q)' = Current(q) /\ Looked(q)
    BY <1>1 DEF Mine, Current, LookedInv, Looked
  <1>3. ASSUME NEW q \in Requests
        PROVE  Found(q)'
    BY <1>1, <1>2 DEF Looked, Found, KeyIs, SameKey
  <1>4. \A a : Matching(db, a) = {} => Matching(db', a) = {}
    BY <1>1 DEF Matching, SameKey
  <1>5. ASSUME NEW q \in Requests
        PROVE  LookedEpisode(q)'
    <2>1. LookedEpisode(q)
      BY <1>2 DEF Looked
    <2>2. Matching(db, Current(q)) = {} => Matching(db', Current(q)) = {}
      BY <1>4
    <2>3. QED
      BY <1>1, <1>2, <2>1, <2>2 DEF LookedEpisode, Raced, Matching
  <1>6. ASSUME NEW q \in Requests
        PROVE  LookedDevice(q)'
    <2>1. Missing(q)' = Missing(q)
      BY <1>1, <1>2 DEF Missing
    <2>2. QED
      BY <1>1, <1>2, <2>1 DEF Looked, LookedDevice, Named
  <1>7. QED
    BY <1>3, <1>5, <1>6 DEF LookedInv

-----------------------------------------------------------------------------
\* The invariant.

LEMMA InitInvariant == Init => IInv
  <1>1. SUFFICES ASSUME Init PROVE IInv
    OBVIOUS
  <1>2. db = NoRows /\ raced = {} /\ \A r \in Requests : tx[r] = NoTx /\ Mine(r) = NoRows
    BY <1>1 DEF Init, Mine, NoTx
  <1>3. TypeOK
    BY <1>1, NoRowsTyped DEF Init, TypeOK
  <1>4. ProgressInv
    BY <1>2 DEF ProgressInv, Progress, ProgressOf, NoTx
  <1>5. Empty(db) /\ \A r \in Requests : Empty(Mine(r))
    BY <1>2, NoRowsEmpty
  <1>6. RowsInv
    BY <1>5 DEF RowsInv, Empty, NumbersInv, RefersInv, Refers, RowsReferToRows, KeysInv,
                NamesInv, NamesUniqueUnlessRaced, OneRowInv, LatestInv, NotOlder
  <1>7. RecordedInv /\ LookedInv
    BY <1>2 DEF RecordedInv, LookedInv, Found, LookedEpisode, LookedDevice, Missing, NoTx
  <1>8. QED
    BY <1>3, <1>4, <1>6, <1>7 DEF IInv

LEMMA UploadStepInvariant ==
    ASSUME IInv, NEW r \in Requests, AddAction(r)
    PROVE  TypeOK' /\ RowsInv' /\ RecordedInv' /\ LookedInv'
  <1>1. TypeOK /\ ProgressInv /\ RowsInv /\ RecordedInv /\ LookedInv
    BY DEF IInv
  <1>2. ASSUME db' = db, raced' = raced, OthersSame(r), SameRows(r) \/ Empty(Mine(r)')
        PROVE  RowsInv'
    <2>1. \A q \in Requests : SameRows(q) \/ Empty(Mine(q)')
      BY <1>2 DEF OthersSame, SameRows, Mine
    <2>2. QED
      BY <1>1, <1>2, <2>1, QuietRows
  <1>3. raced' = raced => raced \subseteq raced'
    OBVIOUS
  <1>4. CASE \E batch \in Batches : Begin(r, batch)
    <2>1. PICK batch \in Batches : Begin(r, batch)
      BY <1>4
    <2>2. /\ TypeOK' /\ OthersSame(r) /\ db' = db /\ raced' = raced
          /\ tx'[r].phase = "podcast" /\ Mine(r)' = NoRows
      BY <1>1, <2>1, BeginStep DEF Mine
    <2>3. RowsInv'
      BY <1>2, <2>2, NoRowsEmpty
    <2>4. RecordedInv'
      BY <1>1, <2>2, RecordedKept
    <2>5. LookedInv'
      BY <1>1, <1>3, <2>2, LookedKept, NoRowsEmpty DEF Empty
    <2>6. QED
      BY <2>2, <2>3, <2>4, <2>5
  <1>5. CASE FindPodcast(r)
    <2>1. /\ TypeOK' /\ OthersSame(r) /\ db' = db /\ raced' = raced
          /\ tx'[r].phase \in {"device", "newPodcast"} /\ Mine(r)' = Mine(r)
      BY <1>1, <1>5, FindPodcastStep DEF Mine
    <2>2. RowsInv'
      BY <1>2, <2>1 DEF SameRows
    <2>3. RecordedInv'
      BY <1>1, <2>1, RecordedKept
    <2>4. LookedInv'
      BY <1>1, <1>3, <2>1, LookedKept
    <2>5. QED
      BY <2>1, <2>2, <2>3, <2>4
  <1>6. CASE InsertPodcast(r)
    <2>1. /\ TypeOK' /\ OthersSame(r) /\ db' = db /\ raced' = raced /\ tx'[r].phase = "device"
          /\ Mine(r)' = [Mine(r) EXCEPT !.podcasts = @ \cup {Current(r).podcast}]
          /\ Mine(r) \in Tables
      BY <1>1, <1>6, InsertPodcastStep, TxTyped DEF Mine
    <2>2. SameRows(r)
      BY <2>1 DEF SameRows, Tables
    <2>3. RowsInv'
      BY <1>2, <2>1, <2>2
    <2>4. RecordedInv'
      BY <1>1, <2>1, RecordedKept
    <2>5. LookedInv'
      BY <1>1, <1>3, <2>1, <2>2, LookedKept DEF SameRows
    <2>6. QED
      BY <2>1, <2>3, <2>4, <2>5
  <1>7. CASE FindDevice(r)
    <2>1. /\ TypeOK' /\ OthersSame(r) /\ db' = db /\ raced' = raced /\ Mine(r)' = Mine(r)
      BY <1>1, <1>7, FindDeviceStep DEF Mine
    <2>2. RowsInv'
      BY <1>2, <2>1 DEF SameRows
    <2>3. tx'[r].phase \notin {"find", "write"} \/ tx'[r].next = 1
      BY <1>1, <1>7, FindDeviceStep DEF Advanced
    <2>4. RecordedInv'
      BY <1>1, <2>1, <2>3, RecordedKept
    <2>5. QED
      BY <1>1, <1>7, <2>1, <2>2, <2>4, FindDeviceLooked
  <1>8. CASE InsertDevice(r)
    <2>1. /\ TypeOK' /\ OthersSame(r) /\ db' = db /\ raced \subseteq raced' /\ Advanced(r, tx'[r])
          /\ Mine(r)' = [Mine(r) EXCEPT !.devices = Put(@, NewDevice, Current(r).device)]
          /\ Mine(r) \in Tables
      BY <1>1, <1>8, InsertDeviceStep, TxTyped DEF Mine
    <2>2. RowsInv'
      <3>1. Current(r).device \in Missing(r)
        BY <1>8 DEF InsertDevice, Missing
      <3>2. QED
        BY <1>1, <1>8, <3>1, InsertDeviceStep, InsertDeviceRows DEF LookedInv
    <2>3. RecordedInv'
      BY <1>1, <2>1, RecordedKept DEF Advanced
    <2>4. Mine(r)'.episodes = Mine(r).episodes
      BY <2>1 DEF Tables
    <2>5. LookedInv'
      BY <1>1, <2>1, <2>4, LookedKept DEF Advanced
    <2>6. QED
      BY <2>1, <2>2, <2>3, <2>5
  <1>9. CASE FindEpisode(r)
    <2>1. /\ TypeOK' /\ OthersSame(r) /\ db' = db /\ raced' = raced /\ Mine(r)' = Mine(r)
      BY <1>1, <1>9, FindEpisodeStep DEF Mine
    <2>2. RowsInv'
      BY <1>2, <2>1 DEF SameRows
    <2>3. QED
      BY <1>1, <1>9, <2>1, <2>2, FindEpisodeRecorded, FindEpisodeLooked
  <1>10. CASE WriteEpisode(r)
    <2>1. TypeOK' /\ Current(r) \in Upload
      BY <1>1, <1>10, WriteEpisodeStep
    <2>2. WriteFacts(r, Current(r), NewEpisode(r), NewHist)
      BY <1>1, <1>10, WriteFactsHold DEF LookedInv
    <2>3. UnracedFacts(r, Current(r), NewEpisode(r))
      BY <1>1, <1>10, <2>2, UnracedFactsHold DEF LookedInv
    <2>4. RowsInv'
      BY <1>1, <2>1, <2>2, <2>3, WriteEpisodeRows
    <2>5. RecordedInv'
      BY <1>1, <1>10, <2>2, WriteEpisodeRecorded
    <2>6. LookedInv'
      BY <1>1, <1>10, <2>2, WriteEpisodeLooked
    <2>7. QED
      BY <2>1, <2>4, <2>5, <2>6
  <1>11. CASE Commit(r)
    <2>1. TypeOK' /\ CommitFacts(r)
      BY <1>1, <1>11, CommitStep, CommitFactsHold
    <2>2. QED
      BY <1>1, <1>11, <2>1, CommitRows, CommitRecorded, CommitLooked
  <1>12. CASE Rollback(r)
    <2>1. /\ TypeOK' /\ OthersSame(r) /\ db' = db /\ raced' = raced /\ tx'[r].phase = "idle"
          /\ Mine(r)' = NoRows
      BY <1>1, <1>12, RollbackStep DEF Mine, NoTx
    <2>2. RowsInv'
      BY <1>2, <2>1, NoRowsEmpty
    <2>3. RecordedInv'
      BY <1>1, <2>1, RecordedKept
    <2>4. LookedInv'
      BY <1>1, <1>3, <2>1, LookedKept, NoRowsEmpty DEF Empty
    <2>5. QED
      BY <2>1, <2>2, <2>3, <2>4
  <1>13. QED
    BY <1>4, <1>5, <1>6, <1>7, <1>8, <1>9, <1>10, <1>11, <1>12 DEF AddAction

LEMMA SaveDeviceStepInvariant ==
    ASSUME IInv, NEW r \in Requests, SaveDevice(r)
    PROVE  TypeOK' /\ RowsInv' /\ RecordedInv' /\ LookedInv'
  <1>1. TypeOK /\ ProgressInv /\ RowsInv /\ RecordedInv /\ LookedInv /\ Progress(r)
    BY DEF IInv, ProgressInv
  <1>2. ASSUME db' = db, raced' = raced, OthersSame(r), SameRows(r) \/ Empty(Mine(r)')
        PROVE  RowsInv'
    <2>1. \A q \in Requests : SameRows(q) \/ Empty(Mine(q)')
      BY <1>2 DEF OthersSame, SameRows, Mine
    <2>2. QED
      BY <1>1, <1>2, <2>1, QuietRows
  <1>3. CASE \E d \in Devices : BeginNaming(r, d)
    <2>1. /\ TypeOK' /\ OthersSame(r) /\ db' = db /\ raced' = raced
          /\ tx'[r].phase = "name" /\ Mine(r)' = NoRows
      BY <1>1, <1>3, BeginNamingStep DEF Mine
    <2>2. RowsInv'
      BY <1>2, <2>1, NoRowsEmpty
    <2>3. RecordedInv'
      BY <1>1, <2>1, RecordedKept
    <2>4. LookedInv'
      BY <1>1, <2>1, LookedKept, NoRowsEmpty DEF Empty
    <2>5. QED
      BY <2>1, <2>2, <2>3, <2>4
  <1>4. CASE FindName(r)
    <2>1. /\ TypeOK' /\ OthersSame(r) /\ db' = db /\ raced' = raced /\ Mine(r)' = Mine(r)
          /\ tx'[r].next = 1
      BY <1>1, <1>4, FindNameStep DEF Mine, FindName, Progress, ProgressOf
    <2>2. RowsInv'
      BY <1>2, <2>1 DEF SameRows
    <2>3. RecordedInv'
      BY <1>1, <2>1, RecordedKept
    <2>4. QED
      BY <1>1, <1>4, <2>1, <2>2, <2>3, FindNameLooked
  <1>5. CASE InsertName(r)
    <2>1. /\ TypeOK' /\ OthersSame(r) /\ db' = db /\ raced \subseteq raced'
          /\ tx'[r].phase = "find" /\ tx'[r].next = 1
          /\ Mine(r)' = [Mine(r) EXCEPT !.devices = Put(@, NewDevice, tx[r].name)]
          /\ Mine(r) \in Tables
      BY <1>1, <1>5, InsertNameStep, TxTyped DEF Mine
    <2>2. RowsInv'
      <3>1. tx[r].name \in Missing(r)
        BY <1>5 DEF InsertName, Missing
      <3>2. QED
        BY <1>1, <1>5, <3>1, InsertNameStep, InsertDeviceRows DEF LookedInv
    <2>3. RecordedInv'
      BY <1>1, <2>1, RecordedKept
    <2>4. Mine(r)'.episodes = Mine(r).episodes
      BY <2>1 DEF Tables
    <2>5. LookedInv'
      BY <1>1, <2>1, <2>4, LookedKept
    <2>6. QED
      BY <2>1, <2>2, <2>3, <2>5
  <1>6. CASE \E p \in Podcasts : InsertSubscribed(r, p)
    <2>1. PICK p \in Podcasts : InsertSubscribed(r, p)
      BY <1>6
    <2>2. /\ TypeOK' /\ OthersSame(r) /\ db' = db /\ raced' = raced
          /\ tx[r].phase = "find" /\ tx[r].batch = <<>>
          /\ tx'[r].phase = "find" /\ tx'[r].next = tx[r].next
          /\ Mine(r)' = [Mine(r) EXCEPT !.podcasts = @ \cup {p}] /\ Mine(r) \in Tables
      BY <1>1, <2>1, InsertSubscribedStep, TxTyped DEF Mine
    <2>3. tx'[r].next = 1
      BY <1>1, <2>2 DEF Progress, ProgressOf
    <2>4. SameRows(r)
      BY <2>2 DEF SameRows, Tables
    <2>5. RowsInv'
      BY <1>2, <2>2, <2>4
    <2>6. RecordedInv'
      BY <1>1, <2>2, <2>3, RecordedKept
    <2>7. LookedInv'
      BY <1>1, <2>2, <2>4, LookedKept DEF SameRows
    <2>8. QED
      BY <2>2, <2>5, <2>6, <2>7
  <1>7. QED
    BY <1>3, <1>4, <1>5, <1>6 DEF SaveDevice

LEMMA StepInvariant ==
    ASSUME IInv, [Next]_vars
    PROVE  IInv'
  <1>1. TypeOK /\ ProgressInv /\ RowsInv /\ RecordedInv /\ LookedInv
    BY DEF IInv
  <1>2. ProgressInv'
    BY <1>1, ProgressStep
  <1>3. CASE \E r \in Requests : AddAction(r)
    BY <1>2, <1>3, UploadStepInvariant DEF IInv
  <1>4. CASE \E r \in Requests : SaveDevice(r)
    BY <1>2, <1>4, SaveDeviceStepInvariant DEF IInv
  <1>5. ASSUME NEW p \in Podcasts, DeletePodcast(p)
        PROVE  IInv'
    <2>1. TypeOK' /\ RowsInv' /\ LookedInv'
      BY <1>1, <1>5, DeletePodcastStep, DeletePodcastRows, DeletePodcastLooked
    <2>2. /\ tx' = tx /\ DOMAIN db'.episodes \subseteq DOMAIN db.episodes
          /\ \A i \in DOMAIN db'.episodes : SameKey(db'.episodes[i], db.episodes[i])
      BY <1>1, <1>5, DeletePodcastStep DEF SameKey
    <2>3. RecordedInv'
      BY <1>1, <2>2, DeleteRecorded
    <2>4. QED
      BY <1>2, <2>1, <2>3 DEF IInv
  <1>6. ASSUME NEW i \in DeviceIds, DeleteDevice(i)
        PROVE  IInv'
    <2>1. TypeOK' /\ RowsInv' /\ LookedInv'
      BY <1>1, <1>6, DeleteDeviceStep, DeleteDeviceRows, DeleteDeviceLooked
    <2>2. /\ tx' = tx /\ DOMAIN db'.episodes \subseteq DOMAIN db.episodes
          /\ \A e \in DOMAIN db'.episodes : SameKey(db'.episodes[e], db.episodes[e])
      BY <1>1, <1>6, DeleteDeviceStep
    <2>3. RecordedInv'
      BY <1>1, <2>2, DeleteRecorded
    <2>4. QED
      BY <1>2, <2>1, <2>3 DEF IInv
  <1>7. CASE UNCHANGED vars
    <2>1. db' = db /\ tx' = tx /\ raced' = raced
      BY <1>7 DEF vars
    <2>2. TypeOK'
      BY <1>1, <2>1 DEF TypeOK
    <2>3. \A q \in Requests : Mine(q)' = Mine(q) /\ Current(q)' = Current(q)
      BY <2>1 DEF Mine, Current
    <2>4. RowsInv'
      BY <1>1, <2>1, <2>3, QuietRows DEF SameRows
    <2>5. RecordedInv'
      BY <1>1, <2>1, <2>3 DEF RecordedInv
    <2>6. \A q \in Requests : Found(q)' /\ LookedDevice(q)'
      <3>1. \A q \in Requests : Missing(q)' = Missing(q)
        BY <2>1, <2>3 DEF Missing
      <3>2. QED
        BY <1>1, <2>1, <2>3, <3>1 DEF LookedInv, Found, LookedDevice, Named
    <2>7. \A q \in Requests : LookedEpisode(q)'
      BY <1>1, <2>1, <2>3 DEF LookedInv, LookedEpisode, Raced, Matching
    <2>8. QED
      BY <1>2, <2>2, <2>4, <2>5, <2>6, <2>7 DEF IInv, LookedInv
  <1>8. QED
    BY <1>3, <1>4, <1>5, <1>6, <1>7 DEF Next

\* Whatever uploads and deletions overlap, the rows of every open transaction fit to the
\* database it will be committed to: EpisodeStorePg's invariant holds.
THEOREM PgInvariant == Spec => []IInv
  BY InitInvariant, StepInvariant, PTL DEF Spec

\* Every variable of the PostgreSQL upload keeps its shape.
THEOREM PgTypeCorrect == Spec => []TypeOK
  <1>1. IInv => TypeOK
    BY DEF IInv
  <1>2. QED
    BY <1>1, PgInvariant, PTL

\* DeleteDevice and DeletePodcast of the PostgreSQL repository leave no row of an episode or
\* of the history that refers to a row that does not exist, whatever uploads are open.
THEOREM PgReferencesHold == Spec => []RowsReferToRows
  <1>1. IInv => RowsReferToRows
    BY DEF IInv, RowsInv, RefersInv
  <1>2. QED
    BY <1>1, PgInvariant, PTL

\* Two rows of an episode, and a row that does not show the latest action of its history,
\* only come from insertOrUpdateEpisode running for that episode in overlapping uploads.
THEOREM DuplicatesRaced == Spec => []LatestUnlessRaced
  <1>1. ASSUME IInv, NEW i \in DOMAIN db.episodes, ~Raced(db.episodes[i])
        PROVE  /\ Matching(db, db.episodes[i]) = {i}
               /\ \A h \in DOMAIN db.hist :
                     db.hist[h].episode = i => db.hist[h].ts <= db.episodes[i].ts
               /\ \E h \in DOMAIN db.hist :
                     db.hist[h].episode = i /\ db.hist[h].ts = db.episodes[i].ts
    <2>1. \A j \in DOMAIN db.episodes : SameKey(db.episodes[j], db.episodes[i]) => j = i
      BY <1>1 DEF IInv, RowsInv, OneRowInv, SameKey
    <2>2. Matching(db, db.episodes[i]) = {i}
      BY <2>1 DEF Matching, SameKey
    <2>3. QED
      BY <1>1, <2>2 DEF IInv, RowsInv, LatestInv, NotOlder, Shown
  <1>2. IInv => LatestUnlessRaced
    BY <1>1 DEF LatestUnlessRaced, Raced
  <1>3. QED
    BY <1>2, PgInvariant, PTL

\* Two devices of one name only come from overlapping requests that both look for it and
\* then create it: uploads, DevicesSrv.UpdateDevice and the changes of subscriptions.
THEOREM NamesRaced == Spec => []NamesUniqueUnlessRaced
  <1>1. IInv => NamesUniqueUnlessRaced
    BY DEF IInv, RowsInv, NamesInv
  <1>2. QED
    BY <1>1, PgInvariant, PTL

\* An upload that succeeds has added to the history every action of its batch, under a row
\* of the right episode, and has kept what others had recorded, however they overlapped.
THEOREM PgHistoryKept == Spec => HistoryKept
  <1>1. ASSUME IInv, NEW r \in Requests, Commit(r)
        PROVE  /\ \A h \in DOMAIN db.hist : h \in DOMAIN db'.hist /\ db'.hist[h] = db.hist[h]
               /\ \A k \in DOMAIN tx[r].batch :
                     LET a == tx[r].batch[k]
                     IN  \E h \in DOMAIN db'.hist \ DOMAIN db.hist :
                           /\ db'.hist[h].ts = a.ts
                           /\ db'.episodes[db'.hist[h].episode].podcast = a.podcast
                           /\ db'.episodes[db'.hist[h].episode].url = a.url
    <2>1. TypeOK /\ ProgressInv /\ RowsInv /\ RecordedInv
      BY <1>1 DEF IInv
    <2>2. CommitFacts(r) /\ Done(r)
      BY <1>1, <2>1, CommitFactsHold DEF Commit
    <2>3. DOMAIN Mine(r).hist \cap DOMAIN db.hist = {}
      BY <2>1 DEF RowsInv, NumbersInv
    <2>4. \A h \in DOMAIN db.hist : h \in DOMAIN db'.hist /\ db'.hist[h] = db.hist[h]
      BY <2>2, <2>3 DEF CommitFacts
    <2>5. ASSUME NEW k \in DOMAIN tx[r].batch
          PROVE  \E h \in DOMAIN db'.hist \ DOMAIN db.hist :
                    /\ db'.hist[h].ts = tx[r].batch[k].ts
                    /\ SameKey(db'.episodes[db'.hist[h].episode], tx[r].batch[k])
      <3>1. tx[r].batch \in Seq(Upload) /\ tx[r].next \in Nat
        BY <2>1, <2>2, TxTyped DEF ProgressInv, Done
      <3>2. k \in 1 .. tx[r].next - 1
        BY <2>2, <3>1 DEF Done
      <3>3. RecordedIn(Mine(r), db.episodes, tx[r].batch[k])
        BY <2>1, <2>2, <3>2 DEF RecordedInv, Done
      <3>4. PICK h \in DOMAIN Mine(r).hist :
              /\ Mine(r).hist[h].ts = tx[r].batch[k].ts
              /\ KeyIs(db.episodes, Mine(r).hist[h].episode, tx[r].batch[k])
              /\ KeyIs(Mine(r).episodes, Mine(r).hist[h].episode, tx[r].batch[k])
        BY <3>3 DEF RecordedIn
      <3>5. h \in DOMAIN db'.hist \ DOMAIN db.hist /\ db'.hist[h] = Mine(r).hist[h]
        BY <2>2, <2>3 DEF CommitFacts
      <3>6. Mine(r).hist[h].episode \in DOMAIN Mine(r).episodes \cup DOMAIN db.episodes
        BY <2>1 DEF RowsInv, RefersInv, Refers
      <3>7. SameKey(db'.episodes[Mine(r).hist[h].episode], tx[r].batch[k])
        BY <2>2, <3>4, <3>6 DEF CommitFacts, KeyIs
      <3>8. QED
        BY <3>4, <3>5, <3>7
    <2>6. QED
      BY <2>4, <2>5 DEF SameKey
  <1>2. IInv /\ [Next]_vars => [\A r \in Requests : Commit(r) =>
          /\ \A h \in DOMAIN db.hist : h \in DOMAIN db'.hist /\ db'.hist[h] = db.hist[h]
          /\ \A k \in DOMAIN tx[r].batch :
                LET a == tx[r].batch[k]
                IN  \E h \in DOMAIN db'.hist \ DOMAIN db.hist :
                      /\ db'.hist[h].ts = a.ts
                      /\ db'.episodes[db'.hist[h].episode].podcast = a.podcast
                      /\ db'.episodes[db'.hist[h].episode].url = a.url]_vars
    BY <1>1
  <1>3. QED
    BY <1>2, PgInvariant, PTL DEF Spec, HistoryKept

================================================================================
