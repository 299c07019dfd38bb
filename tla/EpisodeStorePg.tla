------------------------------ MODULE EpisodeStorePg ------------------------------
(***************************************************************************)
(* Uploads of episode actions against the PostgreSQL repository, and the   *)
(* other requests that create devices and podcasts.                        *)
(*                                                                         *)
(* InTransaction asks for the default isolation, READ COMMITTED: every     *)
(* statement sees what is committed when it runs and what its own          *)
(* transaction has written.  A row that another transaction has changed    *)
(* makes an UPDATE wait, and nothing makes a look up wait.  No unique      *)
(* index covers the names of devices or the addresses of episodes.         *)
(*                                                                         *)
(* A row of a device and of an episode has a number here, because there    *)
(* may be two with the same name.  An action is its device and its time.   *)
(***************************************************************************)
EXTENDS Naturals, Sequences

CONSTANTS
    Podcasts, Urls, Devices, Times,
    DeviceIds, EpisodeIds, HistIds,   \* values of the columns id
    Requests,                         \* requests that may be in progress at once
    Batches,                          \* the lists of actions clients may send
    None                              \* SQL NULL

Upload == [podcast : Podcasts, url : Urls, device : Devices, ts : Times]

ASSUME PgAssumption ==
    /\ Times \subseteq Nat
    /\ \A batch \in Batches : batch \in Seq(Upload) /\ batch # <<>>
    /\ None \notin DeviceIds \cup EpisodeIds
    /\ Devices \cap (Podcasts \X Urls) = {}

VARIABLES
    db,      \* the committed content of the tables
    tx,      \* the transaction of each request
    raced    \* history: what overlapping requests have looked up or written both

vars == <<db, tx, raced>>

-----------------------------------------------------------------------------

EpisodeRow == [podcast : Podcasts, url : Urls, device : DeviceIds \cup {None}, ts : Times]
HistRow == [episode : EpisodeIds, device : DeviceIds \cup {None}, ts : Times]

TableOf(Ids, Row) == UNION {[S -> Row] : S \in SUBSET Ids}

\* Rows of the tables: all that is committed, or what a transaction has written.
Tables ==
    [podcasts : SUBSET Podcasts,
     devices  : TableOf(DeviceIds, Devices),
     episodes : TableOf(EpisodeIds, EpisodeRow),
     hist     : TableOf(HistIds, HistRow)]

NoRows ==
    [podcasts |-> {}, devices |-> [i \in {} |-> None],
     episodes |-> [i \in {} |-> None], hist |-> [h \in {} |-> None]]

Phases ==
    {"idle", "podcast", "newPodcast", "device", "newDevice", "find", "write", "name", "newName"}

NoTx ==
    [phase |-> "idle", batch |-> <<>>, next |-> 1, name |-> None, podcasts |-> {},
     devices |-> [d \in {} |-> None], found |-> None, was |-> 0, mine |-> NoRows]

TxState ==
    [phase    : Phases,
     batch    : Batches \cup {<<>>},           \* of an upload
     next     : Nat,
     name     : Devices \cup {None},           \* of a device, in a request without a batch
     podcasts : SUBSET Podcasts,               \* the cache of the podcasts
     devices  : TableOf(Devices, DeviceIds),   \* the cache of the devices
     found    : EpisodeIds \cup {None},        \* epinfo.ID; None if there was no row
     was      : Nat,                           \* epinfo.UpdatedAt
     mine     : Tables]                        \* what it has inserted and updated

\* One type invariant: every variable has its shape.
TypeOK ==
    /\ db \in Tables
    /\ tx \in [Requests -> TxState]
    /\ raced \subseteq (Podcasts \X Urls) \cup Devices

Init ==
    /\ db = NoRows
    /\ tx = [r \in Requests |-> NoTx]
    /\ raced = {}

-----------------------------------------------------------------------------
\* PostgreSQL.

\* Table f with the rows of g, which are newer.
Over(f, g) == [i \in DOMAIN f \cup DOMAIN g |-> IF i \in DOMAIN g THEN g[i] ELSE f[i]]

Put(f, i, row) == [j \in DOMAIN f \cup {i} |-> IF j = i THEN row ELSE f[j]]

Merged(s, t) ==
    [podcasts |-> s.podcasts \cup t.podcasts,
     devices  |-> Over(s.devices, t.devices),
     episodes |-> Over(s.episodes, t.episodes),
     hist     |-> Over(s.hist, t.hist)]

\* What a statement of r sees now.
View(r) == Merged(db, tx[r].mine)

Others(r) == Requests \ {r}

\* Numbers come from a sequence: none that is in use or remembered is given out again.
FreshDevices ==
    DeviceIds \ (DOMAIN db.devices \cup UNION {
        DOMAIN tx[r].mine.devices
        \cup {tx[r].devices[d] : d \in DOMAIN tx[r].devices} : r \in Requests})
FreshEpisodes ==
    EpisodeIds \ (DOMAIN db.episodes \cup UNION {
        DOMAIN tx[r].mine.episodes \cup {tx[r].found} : r \in Requests})
FreshHist ==
    HistIds \ (DOMAIN db.hist \cup UNION {DOMAIN tx[r].mine.hist : r \in Requests})

\* Another transaction has changed row i of the episodes.
Locked(r, i) == \E q \in Others(r) : i \in DOMAIN tx[q].mine.episodes

\* A transaction has written rows that refer to device row i, or changed such a row.
DeviceInUse(i) ==
    \E r \in Requests :
        LET mine == tx[r].mine
        IN  \/ \E e \in DOMAIN mine.episodes :
                  \/ mine.episodes[e].device = i
                  \/ e \in DOMAIN db.episodes /\ db.episodes[e].device = i
            \/ \E h \in DOMAIN mine.hist : mine.hist[h].device = i

\* A transaction has written rows that refer to podcast p or to its episodes.
PodcastInUse(p) ==
    \E r \in Requests :
        LET mine == tx[r].mine
        IN  \/ \E e \in DOMAIN mine.episodes : mine.episodes[e].podcast = p
            \/ \E h \in DOMAIN mine.hist :
                  LET e == mine.hist[h].episode
                  IN  e \in DOMAIN db.episodes /\ db.episodes[e].podcast = p

-----------------------------------------------------------------------------
\* EpisodesSrv.AddAction.

Current(r) == tx[r].batch[tx[r].next]

Named(t, d) == {i \in DOMAIN t.devices : t.devices[i] = d}

\* ListDevices, into a map by name: of rows with one name the last that was listed stays.
DeviceCaches(t) ==
    {cache \in TableOf(Devices, DOMAIN t.devices) :
        /\ \A d \in Devices : d \in DOMAIN cache <=> Named(t, d) # {}
        /\ \A d \in DOMAIN cache : t.devices[cache[d]] = d}

\* ListSubscribedPodcasts, into a map by address.
PodcastCache(t) == t.podcasts

\* Begin, and the lists of podcasts and devices that fill the caches.
Begin(r, batch) ==
    /\ tx[r].phase = "idle"
    /\ \E cache \in DeviceCaches(db) :
          tx' = [tx EXCEPT ![r] = [NoTx EXCEPT
              !.phase = "podcast", !.batch = batch, !.podcasts = PodcastCache(db),
              !.devices = cache]]
    /\ UNCHANGED <<db, raced>>

\* The podcast is in the cache, or GetPodcast finds it or not.
FindPodcast(r) ==
    LET p == Current(r).podcast
    IN  /\ tx[r].phase = "podcast"
        /\ tx' = IF p \in tx[r].podcasts \cup View(r).podcasts
                 THEN [tx EXCEPT ![r].phase = "device", ![r].podcasts = @ \cup {p}]
                 ELSE [tx EXCEPT ![r].phase = "newPodcast"]
        /\ UNCHANGED <<db, raced>>

\* SavePodcast inserts.  The unique index makes it wait for another insert of the address,
\* and fail if that was committed.
InsertPodcast(r) ==
    LET p == Current(r).podcast
    IN  /\ tx[r].phase = "newPodcast"
        /\ p \notin db.podcasts
        /\ \A q \in Others(r) : p \notin tx[q].mine.podcasts
        /\ tx' = [tx EXCEPT ![r].phase = "device", ![r].podcasts = @ \cup {p},
                            ![r].mine.podcasts = @ \cup {p}]
        /\ UNCHANGED <<db, raced>>

\* After the last action the second loop begins.
Resolved(r, d, i) ==
    LET last == tx[r].next = Len(tx[r].batch)
    IN  [tx EXCEPT ![r].devices = Put(@, d, i),
                   ![r].phase = IF last THEN "find" ELSE "podcast",
                   ![r].next = IF last THEN 1 ELSE @ + 1]

\* Mutant: a device that is not in the cache is inserted without a look.
FindDeviceCached(r) ==
    LET d == Current(r).device
    IN  /\ tx[r].phase = "device"
        /\ IF d \in DOMAIN tx[r].devices
           THEN tx' = Resolved(r, d, tx[r].devices[d])
           ELSE tx' = [tx EXCEPT ![r].phase = "newDevice"]
        /\ UNCHANGED <<db, raced>>

\* The device is in the cache, or GetDevice finds one of that name or none.
FindDevice(r) ==
    LET d == Current(r).device
    IN  /\ tx[r].phase = "device"
        /\ IF d \in DOMAIN tx[r].devices
           THEN tx' = Resolved(r, d, tx[r].devices[d])
           ELSE IF Named(View(r), d) # {}
           THEN \E i \in Named(View(r), d) : tx' = Resolved(r, d, i)
           ELSE tx' = [tx EXCEPT ![r].phase = "newDevice"]
        /\ UNCHANGED <<db, raced>>

\* SaveDevice inserts, whatever others have inserted since.
InsertDevice(r) ==
    LET d == Current(r).device
        i == CHOOSE i \in FreshDevices : TRUE
    IN  /\ tx[r].phase = "newDevice"
        /\ FreshDevices # {}
        /\ tx' = [Resolved(r, d, i) EXCEPT ![r].mine.devices = Put(@, i, d)]
        /\ raced' = IF \E q \in Others(r) : Named(tx[q].mine, d) # {}
                    THEN raced \cup {d} ELSE raced
        /\ UNCHANGED db

Matching(t, a) ==
    {i \in DOMAIN t.episodes : t.episodes[i].podcast = a.podcast /\ t.episodes[i].url = a.url}

\* Mutant: the date of a row that is not there is NULL.
FindEpisodeNull(r) ==
    LET t == View(r)
        a == Current(r)
    IN  /\ tx[r].phase = "find"
        /\ tx[r].next <= Len(tx[r].batch)
        /\ IF Matching(t, a) = {}
           THEN tx' = [tx EXCEPT ![r].phase = "write", ![r].found = None, ![r].was = None]
           ELSE \E i \in Matching(t, a) :
                  tx' = [tx EXCEPT ![r].phase = "write", ![r].found = i,
                                   ![r].was = t.episodes[i].ts]
        /\ UNCHANGED <<db, raced>>

\* insertOrUpdateEpisode: SELECT id, updated_at.
FindEpisode(r) ==
    LET t == View(r)
        a == Current(r)
    IN  /\ tx[r].phase = "find"
        /\ tx[r].next <= Len(tx[r].batch)
        /\ IF Matching(t, a) = {}
           THEN tx' = [tx EXCEPT ![r].phase = "write", ![r].found = None, ![r].was = 0]
           ELSE \E i \in Matching(t, a) :
                  tx' = [tx EXCEPT ![r].phase = "write", ![r].found = i,
                                   ![r].was = t.episodes[i].ts]
        /\ UNCHANGED <<db, raced>>

\* Another transaction that has not ended has written the episode of a.
Racing(r, a) == \E q \in Others(r) : Matching(tx[q].mine, a) # {}

\* The episode row of the current action.
RowOf(r) ==
    LET a == Current(r)
    IN  [podcast |-> a.podcast, url |-> a.url, device |-> tx[r].devices[a.device], ts |-> a.ts]

\* The transaction has written the history row of the current action, and these episodes.
Written(r, i, episodes, h) ==
    LET a == Current(r)
    IN  [tx EXCEPT
            ![r].mine.episodes = episodes,
            ![r].mine.hist = Put(@, h, [episode |-> i, device |-> tx[r].devices[a.device],
                                        ts |-> a.ts]),
            ![r].phase = "find", ![r].found = None, ![r].next = @ + 1]

\* The foreign keys of the rows to write hold.
RefsFound(r, i) ==
    LET a == Current(r)
        t == View(r)
    IN  /\ tx[r].devices[a.device] \in DOMAIN t.devices
        /\ IF i = None THEN a.podcast \in t.podcasts ELSE i \in DOMAIN t.episodes

\* Mutant: the date of the row is not compared.
WriteAnyway(r) ==
    LET a == Current(r)
        i == IF tx[r].found = None THEN CHOOSE e \in FreshEpisodes : TRUE ELSE tx[r].found
        h == CHOOSE x \in FreshHist : TRUE
    IN  /\ tx[r].phase = "write"
        /\ RefsFound(r, tx[r].found)
        /\ FreshHist # {}
        /\ tx[r].found = None => FreshEpisodes # {}
        /\ tx[r].found # None => ~Locked(r, i)
        /\ tx' = Written(r, i, Put(tx[r].mine.episodes, i, RowOf(r)), h)
        /\ raced' = IF Racing(r, a) THEN raced \cup {<<a.podcast, a.url>>} ELSE raced
        /\ UNCHANGED db

\* Mutant: an action that is not newer than the row is not recorded.
WriteNewer(r) ==
    LET a == Current(r)
        new == tx[r].found = None
        i == IF new THEN CHOOSE e \in FreshEpisodes : TRUE ELSE tx[r].found
        h == CHOOSE x \in FreshHist : TRUE
    IN  /\ tx[r].phase = "write"
        /\ RefsFound(r, tx[r].found)
        /\ FreshHist # {}
        /\ new => FreshEpisodes # {}
        /\ ~new => ~Locked(r, i)
        /\ tx' = IF new \/ tx[r].was < a.ts
                 THEN Written(r, i, Put(tx[r].mine.episodes, i, RowOf(r)), h)
                 ELSE [tx EXCEPT ![r].phase = "find", ![r].found = None, ![r].next = @ + 1]
        /\ raced' = IF Racing(r, a) THEN raced \cup {<<a.podcast, a.url>>} ELSE raced
        /\ UNCHANGED db

\* Insert the episode, or update the row found (waiting for a transaction that has changed
\* it) if it was older, or skip; then the history row.
WriteEpisode(r) ==
    LET a == Current(r)
        new == tx[r].found = None
        i == IF new THEN CHOOSE e \in FreshEpisodes : TRUE ELSE tx[r].found
        h == CHOOSE x \in FreshHist : TRUE
    IN  /\ tx[r].phase = "write"
        /\ RefsFound(r, tx[r].found)
        /\ FreshHist # {}
        /\ new => FreshEpisodes # {}
        /\ ~new /\ tx[r].was < a.ts => ~Locked(r, i)
        /\ tx' = Written(r, i, IF new \/ tx[r].was < a.ts
                               THEN Put(tx[r].mine.episodes, i, RowOf(r))
                               ELSE tx[r].mine.episodes, h)
        /\ raced' = IF Racing(r, a) THEN raced \cup {<<a.podcast, a.url>>} ELSE raced
        /\ UNCHANGED db

-----------------------------------------------------------------------------
\* DevicesSrv.UpdateDevice, and SubscriptionsSrv.ReplaceSubscriptions and ChangeSubscriptions.
\* What they change in rows that exist (a caption, a subscription) is not modelled.

BeginNaming(r, d) ==
    /\ tx[r].phase = "idle"
    /\ tx' = [tx EXCEPT ![r] = [NoTx EXCEPT !.phase = "name", !.name = d]]
    /\ UNCHANGED <<db, raced>>

\* GetDevice finds a device of that name or none.
FindName(r) ==
    /\ tx[r].phase = "name"
    /\ tx' = [tx EXCEPT ![r].phase =
          IF Named(View(r), tx[r].name) # {} THEN "find" ELSE "newName"]
    /\ UNCHANGED <<db, raced>>

\* SaveDevice, or createUserDevice, which also looks for the device that it has inserted.
InsertName(r) ==
    LET d == tx[r].name
        i == CHOOSE i \in FreshDevices : TRUE
    IN  /\ tx[r].phase = "newName"
        /\ FreshDevices # {}
        /\ tx' = [tx EXCEPT ![r].phase = "find", ![r].mine.devices = Put(@, i, d)]
        /\ raced' = IF \E q \in Others(r) : Named(tx[q].mine, d) # {}
                    THEN raced \cup {d} ELSE raced
        /\ UNCHANGED db

\* The two requests on subscriptions go on and insert the podcasts that are new.
InsertSubscribed(r, p) ==
    /\ tx[r].phase = "find" /\ tx[r].batch = <<>>
    /\ p \notin db.podcasts
    /\ \A q \in Requests : p \notin tx[q].mine.podcasts
    /\ tx' = [tx EXCEPT ![r].mine.podcasts = @ \cup {p}]
    /\ UNCHANGED <<db, raced>>

-----------------------------------------------------------------------------
\* The end of a transaction.

Done(r) == tx[r].phase = "find" /\ tx[r].next > Len(tx[r].batch)

\* The device that r has looked for and not found.
Missing(r) ==
    IF tx[r].phase = "newDevice" THEN {Current(r).device}
    ELSE IF tx[r].phase = "newName" THEN {tx[r].name} ELSE {}

\* What others have looked up, and have not acted on yet, is out of date when r commits.
Outdated(r) ==
    {<<Current(q).podcast, Current(q).url>> :
        q \in {x \in Others(r) :
                  tx[x].phase = "write" /\ Matching(tx[r].mine, Current(x)) # {}}}
    \cup {d \in UNION {Missing(q) : q \in Others(r)} : Named(tx[r].mine, d) # {}}

Commit(r) ==
    /\ Done(r)
    /\ db' = View(r)
    /\ tx' = [tx EXCEPT ![r] = NoTx]
    /\ raced' = raced \cup Outdated(r)

\* A statement fails (a unique index, a foreign key, a deadlock, the connection).
Rollback(r) ==
    /\ tx[r].phase # "idle"
    /\ tx' = [tx EXCEPT ![r] = NoTx]
    /\ UNCHANGED <<db, raced>>

-----------------------------------------------------------------------------
\* The other writers, which wait for the rows that uploads have written.

\* Mutant: an insert does not lock the rows it refers to.
DeletePodcastAtOnce(p) ==
    LET left == {i \in DOMAIN db.episodes : db.episodes[i].podcast # p}
    IN  /\ p \in db.podcasts
        /\ db' = [db EXCEPT
              !.podcasts = @ \ {p},
              !.episodes = [i \in left |-> @[i]],
              !.hist = [h \in {h \in DOMAIN @ : @[h].episode \in left} |-> @[h]]]
        /\ raced' = raced \ ({p} \X Urls)
        /\ UNCHANGED tx

DeletePodcast(p) ==
    LET left == {i \in DOMAIN db.episodes : db.episodes[i].podcast # p}
    IN  /\ p \in db.podcasts
        /\ ~PodcastInUse(p)
        /\ db' = [db EXCEPT
              !.podcasts = @ \ {p},
              !.episodes = [i \in left |-> @[i]],
              !.hist = [h \in {h \in DOMAIN @ : @[h].episode \in left} |-> @[h]]]
        /\ raced' = raced \ ({p} \X Urls)
        /\ UNCHANGED tx

DeleteDevice(i) ==
    /\ i \in DOMAIN db.devices
    /\ ~DeviceInUse(i)
    /\ db' = [db EXCEPT
          !.devices = [j \in DOMAIN @ \ {i} |-> @[j]],
          !.episodes = [e \in DOMAIN @ |->
              IF @[e].device = i THEN [@[e] EXCEPT !.device = None] ELSE @[e]],
          !.hist = [h \in DOMAIN @ |->
              IF @[h].device = i THEN [@[h] EXCEPT !.device = None] ELSE @[h]]]
    /\ UNCHANGED <<tx, raced>>

-----------------------------------------------------------------------------

AddAction(r) ==
    \/ \E batch \in Batches : Begin(r, batch)
    \/ FindPodcast(r) \/ InsertPodcast(r)
    \/ FindDevice(r) \/ InsertDevice(r)
    \/ FindEpisode(r) \/ WriteEpisode(r)
    \/ Commit(r) \/ Rollback(r)

SaveDevice(r) ==
    \/ \E d \in Devices : BeginNaming(r, d)
    \/ FindName(r) \/ InsertName(r)
    \/ \E p \in Podcasts : InsertSubscribed(r, p)

Next ==
    \/ \E r \in Requests : AddAction(r) \/ SaveDevice(r)
    \/ \E p \in Podcasts : DeletePodcast(p)
    \/ \E i \in DeviceIds : DeleteDevice(i)

Spec == Init /\ [][Next]_vars

-----------------------------------------------------------------------------

\* No row refers to a row that does not exist, whatever is deleted while uploads run.
RowsReferToRows ==
    /\ \A i \in DOMAIN db.episodes :
          /\ db.episodes[i].podcast \in db.podcasts
          /\ db.episodes[i].device \in DOMAIN db.devices \cup {None}
    /\ \A h \in DOMAIN db.hist :
          /\ db.hist[h].episode \in DOMAIN db.episodes
          /\ db.hist[h].device \in DOMAIN db.devices \cup {None}

\* Two rows of one episode, and a row that an older action has overwritten ("we need check
\* modification date before update"), come from uploads of that episode that overlap, and
\* from nothing else.
LatestUnlessRaced ==
    \A i \in DOMAIN db.episodes :
        LET row == db.episodes[i]
        IN  <<row.podcast, row.url>> \notin raced =>
                /\ Matching(db, row) = {i}
                /\ \A h \in DOMAIN db.hist : db.hist[h].episode = i => db.hist[h].ts <= row.ts
                /\ \E h \in DOMAIN db.hist : db.hist[h].episode = i /\ db.hist[h].ts = row.ts

\* Two devices of one name come from requests that overlap, any two of the uploads and the
\* requests on devices and subscriptions, and from nothing else.
NamesUniqueUnlessRaced ==
    \A i, j \in DOMAIN db.devices :
        db.devices[i] = db.devices[j] /\ db.devices[i] \notin raced => i = j

\* A successful upload has recorded every action of its batch and has lost no history of
\* others, also when it raced.
HistoryKept ==
    [][\A r \in Requests : Commit(r) =>
        /\ \A h \in DOMAIN db.hist : h \in DOMAIN db'.hist /\ db'.hist[h] = db.hist[h]
        /\ \A k \in DOMAIN tx[r].batch :
              LET a == tx[r].batch[k]
              IN  \E h \in DOMAIN db'.hist \ DOMAIN db.hist :
                    /\ db'.hist[h].ts = a.ts
                    /\ db'.episodes[db'.hist[h].episode].podcast = a.podcast
                    /\ db'.episodes[db'.hist[h].episode].url = a.url]_vars
================================================================================
