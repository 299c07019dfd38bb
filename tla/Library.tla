---------------------------------- MODULE Library ----------------------------------
(***************************************************************************)
(* The library of one user as its numbered rows, and what works on all of  *)
(* it: the settings, which refer to the other rows, the daily maintenance, *)
(* and the export and the import that carry a library to another database. *)
(*                                                                         *)
(* Uploads, deletions and settings are transactions and one step each (see *)
(* EpisodeStore for what happens inside an upload).  An export reads table *)
(* after table outside of a transaction, and everything may change between *)
(* two reads.  The row numbers in its file are those of the old database.  *)
(*                                                                         *)
(* All actions are plays, and an action is known by its time.  A setting   *)
(* is there or not: its one key is is_favorite.                            *)
(***************************************************************************)
EXTENDS Naturals, FiniteSets, SequencesExt

CONSTANTS
    Podcasts, Urls, Guids, Devices, Times,
    Uploads,         \* the actions that clients may send
    Repository,      \* the database in use
    MaxId,           \* bound on the numbers of podcasts, devices and episodes
    MaxHist,         \* bound on the rows of the history
    MaxSettings,     \* bound on the settings
    Base,            \* the highest numbers in use in the database of the import
    None             \* SQL NULL, or a nil pointer

Repositories == {"sqlite", "pg"}

Upload ==
    [podcast : Podcasts, url : Urls, guid : Guids \cup {None}, device : Devices, ts : Times]

ASSUME LibraryAssumption ==
    /\ Times \subseteq Nat
    /\ Uploads \subseteq Upload
    /\ Repository \in Repositories
    /\ MaxId \in Nat /\ MaxHist \in Nat /\ Base \in Nat
    /\ None \notin Nat /\ None \notin Guids

VARIABLES
    db,        \* the committed content of the tables
    issued,    \* the highest number given so far: AUTOINCREMENT gives none twice
    export     \* what the export has read so far

vars == <<db, issued, export>>

-----------------------------------------------------------------------------

Scopes == {"account", "device", "podcast", "episode"}
Ids == 1 .. Base + MaxId
Ref == Ids \cup {None}

EpisodeRow ==
    [podcast : Ids, url : Urls, guid : Guids \cup {None}, device : Ref, ts : Times]
HistRow == [episode : Ids, device : Ref, ts : Times]
SettingsKey == [scope : Scopes, podcast : Ref, episode : Ref, device : Ref]

IsTable(f, Row) == f \in [DOMAIN f -> Row] /\ DOMAIN f \subseteq Ids

IsTables(t) ==
    /\ IsTable(t.podcasts, Podcasts)
    /\ IsTable(t.devices, Devices)
    /\ IsTable(t.episodes, EpisodeRow)
    /\ t.hist \in [DOMAIN t.hist -> HistRow] /\ DOMAIN t.hist \subseteq 1 .. MaxHist
    /\ t.settings \subseteq SettingsKey

NoTable == [i \in {} |-> None]
EmptyTables ==
    [podcasts |-> NoTable, devices |-> NoTable, episodes |-> NoTable,
     hist |-> NoTable, settings |-> {}]

\* ListEpisodeActions gives every history row with the address and the GUID of its episode.
Exported == [id : Ids, podcast : Ids, url : Urls, guid : Guids \cup {None},
             device : Ref, ts : Times]

Steps == <<"devices", "podcasts", "episodes", "settings">>

NoExport ==
    [read |-> 0, start |-> EmptyTables, torn |-> FALSE, devices |-> NoTable,
     podcasts |-> NoTable, episodes |-> <<>>, settings |-> {}]

\* One type invariant: every variable has its shape.
TypeOK ==
    /\ IsTables(db)
    /\ issued \in [{"podcast", "device", "episode"} -> 0 .. MaxId]
    /\ export.read \in 0 .. Len(Steps) + 1
    /\ export.torn \in BOOLEAN
    /\ IsTables(export.start)
    /\ IsTable(export.devices, Devices) /\ IsTable(export.podcasts, Podcasts)
    /\ export.episodes \in Seq(Exported)
    /\ export.settings \subseteq SettingsKey

Init ==
    /\ db = EmptyTables
    /\ issued = [k \in {"podcast", "device", "episode"} |-> 0]
    /\ export = NoExport

-----------------------------------------------------------------------------
\* Rows.

Put(f, i, row) == [j \in DOMAIN f \cup {i} |-> IF j = i THEN row ELSE f[j]]
Keep(f, S) == [j \in S |-> f[j]]

NumbersOf(table, name) == {i \in DOMAIN table : table[i] = name}

\* The rows insertOrUpdateEpisode may find.  NULL equals nothing.
Matching(t, e) ==
    {i \in DOMAIN t.episodes :
        /\ t.episodes[i].podcast = e.podcast
        /\ \/ t.episodes[i].url = e.url
           \/ e.guid # None /\ t.episodes[i].guid = e.guid}

\* A number above n that no row has.  Nothing refers to the number of a row of the history.
FreeNumber(n, table) ==
    CHOOSE i \in n + 1 .. n + 1 + Cardinality(DOMAIN table) : i \notin DOMAIN table

\* SaveEpisode of one action, on row i.
Saved(t, e, i) ==
    LET found == i \in DOMAIN t.episodes
        row == IF ~found THEN [podcast |-> e.podcast, url |-> e.url, guid |-> e.guid,
                               device |-> e.device, ts |-> e.ts]
               ELSE IF t.episodes[i].ts < e.ts
               THEN [t.episodes[i] EXCEPT !.device = e.device, !.ts = e.ts]
               ELSE t.episodes[i]
    IN  [t EXCEPT !.episodes = Put(@, i, row),
                  !.hist = Put(@, FreeNumber(0, t.hist),
                               [episode |-> i, device |-> e.device, ts |-> e.ts])]

\* The foreign keys of the row that Saved would write hold.
MaySave(t, e) == e.podcast \in DOMAIN t.podcasts /\ e.device \in DOMAIN t.devices \cup {None}

\* The tables without these episodes: their history and their settings go with them.
WithoutEpisodes(t, S) ==
    [t EXCEPT
        !.episodes = Keep(@, DOMAIN @ \ S),
        !.hist = Keep(@, {k \in DOMAIN @ : @[k].episode \notin S}),
        !.settings = {s \in @ : s.episode \notin S}]

-----------------------------------------------------------------------------
\* Transactions on the library.

Reading == export.read \in 1 .. Len(Steps)

\* Between its first and its last read the export sees a library that changes.
Disturbed(t) ==
    IF Reading /\ t # db THEN [export EXCEPT !.torn = TRUE, !.start = EmptyTables] ELSE export

Write(t) ==
    /\ db' = t
    /\ export' = Disturbed(t)

\* Mutant: a number is given again after the row with the highest one is deleted.
NextReused(kind, table) ==
    IF DOMAIN table = {} THEN 1 ELSE 1 + CHOOSE i \in DOMAIN table : \A j \in DOMAIN table : j <= i

\* Mutant: the number of the row that was inserted before.
NextBefore(kind, table) == issued[kind]

NextNumber(kind, table) == issued[kind] + 1

\* The number of a row with this name, which is inserted if there is none.
NumberOf(kind, table, name) ==
    IF NumbersOf(table, name) # {} THEN CHOOSE i \in NumbersOf(table, name) : TRUE
    ELSE NextNumber(kind, table)

\* AddAction with one action.
AddAction(a) ==
    LET p == NumberOf("podcast", db.podcasts, a.podcast)
        d == NumberOf("device", db.devices, a.device)
        t == [db EXCEPT !.podcasts = Put(@, p, a.podcast), !.devices = Put(@, d, a.device)]
        e == [podcast |-> p, url |-> a.url, guid |-> a.guid, device |-> d, ts |-> a.ts]
        new == NextNumber("episode", db.episodes)
        most(n, m) == IF n > m THEN n ELSE m
    IN  /\ Cardinality(DOMAIN db.hist) < MaxHist
        /\ \E i \in IF Matching(t, e) # {} THEN Matching(t, e) ELSE {new} :
              /\ p <= MaxId /\ d <= MaxId /\ i <= MaxId
              /\ Write(Saved(t, e, i))
              /\ issued' = [issued EXCEPT !["podcast"] = most(@, p), !["device"] = most(@, d),
                                          !["episode"] = most(@, i)]

\* UpdateEpisodeInfo: the rows with this address take the GUID of the feed.
UpdateEpisodeInfo(u, g) ==
    /\ Write([db EXCEPT !.episodes = [i \in DOMAIN @ |->
                IF @[i].url = u THEN [@[i] EXCEPT !.guid = g] ELSE @[i]]])
    /\ UNCHANGED issued

\* Mutant: the keys of the settings have no ON DELETE CASCADE to the podcasts.
DeletePodcastOnly(p) ==
    LET gone == {i \in DOMAIN db.episodes : db.episodes[i].podcast = p}
    IN  /\ p \in DOMAIN db.podcasts
        /\ Write([WithoutEpisodes(db, gone) EXCEPT !.podcasts = Keep(@, DOMAIN @ \ {p})])
        /\ UNCHANGED issued

DeletePodcast(p) ==
    LET gone == {i \in DOMAIN db.episodes : db.episodes[i].podcast = p}
    IN  /\ p \in DOMAIN db.podcasts
        /\ Write([WithoutEpisodes(db, gone) EXCEPT
                    !.podcasts = Keep(@, DOMAIN @ \ {p}),
                    !.settings = {s \in @ : s.podcast # p}])
        /\ UNCHANGED issued

DeleteDevice(d) ==
    /\ d \in DOMAIN db.devices
    /\ Write([db EXCEPT
          !.devices = Keep(@, DOMAIN @ \ {d}),
          !.episodes = [i \in DOMAIN @ |->
              IF @[i].device = d THEN [@[i] EXCEPT !.device = None] ELSE @[i]],
          !.hist = [k \in DOMAIN @ |->
              IF @[k].device = d THEN [@[k] EXCEPT !.device = None] ELSE @[k]],
          !.settings = {s \in @ : s.device # d}])
    /\ UNCHANGED issued

\* The user goes, and what refers to the user: an account of the same name that is added
\* later begins with an empty library.
DeleteUser ==
    /\ Write(EmptyTables)
    /\ UNCHANGED issued

\* SettingsSrv.load: the keys a request may name.  A row that does not exist is an error.
Loaded(t) ==
    {[scope |-> "account", podcast |-> None, episode |-> None, device |-> None]}
    \cup {[scope |-> "device", podcast |-> None, episode |-> None, device |-> d] :
             d \in DOMAIN t.devices}
    \cup {[scope |-> "podcast", podcast |-> p, episode |-> None, device |-> None] :
             p \in DOMAIN t.podcasts}
    \cup {[scope |-> "episode", podcast |-> t.episodes[i].podcast, episode |-> i,
           device |-> None] : i \in DOMAIN t.episodes}

\* Reading a row with the name of its device fails on the NULL of a device that was deleted.
Scans(row) == row.device # None

\* What a request sets and removes: removing wins.
Combined(set, remove) == [k \in set \cup remove |-> IF k \in remove THEN "" ELSE "true"]

\* The repository deletes the row of the key, and inserts it unless the value is empty.
SettingSaved(t, key, value) ==
    [t EXCEPT !.settings = IF value = "" THEN @ \ {key} ELSE @ \cup {key}]

SaveSettings(key, set, remove) ==
    LET values == Combined(set, remove)
    IN  /\ key \in Loaded(db)
        /\ key.episode # None => Scans(db.episodes[key.episode])
        /\ set \subseteq remove \/ Cardinality(db.settings) < MaxSettings
        /\ Write(IF DOMAIN values = {} THEN db ELSE SettingSaved(db, key, values["is_favorite"]))
        /\ UNCHANGED issued

-----------------------------------------------------------------------------
\* MaintainDatabase: scripts in one transaction.

\* SQLite: an old play goes if an episode with its address was played later, in any podcast.
CleanedSqlite(t, old) ==
    WithoutEpisodes(t, {i \in DOMAIN t.episodes :
        /\ t.episodes[i].ts < old
        /\ \E j \in DOMAIN t.episodes :
              t.episodes[j].url = t.episodes[i].url /\ t.episodes[j].ts > t.episodes[i].ts})

\* Mutant: every old row of the history goes.
CleanedOld(t, old) == [t EXCEPT !.hist = Keep(@, {k \in DOMAIN @ : @[k].ts >= old})]

\* PostgreSQL: an old row of the history goes if its episode has a later one.
CleanedPg(t, old) ==
    [t EXCEPT !.hist = Keep(@, {k \in DOMAIN @ :
        \/ @[k].ts >= old
        \/ \A j \in DOMAIN @ : @[j].episode = @[k].episode => @[j].ts <= @[k].ts})]

\* Mutant: VACUUM runs, and the transaction commits.
MaintainedVacuumed(repository, t, old) ==
    IF repository = "sqlite" THEN CleanedSqlite(t, old) ELSE CleanedPg(t, old)

\* SQLite refuses the VACUUM that follows its DELETE in the transaction, and the service
\* rolls back.
Maintained(repository, t, old) ==
    LET work == IF repository = "sqlite" THEN CleanedSqlite(t, old) ELSE CleanedPg(t, old)
        vacuumed == repository # "sqlite"
    IN  IF vacuumed THEN work ELSE t

MaintainDatabase(old) == Write(Maintained(Repository, db, old)) /\ UNCHANGED issued

-----------------------------------------------------------------------------
\* ExportAll: one read after the other.

\* ORDER BY updated_at; rows of one time come in any order.
ByTime(rows) ==
    {q \in SetToSeqs(DOMAIN rows) :
        \A j, k \in DOMAIN q : j < k => rows[q[j]].ts <= rows[q[k]].ts}

Rows(t, q) ==
    [k \in DOMAIN q |->
        LET h == t.hist[q[k]]
            e == t.episodes[h.episode]
        IN  [id |-> h.episode, podcast |-> e.podcast, url |-> e.url, guid |-> e.guid,
             device |-> h.device, ts |-> h.ts]]

StartExport ==
    /\ ~Reading
    /\ export' = [NoExport EXCEPT !.read = 1, !.start = db]
    /\ UNCHANGED <<db, issued>>

\* An error ends the export, and there is no file.
Read ==
    /\ Reading
    /\ LET step == Steps[export.read]
           next == [export EXCEPT !.read = @ + 1]
       IN  \/ step = "devices" /\ export' = [next EXCEPT !.devices = db.devices]
           \/ step = "podcasts" /\ export' = [next EXCEPT !.podcasts = db.podcasts]
           \/ /\ step = "episodes"
              /\ \A k \in DOMAIN db.hist : Scans(db.hist[k])
              /\ \E q \in ByTime(db.hist) : export' = [next EXCEPT !.episodes = Rows(db, q)]
           \/ /\ step = "episodes"
              /\ \E k \in DOMAIN db.hist : ~Scans(db.hist[k])
              /\ export' = NoExport
           \/ step = "settings" /\ export' = [next EXCEPT !.settings = db.settings]
    /\ UNCHANGED <<db, issued>>

-----------------------------------------------------------------------------
\* ImportAll, into a database that gives the user's rows other numbers.

\* importDevices and importPodcasts: the number of the new row, and 0 of none.
NewId(table, i) == IF i \in DOMAIN table THEN Base + i ELSE 0

Renumbered(table) == [i \in {Base + j : j \in DOMAIN table} |-> table[i - Base]]

\* Mutant: remapEpisodes leaves the number of the device.
RemapPodcasts(data, e) ==
    [podcast |-> NewId(data.podcasts, e.podcast), url |-> e.url, guid |-> e.guid,
     device |-> e.device, ts |-> e.ts]

Remap(data, e) ==
    [podcast |-> NewId(data.podcasts, e.podcast), url |-> e.url, guid |-> e.guid,
     device |-> IF e.device = None THEN None ELSE NewId(data.devices, e.device), ts |-> e.ts]

\* An error: the import rolls back, and there are no tables.
Failed == [failed |-> TRUE]

\* SaveEpisode replays the actions in the order of the file.
Replayed(t, e) ==
    IF t = Failed THEN Failed
    ELSE IF ~MaySave(t, e) THEN Failed
    ELSE IF Matching(t, e) # {} THEN Saved(t, e, CHOOSE i \in Matching(t, e) : TRUE)
    ELSE Saved(t, e, FreeNumber(Base, t.episodes))

\* The file has the episode of the setting, and the new database finds it by its address.
EpisodeFound(data, t, s) ==
    /\ s.podcast # None
    /\ \E k \in DOMAIN data.episodes :
          /\ data.episodes[k].id = s.episode
          /\ \A j \in 1 .. k - 1 : data.episodes[j].id # s.episode
          /\ \E i \in DOMAIN t.episodes :
                /\ t.episodes[i].podcast = NewId(data.podcasts, s.podcast)
                /\ data.episodes[k].url \in {t.episodes[i].url, t.episodes[i].guid}

\* ToKey leaves the episode out.
ToKey(data, s) ==
    [scope |-> s.scope, episode |-> None,
     podcast |-> IF s.podcast = None THEN None ELSE NewId(data.podcasts, s.podcast),
     device |-> IF s.device = None THEN None ELSE NewId(data.devices, s.device)]

SettingImported(data, t, s) ==
    /\ s.episode # None => EpisodeFound(data, t, s)
    /\ ToKey(data, s).podcast \in DOMAIN t.podcasts \cup {None}
    /\ ToKey(data, s).device \in DOMAIN t.devices \cup {None}

\* The new database with the devices and the podcasts of the file.
Begun(data) ==
    [EmptyTables EXCEPT !.podcasts = Renumbered(data.podcasts),
                        !.devices = Renumbered(data.devices)]

\* ... and with the first n of its actions.
AfterActions(data, n) ==
    LET after[k \in 0 .. n] ==
            IF k = 0 THEN Begun(data)
            ELSE Replayed(after[k - 1], Remap(data, data.episodes[k]))
    IN  after[n]

\* The tables after the import of a file: all of it, or an error.
ImportAll(data) ==
    LET t == AfterActions(data, Len(data.episodes))
    IN  IF t # Failed /\ \A s \in data.settings : SettingImported(data, t, s)
        THEN [t EXCEPT !.settings = {ToKey(data, s) : s \in data.settings}]
        ELSE Failed

-----------------------------------------------------------------------------

Next ==
    \/ \E a \in Uploads : AddAction(a)
    \/ \E u \in Urls, g \in Guids : UpdateEpisodeInfo(u, g)
    \/ \E i \in Ids : DeletePodcast(i) \/ DeleteDevice(i)
    \/ DeleteUser
    \/ \E key \in Loaded(db), set, remove \in SUBSET {"is_favorite"} :
          SaveSettings(key, set, remove)
    \/ \E old \in Times : MaintainDatabase(old)
    \/ StartExport \/ Read

Spec == Init /\ [][Next]_vars

-----------------------------------------------------------------------------
\* What the tables promise.

\* No row refers to a row that does not exist.
RefsHold(t) ==
    /\ \A i \in DOMAIN t.episodes : MaySave(t, t.episodes[i])
    /\ \A k \in DOMAIN t.hist :
          /\ t.hist[k].episode \in DOMAIN t.episodes
          /\ t.hist[k].device \in DOMAIN t.devices \cup {None}

\* Every episode row is a copy of its last history row.
ShowsLatest(t) ==
    \A i \in DOMAIN t.episodes :
        /\ \E k \in DOMAIN t.hist :
              /\ t.hist[k].episode = i
              /\ t.hist[k].ts = t.episodes[i].ts
              /\ t.hist[k].device = t.episodes[i].device
        /\ \A k \in DOMAIN t.hist :
              t.hist[k].episode = i => t.hist[k].ts <= t.episodes[i].ts

\* A setting refers to rows that exist, and the setting of an episode to the podcast of
\* that episode, whatever is deleted and whenever.
SettingsReferToRows == db.settings \subseteq Loaded(db)

-----------------------------------------------------------------------------
\* What the export and the import promise.

DeviceName(t, i) == IF i = None THEN None ELSE t.devices[i]

\* The library without its numbers.
History(t) ==
    {LET e == t.episodes[t.hist[k].episode]
     IN  [podcast |-> t.podcasts[e.podcast], url |-> e.url, guid |-> e.guid,
          device |-> DeviceName(t, t.hist[k].device), ts |-> t.hist[k].ts] :
     k \in DOMAIN t.hist}

\* ... and without the settings of episodes, which the import moves to their podcasts.
SettingNames(t) ==
    {[scope |-> s.scope, device |-> DeviceName(t, s.device),
      podcast |-> IF s.podcast = None THEN None ELSE t.podcasts[s.podcast]] :
     s \in {x \in t.settings : x.scope # "episode"}}

Named(table) == {table[i] : i \in DOMAIN table}

SharedGuids(t) ==
    \E i, j \in DOMAIN t.episodes :
        /\ i # j
        /\ t.episodes[i].podcast = t.episodes[j].podcast
        /\ t.episodes[i].guid = t.episodes[j].guid
        /\ t.episodes[i].guid # None

Complete == export.read = Len(Steps) + 1

\* An export that ends without an error and that nobody disturbed is imported with every row
\* it had, except the settings of episodes, and except episodes of one podcast that share a
\* GUID.  Once a device with actions was deleted, no export ends without an error.
ImportRestores ==
    Complete /\ ~export.torn /\ ~SharedGuids(export.start) =>
        LET copy == ImportAll(export)
        IN  /\ copy # Failed
            /\ Named(copy.podcasts) = Named(export.start.podcasts)
            /\ Named(copy.devices) = Named(export.start.devices)
            /\ Cardinality(DOMAIN copy.hist) = Cardinality(DOMAIN export.start.hist)
            /\ History(copy) = History(export.start)
            /\ SettingNames(copy) = SettingNames(export.start)

\* Whatever changed while the export read, an import that succeeds has consistent tables,
\* and every action in them was uploaded for that podcast and, unless a GUID says that two
\* addresses are one episode, for that address.
ImportInventsNothing ==
    LET copy == ImportAll(export)
    IN  Complete /\ copy # Failed =>
            /\ RefsHold(copy)
            /\ ShowsLatest(copy)
            /\ \A h \in History(copy) :
                  \E a \in Uploads :
                      /\ a.podcast = h.podcast /\ a.ts = h.ts
                      /\ a.url = h.url \/ h.guid # None

\* Whenever the maintenance runs, it changes no episode and no setting, and every episode
\* still has the action it shows in its history.
MaintenanceKeepsShown ==
    \A repository \in Repositories, old \in Times :
        LET after == Maintained(repository, db, old)
        IN  /\ after.episodes = db.episodes
            /\ after.settings = db.settings
            /\ ShowsLatest(after)
================================================================================
