------------------------------- MODULE EpisodeStore -------------------------------
(***************************************************************************)
(* Uploads of episode actions against the SQLite repository.               *)
(*                                                                         *)
(* EpisodesSrv.AddAction runs in one deferred transaction and in two       *)
(* loops: the first finds or creates the podcast and the device of every   *)
(* action, the second saves every action.  Requests interleave statement   *)
(* by statement.  A transaction reads the snapshot its first statement     *)
(* took; its first write needs the write lock and an unchanged database,   *)
(* or SQLite answers BUSY and the service rolls back.  The other           *)
(* operations on these tables are transactions that write at once, so each *)
(* one is a single step.                                                   *)
(***************************************************************************)
EXTENDS EpisodeTables, Sequences

CONSTANTS
    Requests,    \* uploads that may be in progress at once
    Feeds,       \* pairs of an episode address and the GUID its feed gives it
    Batches      \* the lists of actions clients may send; Validate refuses an empty one

ASSUME StoreAssumption ==
    /\ \A batch \in Batches : batch \in Seq(Upload) /\ batch # <<>>
    /\ Feeds \subseteq Urls \X Guids
    /\ None \notin Requests

VARIABLES
    db,      \* the committed content of the tables
    tx,      \* the transaction of each request
    writer   \* the request that holds the write lock, or None

vars == <<db, tx, writer>>

-----------------------------------------------------------------------------

Phases == {"idle", "resolve", "save", "panicked"}

NoTx == [phase |-> "idle", batch |-> <<>>, next |-> 1, work |-> EmptyTables, stale |-> FALSE]

TxState ==
    [phase : Phases,              \* where AddAction is
     batch : Batches \cup {<<>>}, \* cmd.Actions
     next  : Nat,                 \* index of the action the loop is at
     work  : Tables,              \* the tables as this transaction sees them
     stale : BOOLEAN]             \* somebody committed after the snapshot

\* One type invariant: every variable has its shape.
TypeOK ==
    /\ db \in Tables
    /\ tx \in [Requests -> TxState]
    /\ writer \in Requests \cup {None}

Init ==
    /\ db = EmptyTables
    /\ tx = [r \in Requests |-> NoTx]
    /\ writer = None

-----------------------------------------------------------------------------
\* SQLite.

\* A statement of r may write: the lock is free or its own, the snapshot is current.
CanWrite(r) == writer \in {None, r} /\ ~tx[r].stale

\* The transactions after somebody else's commit: open snapshots are out of date.
MarkStale(txs, others) ==
    [r \in Requests |->
        IF r \in others /\ txs[r].phase # "idle" THEN [txs[r] EXCEPT !.stale = TRUE]
        ELSE txs[r]]

-----------------------------------------------------------------------------
\* EpisodesSrv.AddAction.

\* BEGIN, read the user, the subscribed podcasts and the devices.
Begin(r, batch) ==
    /\ tx[r].phase = "idle"
    /\ tx' = [tx EXCEPT ![r] = [NoTx EXCEPT !.phase = "resolve", !.batch = batch, !.work = db]]
    /\ UNCHANGED <<db, writer>>

Current(r) == tx[r].batch[tx[r].next]

\* The first statement that changes anything takes the write lock.
Writing(r, writes) ==
    /\ writes => CanWrite(r)
    /\ writer' = IF writes THEN r ELSE writer

\* Mutant: the empty device name gets a device.
ResolveAnyDevice(r) ==
    LET a == Current(r)
        t == tx[r].work
        last == tx[r].next = Len(tx[r].batch)
    IN  /\ tx[r].phase = "resolve"
        /\ Writing(r, t.podcasts[a.podcast] # "subscribed" \/ a.device \notin t.devices)
        /\ tx' = [tx EXCEPT ![r].work = EnsureDevice(EnsurePodcast(t, a.podcast), a.device),
                            ![r].phase = IF last THEN "save" ELSE "resolve",
                            ![r].next = IF last THEN 1 ELSE @ + 1]
        /\ UNCHANGED db

\* The first loop: the podcast and the device of one action.
Resolve(r) ==
    LET a == Current(r)
        t == tx[r].work
        last == tx[r].next = Len(tx[r].batch)
    IN  /\ tx[r].phase = "resolve"
        /\ a.device # None
        /\ Writing(r, t.podcasts[a.podcast] # "subscribed" \/ a.device \notin t.devices)
        /\ tx' = [tx EXCEPT ![r].work = EnsureDevice(EnsurePodcast(t, a.podcast), a.device),
                            ![r].phase = IF last THEN "save" ELSE "resolve",
                            ![r].next = IF last THEN 1 ELSE @ + 1]
        /\ UNCHANGED db

\* The device cache answers nil for the empty name, and AddAction dereferences it.
\* Nobody rolls back: the transaction stays open, with the lock if it wrote.
ResolvePanics(r) ==
    LET a == Current(r)
        t == tx[r].work
    IN  /\ tx[r].phase = "resolve"
        /\ a.device = None
        /\ Writing(r, t.podcasts[a.podcast] # "subscribed")
        /\ tx' = [tx EXCEPT ![r].work = EnsurePodcast(t, a.podcast),
                            ![r].phase = "panicked"]
        /\ UNCHANGED db

\* The second loop, in SaveEpisode: one action.
Save(r) ==
    LET a == Current(r)
        t == tx[r].work
    IN  /\ tx[r].phase = "save"
        /\ tx[r].next <= Len(tx[r].batch)
        /\ FreeHistIds(t) # {}
        /\ Writing(r, TRUE)
        /\ \E i \in TargetIds(t, a) :
              tx' = [tx EXCEPT
                        ![r].work = SaveAction(t, a, i, CHOOSE h \in FreeHistIds(t) : TRUE),
                        ![r].next = @ + 1]
        /\ UNCHANGED db

\* COMMIT.
Commit(r) ==
    /\ tx[r].phase = "save"
    /\ tx[r].next > Len(tx[r].batch)
    /\ db' = tx[r].work
    /\ tx' = MarkStale([tx EXCEPT ![r] = NoTx], Requests \ {r})
    /\ writer' = None

\* Mutant: InTransaction commits what the failed function has written so far.
RollbackPartly(r) ==
    /\ tx[r].phase # "idle"
    /\ tx' = MarkStale([tx EXCEPT ![r] = NoTx], Requests \ {r})
    /\ writer' = IF writer = r THEN None ELSE writer
    /\ db' = IF writer = r THEN tx[r].work ELSE db

\* A statement fails (BUSY, I/O, a cancelled request) and the service rolls back; a
\* transaction a panic left open is rolled back when its client goes away.
Rollback(r) ==
    /\ tx[r].phase # "idle"
    /\ tx' = [tx EXCEPT ![r] = NoTx]
    /\ writer' = IF writer = r THEN None ELSE writer
    /\ UNCHANGED db

-----------------------------------------------------------------------------
\* The other writers of these tables.

\* Mutant: a writer does not wait for the lock.
WriteUnlocked(t) ==
    /\ db' = t
    /\ tx' = MarkStale(tx, Requests)
    /\ UNCHANGED writer

\* Such a transaction, from its snapshot to its commit.
Write(t) ==
    /\ writer = None
    /\ db' = t
    /\ tx' = MarkStale(tx, Requests)
    /\ UNCHANGED writer

\* DevicesSrv.UpdateDevice and ReplaceSubscriptions: insert the device, or touch its row.
UpdateDevice(d) == Write(EnsureDevice(db, d))

DeleteDevice(d) == d \in db.devices /\ Write(WithoutDevice(db, d))

\* ChangeSubscriptions and ReplaceSubscriptions, one podcast at a time.
Subscribe(p) == db.podcasts[p] # "subscribed" /\ Write(EnsurePodcast(db, p))

Unsubscribe(p) == db.podcasts[p] = "subscribed" /\ Write(Unsubscribed(db, p))

DeletePodcast(p) == db.podcasts[p] # "absent" /\ Write(WithoutPodcast(db, p))

\* The downloader stores what a feed says of an episode.
UpdateEpisodeInfo(u, g) == Write(WithFeedGuid(db, u, g))

-----------------------------------------------------------------------------

AddAction(r) ==
    \/ \E batch \in Batches : Begin(r, batch)
    \/ Resolve(r)
    \/ ResolvePanics(r)
    \/ Save(r)
    \/ Commit(r)
    \/ Rollback(r)

OtherWriters ==
    \/ \E d \in Devices : UpdateDevice(d) \/ DeleteDevice(d)
    \/ \E p \in Podcasts : Subscribe(p) \/ Unsubscribe(p) \/ DeletePodcast(p)
    \/ \E f \in Feeds : UpdateEpisodeInfo(f[1], f[2])

Next == OtherWriters \/ \E r \in Requests : AddAction(r)

Spec == Init /\ [][Next]_vars

-----------------------------------------------------------------------------
\* Invariants.

\* The state GET /episodes?aggregated=true, the updates and the web pages show for an
\* episode is one of its recorded actions and none of them is newer, whatever order
\* devices upload in and whatever was deleted meanwhile.
LatestActionShown == ShowsLatest(db)

\* insertOrUpdateEpisode looks an episode up and then inserts it, and no unique index
\* backs it: two uploads of the same new episode still make one row.
OneRowPerUrl == UrlsUnique(db)

\* An upload that resolved its podcast and device before they were deleted does not
\* leave rows that refer to them.
RowsReferToRows == RefsHold(db)

-----------------------------------------------------------------------------
\* Action properties.

\* t has every row of s; an episode row may have moved on to a newer action.
Extends(s, t) ==
    /\ \A h \in DOMAIN s.hist : h \in DOMAIN t.hist /\ t.hist[h] = s.hist[h]
    /\ \A i \in DOMAIN s.episodes :
          /\ i \in DOMAIN t.episodes
          /\ t.episodes[i].podcast = s.episodes[i].podcast
          /\ t.episodes[i].url = s.episodes[i].url
          /\ t.episodes[i].guid = s.episodes[i].guid
          /\ s.episodes[i].ts <= t.episodes[i].ts
    /\ s.devices \subseteq t.devices
    /\ \A p \in Podcasts : s.podcasts[p] = "subscribed" => t.podcasts[p] = "subscribed"

Named(batch) == {batch[k] : k \in 1 .. Len(batch)}

\* t extends s, with no podcast or device but those the batch names.
ExtendsBy(s, t, batch) ==
    /\ Extends(s, t)
    /\ t.devices \subseteq s.devices \cup {a.device : a \in Named(batch)}
    /\ \A p \in Podcasts :
          t.podcasts[p] # s.podcasts[p] => p \in {a.podcast : a \in Named(batch)}

\* A history row that t has and s has not records action a, in the podcast it names.
RecordedSince(s, t, a) ==
    \E h \in DOMAIN t.hist \ DOMAIN s.hist :
        /\ t.hist[h].action = a.action
        /\ t.hist[h].device = a.device
        /\ t.hist[h].ts = a.ts
        /\ t.episodes[t.hist[h].episode].podcast = a.podcast

\* An upload only adds to the database it commits on: nothing that others committed while
\* it ran (an upload, a deletion, an unsubscription) is lost or comes back, except the
\* podcasts and devices its own actions name.
NoLostUpdate ==
    [][\A r \in Requests : Commit(r) => ExtendsBy(db, db', tx[r].batch)]_vars

\* A successful upload has recorded every action of the batch, also an action older than
\* what the episode shows, and has left every podcast of the batch subscribed.
BatchRecorded ==
    [][\A r \in Requests : Commit(r) =>
        \A a \in Named(tx[r].batch) :
            db'.podcasts[a.podcast] = "subscribed" /\ RecordedSince(db, db', a)]_vars

\* Uploads that interleave have the effect of uploads that run one at a time, in the order
\* of their commits; one that fails has none.
Service == INSTANCE EpisodeService WITH db <- db, Feeds <- Feeds, Batches <- Batches
Serializable == Service!Spec

\* What api/apiv2_episodes.go says of an uploaded action, "Device is optional": no valid
\* upload ends in a panic.
DeviceIsOptional == \A r \in Requests : tx[r].phase # "panicked"
================================================================================
