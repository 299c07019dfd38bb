# go-gpo in TLA+

go-gpo is a server for podcast clients that speak the gpodder.net protocol. It keeps, for
every user, the podcasts the user subscribes to and what happened to their episodes, so that
the user's devices agree. This directory holds a specification of that server: TLA+ modules
translated from the Go source, the TLC runs that check them on small instances, and theorems
that TLAPS proves for instances of every size. Paths are relative to `src/internal`.

## The system

| component | state | operations | what is hard about it |
|---|---|---|---|
| episode actions (`service/episodes.go`, `infra/*/`) | tables `episodes`, `episodes_hist` | `AddAction` (upload), queries for updates, actions, favourites | look up and insert without a unique index, late actions, caches that last a transaction, uploads that race with deletions, pages and times of answers |
| subscriptions (`service/subscriptions.go`, `api/`) | table `podcasts` | replace the list, change the list, ask for changes since a time | the time of a change and of an answer is taken before the transaction that makes them visible; lost answers |
| devices (`service/devices.go`) | table `devices` | create, update, delete | other rows refer to a device; other requests create it on the way |
| podcasts and their downloader (`service/podcasts.go`, `cli/serve.go`, `cli/podcasts.go`) | `podcasts.metadata_updated_at`, the titles, GUIDs of episodes | list, delete, download rounds | five workers, a command that runs a round in another process, servers that fail, feeds that change meanwhile, one stamp for the rows of all users |
| transactions (`db/db.go`, `infra/sqlite/sqlite.go`, `infra/pg/pg.go`) | connections | begin, commit, roll back | a busy database, what one transaction sees of another, a panic in the middle, connections that do not come back |
| sessions (`service/sessions.go`) | table `sessions` | read, write back, destroy, clean up | a whole session is written back at the end of each request |
| users and authentication (`service/users.go`, `server/middlewares.go`) | table `users` | log in, log out, lock, delete | a session outlives the account |
| settings and favourites (`service/settings.go`) | table `settings` | load, save | a key refers to up to three rows that others delete |
| maintenance, export, import (`service/maintenance.go`) | all tables | clean up, export, import | an export outside of a transaction; renumbering; scripts one of which is refused |
| the server process (`cli/serve.go`, `server/`, `aerr/`, `config/`) | how far it has come, the pool of connections, the error of each request | start, answer, stop | what ends in which order; errors that change on their way up |
| web pages (`web/`) | none of its own | call the services, answer | some handlers answer a failure in a way of their own |
| the other commands, validation, formats, logging | none of its own | | input and output |

Requests call a service, a service opens a transaction of `db` and calls the repository in it.
The repository is SQLite or PostgreSQL. Requests share nothing but the database; the
downloader and the maintenance are goroutines beside them, and a command is another process
with the same database. There is no lock in the program: whatever keeps all of them apart is
the database.

What makes the components correct:

- episodes: an episode has one row; the row shows the newest action whatever order the
  actions arrive in; the history has all of them; an upload happens entirely or not at all;
  no row refers to one that is gone.
- subscriptions: every device learns of every change, in the end.
- downloader: the workers of a process never take a row back to older metadata; what has
  changed is fetched; rounds end.
- episode pull: a device learns of every action of the others, whichever way it asks, and is
  never sent back in time.
- sessions: a session belongs to the user who logged in last, and to nobody after the logout;
  a locked user gets in nowhere.
- settings: a setting belongs to rows that exist.
- export and import: what is imported was there, and all that was there is imported;
  maintenance changes nothing a client can see.
- server: connections come back, answers are true, a stop comes to its end and closes the
  database behind everyone.

`PROJECT.json` lists the components with what is modelled of each, and the hazards, each at
its line with the properties that watch it.

## The modules

**`EpisodeTables`** has no variables: the rows of one user in `podcasts`, `devices`,
`episodes` and `episodes_hist` as a value, and an operator for each SQL statement on them
(`EnsurePodcast`, `EnsureDevice`, `SaveAction`, `WithoutDevice`, `WithoutPodcast`, ...). A
podcast, a device and an address is a model value; titles, captions, positions and the rest of
what no statement decides upon are left out. `episodes.id` is modelled, because
`insertOrUpdateEpisode` looks a row up by address *or* GUID and takes any that fits:
`TargetIds` is a set, and the save picks one of it.

**`EpisodeStore`** is `EpisodesSrv.AddAction` against the SQLite repository. `Begin` is the
transaction's first read; `Resolve` is one round of the loop that finds or creates podcast
and device, `ResolvePanics` its round for an action without a device; `Save` is one round of
`SaveEpisode`; `Commit` and `Rollback` are `db.InTransaction`. Requests interleave between
these. What a transaction sees is the field `work` of its record: the snapshot it took, with
its own writes. SQLite in WAL mode lets one transaction write, and refuses the write of one
whose snapshot is out of date (BUSY_SNAPSHOT), which is `CanWrite`. A refused statement is an
error like any other, and `Rollback` may end a transaction at any step. The other operations
on these tables are in the module as single steps: each is one transaction that writes after
at most a few reads, and by the same rule takes effect at one moment or fails. A request
that replaces or changes a list of subscriptions is taken one podcast at a time, which allows
more interleavings than the code does.

**`EpisodeService`** is the promise: an upload is one step, and so is everything else.
An upload leads to one of a set of contents (`Uploaded`), as the look up of an episode may
find any row that fits. `EpisodeStore` instantiates it and implements it (`Serializable`,
checked and proved).

**`SubscriptionSync`** is the protocol between the devices and the table `podcasts`. A change
request takes its time in the handler (`Receive`) and takes effect in its transaction
(`Apply`, which is all of `ChangeSubscriptions` or `ReplaceSubscriptions`); a poll takes the
time of its answer first (`Ask`), reads (`Answer`), and may never arrive (`Lose`). A device
remembers what it knows and the time it was told. The clock counts ticks of which `Second`
make a second: `updated_at` is as fine as the clock, the time in an answer is a whole second.
Transactions are one step here, because `EpisodeStore` shows that they may be taken so.
The variable `late` is history only: the pairs of a device and a podcast whose last change
took effect after the device was told its time or a later one.

**`Downloader`** is `DownloadPodcastsInfo` with its workers, over the rows of all users, in
the processes that run it: the server, whose `podcastDownloadTask` starts a round after the
other (`StartRound`, `ListFails`, `EndRound`), and the command `podcast download-info`, which
runs one round of its own, with any age and its own flag, whenever somebody calls it
(`StartCommand`). Any of them may be killed (`Kill`). A feed is a version number and the time
it changed; the title in a row is the version it came from. `Fetch` is the request and the
decision `feedNeedToBeUpdated`, which drops a feed that is not newer and keeps one that has no
dates; `Store` reads the clock again and updates the rows of every user; `Fail` is any error
on the way. History only: `missed` has the rows an answer did not bring up to date, and
`overtaken` marks an answer whose address another process has stored since.

**`Sessions`** is the way of a request through the session middleware, the authentication and
its handler: `Resume` or `Open` (the cookie has a session, or a new one is made), `Read`,
`PassOn`, `LoadAccount` and `LogIn`, or `Refuse`, then `Handle` or `LogOut` with its `Destroy`,
and `Release`, which writes the whole session back. `Abort` ends a request anywhere without a
`Release`, as a panic does. The user is all that the program keeps in a session, and all that
the model keeps. A password is compared after the account was loaded, so `LoadAccount` and
`LogIn` are two steps; whether it is right is a choice. Beside the requests run the clean up
(`GC`) and the commands on accounts. The session library is not in the repository; what is
modelled of it is the order in which it calls the provider. `owner` is history: the user of a
session by its logins and logouts in the order they reach the database; `disturbed` has the
sessions written by a request that another had overtaken. Both repositories have the same
table and the same statements, so the module stands for either.

**`EpisodePull`** is how the devices of a user learn of each other's actions. A device asks
for the history of the others, for the last action of each episode (`aggregated=true`), or for
updates, and remembers the time of the answer. `Ask` is what happens before the query, in
each of the ways the look up of the device; `Read` is the query with its page, `Answer` the
time of an empty answer, which is taken after it, and then the answer is taken or lost.
`DeleteDevice` leaves the actions of the device with a NULL, and the rows of the listing join
the name of the device into a column that takes none: a page with such an action cannot be
read and the request answers 500 (`ReadFails`). Uploads, updates and deletions of devices and
deletions of podcasts come between. `late` is history only: the rows uploaded after a device
was told their time or a later one, and those `CutOff` by a page that ends at their time.

**`EpisodeStorePg`** is the upload against the PostgreSQL repository, and the other requests
that create devices and podcasts there. `InTransaction` asks for no isolation, so a statement
sees what is committed when it runs (`View`), and every statement on which something depends
is a step: the look up of a podcast and its insert, of a device and its insert, of an episode
(`FindEpisode`) and its insert or update (`WriteEpisode`). `UpdateDevice` and
`ReplaceSubscriptions` look a device up and insert it in the same two steps (`BeginNaming`,
`FindName`, `InsertName`), and the requests on subscriptions go on to insert podcasts
(`InsertSubscribed`); what they change in rows that exist is left out. `ChangeSubscriptions`
creates no device, and its podcasts are those of `InsertSubscribed`. An update waits for a
transaction that has changed the row (`Locked`), an insert of a podcast for one of the same
address, and a deletion for the rows that refer to it (`DeviceInUse`, `PodcastInUse`). `raced`
is history only: the episodes and the device names that two overlapping requests have looked
up or written. GUIDs are left out: they make a look up ambiguous, which is the matter of
`EpisodeStore`.

**`Library`** is all of one user's rows with their numbers. Uploads, deletions, settings and
the maintenance are one step each. `issued` holds the last number of each table, which
AUTOINCREMENT never gives again. `StartExport` and `Read` are `ExportAll`, a table at a time;
a file is `torn` if anything was written in between. Reading the actions fails, and with it the
export, once a device that has actions was deleted (`Scans`), for the reason given at
`ReadFails`; `SaveSettings` for an episode meets the same error. `ImportAll` is an operator, from a file
to the tables it makes in a database whose numbers go on from `Base`, or to `Failed`: it is a
recursive function that saves one action of the file after the other (`AfterActions`).
The maintenance of either repository is an operator too (`Maintained`), so that one instance
checks both.

**`Server`** is the process. `Boot` goes from the database over `Validate`, `Build` and
`Listen` to `StartTasks`, and a step that refuses ends the process as the code does (an error,
a panic, or `logger.Fatal`, which closes nothing). Three things that no `Validate` looks at
panic: a connection string that `prepareSqliteConnstr` refuses (`BadConnstr`), a web root that
chi refuses, and an unknown method of authentication. `Stop` follows a signal: the http server
waits five seconds for its requests, then the database is closed, then the process ends. A
request, and a round of a background task, asks for a connection, reads or writes, closes it,
and answers; `CloseFails` and `OpenFails` are where the SQLite repository loses a connection.
With PostgreSQL a commit may fail although the transaction is kept, because its acknowledgement
is lost or not waited for (`"unheard"`, in `TransactionFails`). An error is the tags and the
sentinels that the rest of the program can find in it (`ApplyFor`, `Wrapped`, `Join`), and
`StatusOf` is what most handlers make of it. Others differ, and a request has the kind of its
handler: the pages of a podcast answer 404 to any error of their look up and go on as the
others after it (`"page"`), the form that adds a podcast may have written 400 before it asks
the service (`"form"`), and the page that changes the password tells of the error in words,
with 200 (`"password"`). Requests are past their authentication here, which is in `Sessions`.

**`MCEpisodeStore`**, **`MCSessions`**, **`MCEpisodePull`**, **`MCEpisodeStorePg`**,
**`MCLibrary`** and **`MCServer`** give their modules small instances; the other modules take
theirs from the .cfg files directly. **`EpisodeTablesProofs`**, **`EpisodeStoreProofs`**,
**`EpisodeStorePgProofs`**, **`EpisodePullProofs`**, **`SubscriptionSyncProofs`**,
**`DownloaderProofs`**, **`LibraryProofs`** and **`RequestProofs`** (of `Sessions` and
`Server`, whose names differ for that) hold the theorems.

Definitions whose comment begins with "Mutant" are variants with a plausible bug: replacing
the definition they follow breaks the property `PROJECT.json` names, so the property depends
on the code.

## The runs

| run | bounds | what it shows |
|---|---|---|
| `episode_store` | one upload at a time of one or two actions, 1 podcast, 2 addresses, 1 device, 2 episode rows, 3 history rows | the tables stay consistent, a committed upload is complete; with all other writers between any two statements |
| `episode_store_race` | two uploads at once, one action each, 2 history rows; symmetric requests | nothing committed is lost, one row per address, every outcome is one of `EpisodeService` |
| `optional_device` | as `episode_store` | violation: an action without a device panics |
| `episode_store_pg` | two requests at once, each an upload of one action or of two, the older last, or one that creates a device and podcasts; 1 address, 1 device name, 2 device rows, 2 episode rows, 3 history rows; symmetric requests | with PostgreSQL, duplicates and overwritten rows come from requests that overlap and from nothing else; references hold and no history is lost even then |
| `episode_pull` | 2 podcasts, 2 devices of which one asks, 5 actions at 3 times, pages of one, 2 ticks a second, 2 seconds, 2 history rows | a device misses nothing but late and cut off actions, is never sent back in time, and learns of the others unless a second is crowded or the rows of a deleted device are in the way |
| `subscription_sync` | 1 podcast, 1 device, 2 changes at once, 2 ticks a second, ticks 1 to 3 | a device misses nothing but late changes, and one that keeps asking learns of the others |
| `subscription_missed` | 1 podcast | violation: a late change is missed for good |
| `downloader` | 2 users, 1 feed of 3 versions, the server and one command with 2 workers each, 3 seconds | titles go back only by an answer that the other process has overtaken, nothing is skipped without one of the reasons named, rounds end |
| `downloader_missing` | 2 users, 1 feed, no command | violation, below |
| `sessions` | 3 requests, 1 session id, 2 users, 2 moments; symmetric | a session has the user of its last login unless an overtaken request wrote it back; a locked account gets into no further session |
| `library` | 2 podcasts, 2 addresses, 1 GUID, 1 device, 2 times, 2 numbers of each kind, 2 history rows, 1 setting, PostgreSQL's maintenance as an action and both as operators | settings refer to rows; what an import restores, and that it never connects rows that were not; maintenance shows nothing new |
| `server` | 2 requests, 1 task, 1 connection; 11 configurations that are refused or panic, the defaults with SQLite for a form and a password page, PostgreSQL for a page and a plain handler | connections, answers, statuses and panics; who waits is served, a stop ends |

The bounds are enough for the cases that matter: two addresses may come to share a GUID, which
makes the look up ambiguous; two uploads of one address is the race an index would forbid; a
batch of two makes a transaction longer than one write; three ticks of two to a second put a
change before, in and after the second of a poll, and two polls around it; devices and podcasts
do not see each other in `SubscriptionSync`, so one of each stands for any of them. Three
versions and three seconds let a feed change before, during and after a download, and again
after a skip; two processes with the same address are what it takes to overtake an answer, and
one address in two tasks of one process is what the mutant without the GROUP BY makes. When
history rows run out an upload cannot go on, and it rolls back: the bound removes behaviours
and adds none.

A session comes back in a way that takes three requests, one that holds the user, one that
destroys the row and one that inserts it again; sessions do not touch one another, so one id is
enough; two moments let it expire once, at any point of a request.

In `episode_pull` two rows and pages of one make every page end before something; times 2, 3
and 4 with two ticks to a second put two actions in one second and two at one time. In
`episode_store_pg` a row that an older action overwrites for good would take three times, since
the row first has to be there with another; the property would allow it (the uploads overlap),
and the run has the duplicates, which take the same overlap. In `library` two numbers of each
kind are enough to delete a row and insert its successor during an export, which is when a
number given twice would misattribute (the mutant that does so breaks `ImportInventsNothing`).
In `server` one connection is a pool at its limit as soon as it is used; the task and two
requests are three that compete for it. The run has the form and the password page with SQLite,
the page of a podcast and a plain handler with PostgreSQL; the other pairs of a driver and a
kind of handler are left to the theorems.

Fairness is stated for the four runs that check liveness. Devices keep polling (weak fairness
of `Ask`), and a poll that can be answered again and again is answered and taken once (strong
fairness of `Take`, since a lost answer starts the poll anew): this is what the
word *device* means, and without it nothing could be promised. The server's own steps need
none but that a query ends. In `Downloader` the runtime runs the timer and the workers (weak
fairness), and a worker's step includes its failure: a download ends within the ten seconds of
its timeout, well or not. In `Server` a process that starts or stops goes on, calls end and
requests are answered (weak fairness); who waits for a connection gets one if there is one
again and again (strong fairness of `Connect`: `database/sql` gives a connection that comes
back to one of the waiters at random, so none is passed over for ever).
Nothing is assumed of signals and clients. `WaitersServed` excepts a pool all of whose
connections are lost, which the code does not guard against.

## Findings

Three runs find what the code does against what its documents say of it.

1. `optional_device`: the device of an uploaded action is documented as optional; without
   one, `AddAction` dereferences nil. The panic skips both commit and rollback, and the
   transaction stays open, with the write lock if it wrote, until the client goes away.
2. `subscription_missed`: a change is stamped when its request arrives. A device whose poll
   arrives later and reads before the change commits is told a time after the stamp, and
   never asks for the change again. `NothingElseMissed` shows that this is the only way.
3. `downloader_missing`: the never updated podcast of a new user is grouped with the rows of
   others for the same address, and `min` of the stamps passes over its NULL.

What else the properties name as an exception, and a reader of the code may not expect:

- `NothingElseSkipped`: what a feed publishes during its download is older than the stamp,
  and a 304 may be decided by another user's row.
- `TitlesGoBackOvertakenOnly`: a download command beside the server may store an older title
  over a newer one. A later round repairs it only when the feed changes once more, or has
  no dates.
- `NothingElseUnseen`: an action uploaded late is never pulled, nor is one with the time of
  the last row of a full page. `ActionsArrive` excepts a second with a page of actions
  (`Crowded`): an answer carries whole seconds, so the device asks for the same page again. It
  excepts the actions of a deleted device too (`Blocked`): a page with one of them answers 500
  each time, and so does everything behind it.
- `AnswersGoForward`: a client whose clock is ahead uploads actions of the future, which take
  the others ahead of the server; their next empty answer takes them back.
- `LatestUnlessRaced`, `NamesUniqueUnlessRaced`: duplicates with PostgreSQL, of episodes from
  uploads that overlap, of devices from any two requests that create them.
- `ImportRestores`: the setting of an episode is imported as one of its podcast (`ToKey` drops
  the episode), episodes of one podcast with one GUID become one, and an export during which
  rows were inserted may not be importable at all. Once a device with actions was deleted there
  is no export.
- `MaintenanceKeepsShown` holds for SQLite only because its `VACUUM` is refused in the
  transaction, and everything before it is rolled back.
- `NoConnectionKept` counts the connections that `CloseConnection` of the SQLite repository
  loses: it runs `PRAGMA optimize` with the context of the request and returns before it
  closes when that fails.
- `AnswerTellsOutcome`: with PostgreSQL a transaction may be kept behind a 500, when its commit
  failed; the page of the password answers 200 whatever became of it; a bad form keeps its 400
  over a transaction that was kept.
- `StatusFollowsCause`: an error joined with that of a failed rollback has no tag any more; a
  page of a podcast calls any failure of its look up, one of the database too, a missing
  podcast.
- `PanicsExplained`: an unknown method of authentication, a web root without its slash and a
  connection string that sqlite refuses pass every `Validate`; a background task that asks for
  a connection after the database is closed follows a nil pointer.
- A podcast that is deleted leaves nothing that would tell other devices of it, so
  `NothingElseMissed` speaks of the podcasts the server has.

## Proofs

### The upload

`EpisodeStoreProofs` proves, for any sets of requests, batches, podcasts, devices and row
numbers, the type invariant and every invariant and action property of the two `episode_store`
runs, the refinement `Serializable` among them. The assumptions are those of the module: times
are naturals, NULL is not a GUID, a device or a request, and batches are non-empty sequences of
uploads (`Validate` refuses an empty one).

`TypeOK` is inductive. `LatestActionShown`, `OneRowPerUrl` and `RowsReferToRows` are not: a
commit replaces the database by what the transaction has in `work`. So the invariant `IInv`
says the same (`Consistent`) of the database and of the view of every open transaction, and
that what a transaction has resolved so far is in its tables (`Ready`), so that saving the
rest of its batch refers to rows that exist. That every statement preserves consistency is a
lemma of `EpisodeTablesProofs` each (`SaveActionConsistent` for the central one), proved once
and cited by the step of the transaction and of the other writers alike. For the action
properties, `SInv` adds that a transaction that is not out of date extends the current
database by what its batch names (`SnapshotOK`); that is what makes a lost update impossible,
and it is preserved because `MarkStale` marks the others at every commit and a write needs a
current snapshot.

For the refinement (`UploadsSerialize`), `RInv` adds where a transaction with a current
snapshot is on its way from the committed database to an abstract upload of it (`Follows`): in
the first loop its view is that database with the podcasts and devices of the actions so far
(`Resolved`); in the second it is one of the contents that the abstract upload has after as
many actions (`After`). A commit needs the lock, so its snapshot is current and it has gone all
the way; any other step of a request leaves the database alone, and maps to a stutter. A stale
transaction needs no such promise, since it can only roll back. `Uploaded` is a recursive
function over the batch; that it exists, and so unfolds to the equations of its definition,
is proved from a least counterexample (`SavesExist`, by `LeastNumber`).

### Subscriptions

`SubscriptionSyncProofs` proves the type invariant and `NothingElseMissed` for any number of
devices, podcasts and requests and any length of a second. The invariant says of an answer on
its way what it says of the device itself: what the answer leaves out is either as the device
knows it, or changed at the time the answer bears or later, or late (`PairOK`, of the device
and of the `View` it will have when it takes the answer); and the times of the client, of the
poll and of the clock follow one another (`TimesOK`). It rests on `SecondsGrow`: cutting times
to whole seconds keeps their order. The assumptions: a second is at least one tick, and a
reply that carries no change is not one that carries some.

### The downloader

`DownloaderProofs` proves the type invariant, `NothingElseSkipped` and
`TitlesGoBackOvertakenOnly` for any number of users, feeds, commands, workers and versions,
with the flag or without. The invariant: within a process an address is in one task or with
one worker at a time, and with none of the server between rounds (`Exclusive`, which the
GROUP BY of the listing begins and `EndRound` ends); no stamp is ahead of the clock and no
title of its feed (`NothingAhead`); and what a worker is about to store is at least as new as
the rows it will overwrite, unless it is overtaken (`StoresNewer`). The other workers of its
process do not hold the address, and a store of another process marks it, so the last part
survives every step. The assumptions: NULL is neither a time nor a row, and the server is no
command.

### Sessions

`RequestProofs` proves of `Sessions` the type invariant, `UserIsOwner` and
`LockedGainsNothing` for any number of requests, session ids and names. The invariant is
`InStep`: a request that has not been overtaken and has not logged anyone in or out has the user
of the row, or none if there is no row; so what `Release` writes back is what is there. It
survives the steps of others because every step that changes the user of a row overtakes the
requests that have read it. One lemma (`StepKeeps`) says so of all steps of requests. The
assumptions: a life time and the clock are naturals, NULL is neither a name nor a row.

### The server

`RequestProofs` proves of `Server` the six invariants of the run for any number of requests,
tasks and connections, any configurations, either driver and any kinds of handlers. The
invariant has a part for each:
who is in a call has a connection, and those and the lost ones are no more than the pool
(`PoolInv`); how far the process is says whether the database is open and who may still run
(`StopInv`); what a request has written and why it failed fits the error it carries, the kind of
its handler and the answer it gives (`OutcomeInv`, which is where the tags of errors are
followed through `Wrapf`, `ApplyFor` and `Join`); and who can panic when (`PanicInv`: before the
server listens no request has come, and a task that outlives the database has been signalled).
The assumptions are that requests and tasks are finite
and apart, that the pool has a connection, and that None is none of the causes and ends.

### The upload with PostgreSQL

`EpisodeStorePgProofs` proves the properties of the run, `TypeOK`, `RowsReferToRows`,
`LatestUnlessRaced`, `NamesUniqueUnlessRaced` and `HistoryKept`, for any requests, batches and
row numbers. The invariant speaks of the database and of all open transactions at once:

- a row number is drawn once, and an episode row is changed by one open transaction
  (`NumbersInv`);
- the rows of a transaction refer to rows of it or of the database (`RefersInv`), and a row
  keeps its address whoever writes it (`KeysInv`);
- a name, and an episode, that nobody has raced for is on one row of the database and of all
  transactions (`NamesInv`, `OneRowInv`), and a row shows the latest of the history next to it
  (`LatestInv`);
- the history of a transaction has the actions it went through (`RecordedInv`);
- what a statement has looked up is still so when the next one writes, unless raced
  (`LookedInv`, of the episodes of uploads and of the devices of uploads and of the requests
  that create them). This is the heart of it: a commit marks as raced whatever makes the look
  ups of others out of date, and no other step can do that.

The assumptions: times are naturals, batches are sequences of uploads and not empty, None is
no row number, and a device name is not a pair of a podcast and an address (`raced` holds
both).

### The pull

`EpisodePullProofs` proves `TypeOK`, `NothingElseUnseen` and `AnswersGoForward` for any
devices, actions, times, GUIDs and page limits. The invariant follows two times of each
device: the one it asks from, and the one the answer under way will give it. Everything that
is not after such a time is known, in the rows of the answer, or late (`Follows`). An uploaded
row keeps this, since it is known to its own device and late for the others unless its time is
still to be asked for; a page keeps it, since the rows left out are not before its last one,
and those with the time of the answer are cut off; an empty page means that nothing is left.

For `AnswersGoForward` the invariant says of each device that its times are whole seconds and
that an answer under way is not before its request (`TimesInv`). The rows of a page are after
the time of the request, but the answer carries only the second of its last row: it is not
before the request because that is a whole second as well, and cutting to whole seconds keeps
the order. An empty answer carries the clock, which is behind the request only if an action of
the future has taken the device there.

The assumptions are those of `PullAssumption`: a page has a row, a second has a tick, and no
action is from before the first second. Updates from feeds, which may give two episodes one
GUID, are in `EpisodeStore` and not in this module.

### The library, its export and its import

`LibraryProofs` proves the five invariants of the run, `TypeOK`, `SettingsReferToRows`,
`MaintenanceKeepsShown`, `ImportInventsNothing` and `ImportRestores`, for any podcasts,
addresses, GUIDs, devices, uploads and bounds, and for files of any length. The inductive
invariant is `LibraryInv`, which TLC has checked on the instance of the run too. Its parts:

- the tables are consistent (`Consistent(db)`): references hold, rows show the latest of their
  history, an address has one row in a podcast, settings name rows that are there, and each
  row of the history came from an upload for its podcast (`CameFrom`). This gives the settings
  and, with a lemma for each repository, the maintenance.
- every number in use was given (`NumbersGiven`), so the number of a new row has not been in
  any file before.
- what an export has read is consistent in itself (`FileHolds`): each of its actions was
  uploaded for the podcast that its number names in the file, and actions of one episode carry
  one GUID. It has to be said of files under way, as the podcasts are read before the actions
  and both may change in between.
- a number in the file never comes to mean another podcast (`FileOf`). This is where
  AUTOINCREMENT matters: a podcast deleted and another one inserted during the export do not
  share a number.
- an export that nobody disturbed has read what was there when it began (`Undisturbed`).

What an import does is then shown of the replay, action by action: after k actions of the file
the new tables are consistent, the history has one row for each of the k, with the time and the
device of that action, and its episode has the address of the action or its GUID (`Replay`).
The step is `ReplayedReplay`, and `ReplaySteps` carries it to the whole file by a least
counterexample. `ImportInventsNothing` follows with `FileHolds`. For `ImportRestores` the file
is that of one library (`Whole`); without a shared GUID the rows that the look up may match are
those of the episode itself, so no save is refused, rows are neither merged nor split, and
history, names and settings come out as they went in, up to their numbers.

The assumptions are those of `LibraryAssumption`: times and bounds are naturals, uploads are
uploads, and None is neither a number nor a GUID.

### What is proved and what is checked

What each theorem says was checked with TLC before it was proved.
All invariants and action properties of the passing runs are proved, and so is the refinement.
Only model-checked are the liveness properties, `ChangesArrive`, `ActionsArrive`,
`RoundsEnd`, `WaitersServed` and `StopEnds`, with the fairness they rest on: anything about
fairness and ENABLED is out of the prover's reach. Induction over data is too, in its general
form; where it is needed (the batch of an upload, the file of an import) it is done with a
least counterexample, for one recursive function at a time.

## Not modelled

- Routing, logging, tracing, metrics and rendering keep no state. Formats (JSON, OPML, text)
  and the validation of input are conversions; their verdicts are guards of the actions.
- Password hashing is a comparison with two outcomes.
- Migrations and `Clear` run before anything else does.
- With PostgreSQL, two commands on one account race (`ChangePassword` writes back the lock it
  has read); `Sessions` takes a command for one step. Two requests may also insert the same
  setting, which a unique index with NULL columns does not forbid; a setting is in a set.
- The panic inside a transaction is in `EpisodeStore`, and not composed with the pool in
  `Server`.
- That a re-subscription by a late upload undoes what the user wanted: for `SubscriptionSync` it
  is one more change. That the clean up of SQLite would delete episodes of other users if it were
  ever committed: `Library` has one user.
- What the logout promises its client, and that expired sessions go in the end (nothing but
  the timer of the session library makes them).
- `ResolvePodcastsURL`, `Regenerate`, `Count` and `Delete` of the sessions are called by
  nothing.

What would come next: account commands with PostgreSQL as two steps, the panic in `Server`,
and the composition of `Library` with the interleavings of `EpisodeStore`.
