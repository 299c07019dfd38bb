-------------------------------- MODULE Downloader --------------------------------
(***************************************************************************)
(* The background task that loads what the feeds say of the podcasts, and  *)
(* the command 'podcast download-info', which does it in other processes.  *)
(*                                                                         *)
(* A round lists the podcasts to update, once per address, and hands them  *)
(* to a few workers over a channel; a worker fetches a feed and stores its *)
(* title in the rows of every user.  Meanwhile users subscribe, feeds      *)
(* change and processes are killed.  A title is the number of the feed's   *)
(* version it came from.                                                   *)
(***************************************************************************)
EXTENDS Naturals, FiniteSets, FiniteSetsExt

CONSTANTS
    Users,        \* user names
    Urls,         \* podcast addresses
    Commands,     \* processes that run the command, beside the server
    MaxWorkers,   \* goroutines of a round: five
    MissingOnly,  \* the flag podcast-load-only-missing
    MaxClock,     \* bound: the last second
    MaxVersion,   \* bound: versions of a feed
    None          \* SQL NULL

Server == "server"
Processes == {Server} \cup Commands

ASSUME DownloaderAssumption ==
    /\ Server \notin Commands
    /\ MissingOnly \in BOOLEAN
    /\ MaxWorkers \in Nat \ {0}
    /\ MaxClock \in Nat \ {0}
    /\ MaxVersion \in Nat \ {0}
    /\ None \notin Nat

VARIABLES
    clock,    \* the time, in seconds
    feed,     \* the feeds as their servers publish them
    rows,     \* the table podcasts
    loop,     \* podcastDownloadTask of the server
    tasks,    \* the channel of each process
    busy,     \* what the goroutines of each process that hold a task are doing
    missed    \* history: rows and what they missed, see Misses

vars == <<clock, feed, rows, loop, tasks, busy, missed>>

-----------------------------------------------------------------------------

Times == 0 .. MaxClock
Versions == 1 .. MaxVersion
NoTitle == 0

Filled == [subscribed : BOOLEAN, meta : Times \cup {None}, title : Versions \cup {NoTitle}]
Row == Filled \cup {None}

ASSUME NoneIsNoRow == None \notin Filled

Task == [url : Urls, meta : Times \cup {None}]
NotModified == 0

\* overtaken is history, no code: another process has stored this address since the answer.
Busy ==
    [phase : {"fetch"}, task : Task]
    \cup [phase : {"store"}, task : Task, got : Versions \cup {NotModified},
          overtaken : BOOLEAN]

\* One type invariant: every variable has its shape.
TypeOK ==
    /\ clock \in Times
    /\ feed \in [Urls -> [version : Versions, modified : Times]]
    /\ rows \in [Users \X Urls -> Row]
    /\ loop \in [phase : {"waiting"}, since : Times] \cup [phase : {"running"}, start : Times]
    /\ tasks \in [Processes -> SUBSET Task]
    /\ busy \in [Processes -> SUBSET Busy]
    /\ missed \subseteq Users \X Urls

\* since begins a day before the process, here before every row's stamp.
Waiting(since) == [phase |-> "waiting", since |-> since]

Init ==
    /\ clock = 1
    /\ feed = [p \in Urls |-> [version |-> 1, modified |-> 0]]
    /\ rows = [k \in Users \X Urls |-> None]
    /\ loop = Waiting(0)
    /\ tasks = [p \in Processes |-> {}]
    /\ busy = [p \in Processes |-> {}]
    /\ missed = {}

-----------------------------------------------------------------------------
\* A round.

\* metadata_updated_at IS NULL OR metadata_updated_at < ?
Older(meta, since) == IF meta = None THEN TRUE ELSE meta < since

\* The rows ListPodcastsToUpdate groups by their address.
Due(p, since) ==
    {k \in Users \X {p} :
        /\ rows[k] # None
        /\ rows[k].subscribed
        /\ Older(rows[k].meta, since)}

\* min(metadata_updated_at) passes over NULL.
OldestMeta(keys) ==
    LET known == {rows[k].meta : k \in keys} \ {None}
    IN  IF known = {} THEN None ELSE Min(known)

\* Mutant: ListPodcastsToUpdate without its GROUP BY.
ToUpdateUngrouped(since, missingonly) ==
    {[url |-> k[2], meta |-> rows[k].meta] : k \in UNION {Due(p, since) : p \in Urls}}

\* What ListPodcastsToUpdate returns, and the selection of the flag.
ToUpdate(since, missingonly) ==
    LET found == {[url |-> p, meta |-> OldestMeta(Due(p, since))] :
                  p \in {q \in Urls : Due(q, since) # {}}}
    IN  IF missingonly THEN {t \in found : t.meta = None} ELSE found

\* The interval is over.  Without a podcast to update the task waits again.
StartRound ==
    /\ loop.phase = "waiting"
    /\ LET found == ToUpdate(loop.since, MissingOnly)
       IN  /\ tasks' = [tasks EXCEPT ![Server] = found]
           /\ loop' = IF found = {} THEN Waiting(clock)
                      ELSE [phase |-> "running", start |-> clock]
    /\ UNCHANGED <<clock, feed, rows, busy, missed>>

\* The podcasts cannot be listed: the task takes the round for done.
ListFails ==
    /\ loop.phase = "waiting"
    /\ loop' = Waiting(clock)
    /\ UNCHANGED <<clock, feed, rows, tasks, busy, missed>>

\* wg.Wait is waiting: the channel is not empty, or a worker has not returned.
Running(p) == tasks[p] # {} \/ busy[p] # {}

EndRound ==
    /\ loop.phase = "running"
    /\ ~Running(Server)
    /\ loop' = Waiting(loop.start)
    /\ UNCHANGED <<clock, feed, rows, tasks, busy, missed>>

\* podcast download-info runs one round, with any --max-age and its own flag.
StartCommand(c) ==
    /\ ~Running(c)
    /\ \E since \in 0 .. clock, missingonly \in BOOLEAN :
          tasks' = [tasks EXCEPT ![c] = ToUpdate(since, missingonly)]
    /\ UNCHANGED <<clock, feed, rows, loop, busy, missed>>

\* A process is killed.  A server that starts again has lost the time of its last round.
Kill(p) ==
    /\ tasks' = [tasks EXCEPT ![p] = {}]
    /\ busy' = [busy EXCEPT ![p] = {}]
    /\ loop' = IF p = Server THEN Waiting(0) ELSE loop
    /\ UNCHANGED <<clock, feed, rows, missed>>

-----------------------------------------------------------------------------
\* A worker.

Receive(p) ==
    /\ Cardinality(busy[p]) < MaxWorkers
    /\ \E t \in tasks[p] :
          /\ tasks' = [tasks EXCEPT ![p] = @ \ {t}]
          /\ busy' = [busy EXCEPT ![p] = @ \cup {[phase |-> "fetch", task |-> t]}]
    /\ UNCHANGED <<clock, feed, rows, loop, missed>>

\* The feed has changed since the stamp.
Newer(f, meta) == IF meta = None THEN TRUE ELSE f.modified > meta

\* The feed server answers: the feed, or, when the feed has not changed since the stamp it
\* was asked with, 304.  feedNeedToBeUpdated keeps a feed that is newer than the stamp and
\* one without dates, of which there are some.
Fetch(p, b) ==
    LET f == feed[b.task.url]
        become(after) == busy' = [busy EXCEPT ![p] = (@ \ {b}) \cup after]
        answer(v) ==
            {[phase |-> "store", task |-> b.task, got |-> v, overtaken |-> FALSE]}
    IN  /\ b.phase = "fetch"
        /\ \/ become(answer(f.version))
           \/ ~Newer(f, b.task.meta) /\ become(answer(NotModified))
           \/ ~Newer(f, b.task.meta) /\ become({})
        /\ UNCHANGED <<clock, feed, rows, loop, tasks, missed>>

\* Mutant: the stamp is rounded up to the next second.
StampedAhead(row, got) ==
    [row EXCEPT !.meta = clock + 1,
                !.title = IF got = NotModified THEN @ ELSE got]

\* UpdatePodcastsInfo: the time of the stamp is the one after the answer was read.
Stamped(row, got) ==
    [row EXCEPT !.meta = clock,
                !.title = IF got = NotModified THEN @ ELSE got]

\* History, no code: the rows that the answer to t does not bring up to date, because the
\* feed has changed since its server answered, or because the server was asked with the
\* stamp of another user's row.
Misses(t, got) ==
    {k \in Users \X {t.url} :
        /\ rows[k] # None
        /\ IF got # NotModified THEN got < feed[t.url].version
           ELSE /\ rows[k].title < feed[t.url].version
                /\ Newer(feed[t.url], t.meta) \/ Older(rows[k].meta, t.meta)}

\* History, no code: what a worker of another process holds after a store of url.
Overtaken(b, url) ==
    IF b.phase = "store" /\ b.task.url = url THEN [b EXCEPT !.overtaken = TRUE] ELSE b

\* The answer has been read and parsed: store it in the rows of all users.
Store(p, b) ==
    LET url == b.task.url
    IN  /\ b.phase = "store"
        /\ rows' = [k \in Users \X Urls |->
              IF k[2] = url /\ rows[k] # None THEN Stamped(rows[k], b.got) ELSE rows[k]]
        /\ missed' = {k \in missed : rows'[k] # None /\ rows'[k].title < feed[k[2]].version}
                      \cup Misses(b.task, b.got)
        /\ busy' = [q \in Processes |-> IF q = p THEN busy[p] \ {b}
                                        ELSE {Overtaken(c, url) : c \in busy[q]}]
        /\ UNCHANGED <<clock, feed, loop, tasks>>

\* Mutant: a podcast that fails is stamped, to leave it alone for a while.
FailStamped(p, b) ==
    /\ rows' = [k \in Users \X Urls |->
          IF k[2] = b.task.url /\ rows[k] # None THEN Stamped(rows[k], NotModified) ELSE rows[k]]
    /\ busy' = [busy EXCEPT ![p] = @ \ {b}]
    /\ UNCHANGED <<clock, feed, loop, tasks, missed>>

\* Mutant: a podcast that fails goes back to the channel.
FailRequeued(p, b) ==
    /\ tasks' = [tasks EXCEPT ![p] = @ \cup {b.task}]
    /\ busy' = [busy EXCEPT ![p] = @ \ {b}]
    /\ UNCHANGED <<clock, feed, rows, loop, missed>>

\* The feed cannot be had or read, or the database is busy: the worker goes on.
Fail(p, b) ==
    /\ busy' = [busy EXCEPT ![p] = @ \ {b}]
    /\ UNCHANGED <<clock, feed, rows, loop, tasks, missed>>

-----------------------------------------------------------------------------
\* The rest of the world.

\* A client subscribes; SavePodcast leaves the metadata of an existing row alone.
Subscribe(k) ==
    /\ rows' = [rows EXCEPT ![k] =
          IF @ = None THEN [subscribed |-> TRUE, meta |-> None, title |-> NoTitle]
          ELSE [@ EXCEPT !.subscribed = TRUE]]
    /\ UNCHANGED <<clock, feed, loop, tasks, busy, missed>>

Unsubscribe(k) ==
    /\ rows[k] # None
    /\ rows' = [rows EXCEPT ![k].subscribed = FALSE]
    /\ UNCHANGED <<clock, feed, loop, tasks, busy, missed>>

\* DeletePodcast of the web pages.
DeletePodcast(k) ==
    /\ rows[k] # None
    /\ rows' = [rows EXCEPT ![k] = None]
    /\ missed' = missed \ {k}
    /\ UNCHANGED <<clock, feed, loop, tasks, busy>>

\* A feed gets an episode.  A row stamped in the same second misses it.
Publish(p) ==
    /\ feed[p].version < MaxVersion
    /\ feed' = [feed EXCEPT ![p] = [version |-> @.version + 1, modified |-> clock]]
    /\ missed' = missed \cup {k \in Users \X {p} : rows[k] # None /\ rows[k].meta = clock}
    /\ UNCHANGED <<clock, rows, loop, tasks, busy>>

Tick ==
    /\ clock < MaxClock
    /\ clock' = clock + 1
    /\ UNCHANGED <<feed, rows, loop, tasks, busy, missed>>

-----------------------------------------------------------------------------

Work(p) == Receive(p) \/ \E b \in busy[p] : Fetch(p, b) \/ Store(p, b) \/ Fail(p, b)

Next ==
    \/ StartRound
    \/ ListFails
    \/ EndRound
    \/ \E c \in Commands : StartCommand(c)
    \/ \E p \in Processes : Work(p) \/ Kill(p)
    \/ \E k \in Users \X Urls : Subscribe(k) \/ Unsubscribe(k) \/ DeletePodcast(k)
    \/ \E p \in Urls : Publish(p)
    \/ Tick

Spec == Init /\ [][Next]_vars

\* The scheduler runs the task and the workers; a request times out after 10 seconds.
Fairness == WF_vars(StartRound) /\ WF_vars(EndRound) /\ \A p \in Processes : WF_vars(Work(p))

FairSpec == Spec /\ Fairness

-----------------------------------------------------------------------------

\* Workers store feeds in any order, yet within a process no row goes back to an older
\* version of its feed, in a round or across rounds.  It does only when a worker's answer
\* is older than what another process, which lists the same addresses, has stored since.
TitlesGoBackOvertakenOnly ==
    [][\A k \in Users \X Urls :
          rows[k] # None /\ rows'[k] # None /\ rows'[k].title < rows[k].title
          => \E p \in Processes : \E b \in busy[p] \ busy'[p] :
                b.phase = "store" /\ b.task.url = k[2] /\ b.overtaken]_vars

\* A row that is behind its feed is fetched when its turn comes, unless the feed changed
\* between the answer of its server and the stamp (or in the second of the stamp), or
\* another user's row decided that the feed is not modified.
NothingElseSkipped ==
    \A k \in Users \X Urls :
        \/ rows[k] = None
        \/ rows[k].title = feed[k[2]].version
        \/ Newer(feed[k[2]], rows[k].meta)
        \/ k \in missed

\* A round ends, however its downloads fail and whatever a command does meanwhile.
RoundsEnd == loop.phase = "running" ~> loop.phase = "waiting"

\* "Select only podcast without metadataupdate = never updated": a round for what is
\* missing has the address of every subscribed podcast that was never updated.
MissingListed ==
    [][StartRound =>
        \A k \in Users \X Urls :
            rows[k] # None /\ rows[k].subscribed /\ rows[k].meta = None
            => \E t \in tasks'[Server] : t.url = k[2]]_vars
================================================================================
