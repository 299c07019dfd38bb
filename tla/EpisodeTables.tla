------------------------------ MODULE EpisodeTables ------------------------------
(***************************************************************************)
(* The rows one user owns in the tables podcasts, devices, episodes and    *)
(* episodes_hist, and what each SQL statement of the repositories does to  *)
(* them.  A value t of Tables is one content of the database; a            *)
(* specification decides when a statement runs and who sees its result.    *)
(*                                                                         *)
(* A podcast, a device and an episode address are the text the client      *)
(* sends; a podcast row and a device row are named by that text, because   *)
(* deleting either one removes or clears every reference to its number.    *)
(* Row numbers matter for episodes and history only.  An element of        *)
(* Actions stands for an action with its started, position and total.      *)
(***************************************************************************)
EXTENDS Naturals

CONSTANTS
    Podcasts,    \* podcast addresses
    Urls,        \* episode addresses
    Guids,       \* GUIDs a feed or a client may send; an item without one has the empty one
    Devices,     \* device names
    Actions,     \* what may happen to an episode: play (with a position), new, ...
    EpisodeIds,  \* values of episodes.id
    HistIds,     \* one per row of episodes_hist
    Times,       \* client timestamps
    None         \* SQL NULL, or the empty device name

ASSUME TablesAssumption ==
    /\ Times \subseteq Nat
    /\ None \notin Guids
    /\ None \notin Devices

-----------------------------------------------------------------------------

EpisodeRow ==
    [podcast : Podcasts, url : Urls, guid : Guids \cup {None},
     action : Actions, device : Devices \cup {None}, ts : Times]

HistRow ==
    [episode : EpisodeIds, action : Actions, device : Devices \cup {None}, ts : Times]

\* An action as a client uploads it; its device name may be empty.
Upload == EpisodeRow

\* A table is a function from the numbers of its rows to the rows.
TableOf(Ids, Row) == UNION {[S -> Row] : S \in SUBSET Ids}

Tables ==
    [podcasts : [Podcasts -> {"absent", "subscribed", "unsubscribed"}],
     devices  : SUBSET Devices,
     episodes : TableOf(EpisodeIds, EpisodeRow),
     hist     : TableOf(HistIds, HistRow)]

EmptyTables ==
    [podcasts |-> [p \in Podcasts |-> "absent"],
     devices  |-> {},
     episodes |-> [i \in {} |-> None],
     hist     |-> [h \in {} |-> None]]

-----------------------------------------------------------------------------
\* Row operations.

PutRow(table, k, row) ==
    [j \in DOMAIN table \cup {k} |-> IF j = k THEN row ELSE table[j]]

KeepRows(table, S) == [j \in S |-> table[j]]

FreeEpisodeIds(t) == EpisodeIds \ DOMAIN t.episodes
FreeHistIds(t) == HistIds \ DOMAIN t.hist

-----------------------------------------------------------------------------
\* Statements of the repositories.

\* podcastscache.GetOrCreate: a podcast that is missing is inserted, one that is
\* unsubscribed is subscribed again.
EnsurePodcast(t, p) == [t EXCEPT !.podcasts[p] = "subscribed"]

\* devicescache.GetOrCreate for a name that is not empty.
EnsureDevice(t, d) == [t EXCEPT !.devices = @ \cup {d}]

\* Mutant: an action with a GUID is looked up by that alone.
MatchingGuids(t, a) ==
    {i \in DOMAIN t.episodes :
        /\ t.episodes[i].podcast = a.podcast
        /\ IF a.guid # None THEN t.episodes[i].guid = a.guid ELSE t.episodes[i].url = a.url}

\* The rows the lookup of insertOrUpdateEpisode may return.  NULL equals nothing.
MatchingEpisodes(t, a) ==
    {i \in DOMAIN t.episodes :
        /\ t.episodes[i].podcast = a.podcast
        /\ \/ t.episodes[i].url = a.url
           \/ a.guid # None /\ t.episodes[i].guid = a.guid}

\* The row number insertOrUpdateEpisode works on: of any matching row, or a fresh one.
TargetIds(t, a) ==
    IF MatchingEpisodes(t, a) # {} THEN MatchingEpisodes(t, a)
    ELSE IF FreeEpisodeIds(t) # {} THEN {CHOOSE i \in FreeEpisodeIds(t) : TRUE}
    ELSE {}

\* Mutant: an upsert, which does not compare the modification dates.
EpisodeUpserted(t, a, i) ==
    IF i \notin DOMAIN t.episodes THEN a
    ELSE [t.episodes[i] EXCEPT !.action = a.action, !.device = a.device, !.ts = a.ts]

\* INSERT a new row, UPDATE a row that is older than the action, or skip.
EpisodeAfter(t, a, i) ==
    IF i \notin DOMAIN t.episodes THEN a
    ELSE IF t.episodes[i].ts < a.ts
         THEN [t.episodes[i] EXCEPT !.action = a.action, !.device = a.device, !.ts = a.ts]
         ELSE t.episodes[i]

\* Mutant: an action that is older than the row is dropped.
SaveNewerAction(t, a, i, h) ==
    IF i \in DOMAIN t.episodes /\ t.episodes[i].ts >= a.ts THEN t
    ELSE [t EXCEPT
            !.episodes = PutRow(@, i, EpisodeAfter(t, a, i)),
            !.hist = PutRow(@, h, [episode |-> i, action |-> a.action,
                                   device |-> a.device, ts |-> a.ts])]

\* One round of SaveEpisode: the episode row i, then a history row h in any case.
SaveAction(t, a, i, h) ==
    [t EXCEPT
        !.episodes = PutRow(@, i, EpisodeAfter(t, a, i)),
        !.hist = PutRow(@, h, [episode |-> i, action |-> a.action,
                               device |-> a.device, ts |-> a.ts])]

\* DELETE of a device: episodes by the statement, history by its foreign key.
WithoutDevice(t, d) ==
    [t EXCEPT
        !.devices = @ \ {d},
        !.episodes = [i \in DOMAIN @ |->
            IF @[i].device = d THEN [@[i] EXCEPT !.device = None] ELSE @[i]],
        !.hist = [h \in DOMAIN @ |->
            IF @[h].device = d THEN [@[h] EXCEPT !.device = None] ELSE @[h]]]

\* Mutant: the foreign keys of the connection are off.
WithoutPodcastOnly(t, p) == [t EXCEPT !.podcasts[p] = "absent"]

\* DELETE of a podcast: the foreign keys delete its episodes and their history.
WithoutPodcast(t, p) ==
    LET left == {i \in DOMAIN t.episodes : t.episodes[i].podcast # p}
    IN  [t EXCEPT
            !.podcasts[p] = "absent",
            !.episodes = KeepRows(@, left),
            !.hist = KeepRows(@, {h \in DOMAIN @ : @[h].episode \in left})]

\* ChangeSubscriptions or ReplaceSubscriptions takes a podcast off the list.
Unsubscribed(t, p) == [t EXCEPT !.podcasts[p] = "unsubscribed"]

\* UpdateEpisodeInfo: every row with this address takes the GUID of the feed.
WithFeedGuid(t, u, g) ==
    [t EXCEPT !.episodes = [i \in DOMAIN @ |->
        IF @[i].url = u THEN [@[i] EXCEPT !.guid = g] ELSE @[i]]]

-----------------------------------------------------------------------------
\* What a consistent content of the tables satisfies.

\* Episode i shows what history row h records.
Shows(t, i, h) ==
    /\ t.hist[h].episode = i
    /\ t.hist[h].action = t.episodes[i].action
    /\ t.hist[h].device = t.episodes[i].device
    /\ t.hist[h].ts = t.episodes[i].ts

\* Every episode row is a copy of one of its history rows, and none is newer.
ShowsLatest(t) ==
    \A i \in DOMAIN t.episodes :
        /\ \E h \in DOMAIN t.hist : Shows(t, i, h)
        /\ \A h \in DOMAIN t.hist :
              t.hist[h].episode = i => t.hist[h].ts <= t.episodes[i].ts

\* An episode address has at most one row in a podcast.
UrlsUnique(t) ==
    \A i, j \in DOMAIN t.episodes :
        /\ t.episodes[i].podcast = t.episodes[j].podcast
        /\ t.episodes[i].url = t.episodes[j].url
        => i = j

\* No row refers to a row that does not exist.
RefsHold(t) ==
    /\ \A i \in DOMAIN t.episodes :
          /\ t.podcasts[t.episodes[i].podcast] # "absent"
          /\ t.episodes[i].device \in t.devices \cup {None}
    /\ \A h \in DOMAIN t.hist :
          /\ t.hist[h].episode \in DOMAIN t.episodes
          /\ t.hist[h].device \in t.devices \cup {None}
================================================================================
