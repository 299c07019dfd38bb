-------------------------------- MODULE EpisodePull --------------------------------
(***************************************************************************)
(* How the devices of one user learn of each other's episode actions.      *)
(*                                                                         *)
(* Every device asks in one of three ways and keeps the time of the last   *)
(* answer: GET /episodes of the history of the other devices, the same     *)
(* with aggregated=true (the last action of each episode), and             *)
(* GET /updates.  Actions are found by the time their client gave them, a  *)
(* page of /episodes has a limit, and its answer carries the second of its *)
(* last action, or the server's time when it is empty.                     *)
(*                                                                         *)
(* An upload is one step and has one action: EpisodeStore shows that       *)
(* uploads are serializable.  Times are counted in ticks.                  *)
(***************************************************************************)
EXTENDS EpisodeTables, FiniteSets

CONSTANTS
    Pollers,     \* the devices that ask
    Uploads,     \* the actions clients may send, each with its device
    PageLimit,   \* maxEpisodesInResult
    Second,      \* ticks in a second
    MaxClock     \* bound: the last second of the server's clock

ASSUME PullAssumption ==
    /\ Pollers \subseteq Devices
    /\ Uploads \subseteq {a \in Upload : a.device # None}
    /\ PageLimit \in Nat \ {0}
    /\ Second \in Nat \ {0}
    /\ MaxClock \in Nat /\ MaxClock >= Second
    /\ \A n \in Times : n >= Second

VARIABLES
    db,       \* the committed content of the tables
    clock,    \* the server's clock, in whole seconds: an answer carries no more
    mode,     \* how each device asks
    client,   \* what each device knows and asks
    late      \* history: pairs of a device and a history row, see Upload and Read

vars == <<db, clock, mode, client, late>>

-----------------------------------------------------------------------------

Modes == {"history", "aggregated", "updates"}

NoPoll == [phase |-> "idle"]

\* at is the time the answer will carry; 0 stands for the time it will be written at.
Poll ==
    {NoPoll}
    \cup [phase : {"asked"}, at : Nat]
    \cup [phase : {"read", "answered"}, at : Nat, rows : SUBSET HistIds]

\* An action a device knows is named by its history row; since 0 is no parameter.
Client == [known : SUBSET HistIds, since : Nat, poll : Poll]

\* One type invariant: every variable has its shape.
TypeOK ==
    /\ db \in Tables
    /\ clock \in Second .. MaxClock
    /\ mode \in [Pollers -> Modes]
    /\ client \in [Pollers -> Client]
    /\ late \subseteq Pollers \X HistIds

Init ==
    /\ db = EmptyTables
    /\ clock = Second
    /\ mode \in [Pollers -> Modes]
    /\ client = [d \in Pollers |-> [known |-> {}, since |-> 0, poll |-> NoPoll]]
    /\ late = {}

-----------------------------------------------------------------------------
\* The queries of ListEpisodeActions.  Each gives the history rows that carry the actions
\* it returns.

\* listEpisodeActions: the actions of other devices, or of none.
HistoryRows(t, d, since) ==
    {h \in DOMAIN t.hist : t.hist[h].ts > since /\ t.hist[h].device # d}

\* listEpisodeActionsAggregated: what the episode rows show.
ShownRows(t, since) ==
    {h \in DOMAIN t.hist :
        LET i == t.hist[h].episode IN t.episodes[i].ts > since /\ Shows(t, i, h)}

\* The last history rows of episode i; the subquery returns any of them.
LastRows(t, i) ==
    {h \in DOMAIN t.hist :
        /\ t.hist[h].episode = i
        /\ \A g \in DOMAIN t.hist :
              t.hist[g].episode = i => t.hist[g].ts <= t.hist[h].ts}

\* listEpisodeActionsAggregatedDev: the episodes whose last action is of another device.
LastOtherRows(t, d, since) ==
    {h \in DOMAIN t.hist :
        LET i == t.hist[h].episode
        IN  t.episodes[i].device # d /\ t.episodes[i].ts > since /\ h \in LastRows(t, i)}

\* One row per episode.
OneEach(t, rows) ==
    {S \in SUBSET rows :
        /\ \A g, h \in S : t.hist[g].episode = t.hist[h].episode => g = h
        /\ \A h \in rows : \E g \in S : t.hist[g].episode = t.hist[h].episode}

\* ORDER BY updated_at LIMIT: the oldest of the rows, in any order among equals.
Pages(t, rows) ==
    {S \in SUBSET rows :
        /\ S = rows \/ Cardinality(S) = PageLimit
        /\ Cardinality(S) <= PageLimit
        /\ \A h \in S, g \in rows \ S : t.hist[h].ts <= t.hist[g].ts}

\* Unix(): the whole second of a time.
WholeSecond(t) == t - (t % Second)

LastTs(t, S) == CHOOSE n \in {t.hist[h].ts : h \in S} : \A h \in S : t.hist[h].ts <= n

-----------------------------------------------------------------------------
\* A client and the API.

\* Mutant: a request without a since parameter is refused.
AskSince(d) ==
    /\ client[d].poll = NoPoll
    /\ client[d].since # 0
    /\ d \in db.devices
    /\ client' = [client EXCEPT ![d].poll =
          [phase |-> "asked", at |-> IF mode[d] = "updates" THEN clock ELSE 0]]
    /\ UNCHANGED <<db, clock, mode, late>>

\* The device must exist.  getUpdates takes its time before it looks at anything.
Ask(d) ==
    /\ client[d].poll = NoPoll
    /\ d \in db.devices
    /\ client' = [client EXCEPT ![d].poll =
          [phase |-> "asked", at |-> IF mode[d] = "updates" THEN clock ELSE 0]]
    /\ UNCHANGED <<db, clock, mode, late>>

\* The rows d asks for.
Found(d) ==
    IF mode[d] = "updates" THEN ShownRows(db, client[d].since)
    ELSE IF mode[d] = "history" THEN HistoryRows(db, d, client[d].since)
    ELSE LastOtherRows(db, d, client[d].since)

\* The rows that one answer may carry; only /episodes has pages.
Answers(d) ==
    IF mode[d] = "updates" THEN {Found(d)}
    ELSE IF mode[d] = "history" THEN Pages(db, Found(d))
    ELSE UNION {Pages(db, S) : S \in OneEach(db, Found(d))}

\* A row is read with the name of its device, and the NULL of a deleted one is an error.
Readable(S) == \A h \in S : db.hist[h].device # None

\* Late is history, no code: a row with the time of the last row of a page may not come
\* with the next page.
CutOff(d, S, at) == {h \in Found(d) \ S : db.hist[h].ts = at}

\* GetEpisodes, GetUpdates: one statement reads the rows.
Read(d) ==
    /\ client[d].poll.phase = "asked"
    /\ \E S \in Answers(d) :
          /\ Readable(S)
          /\ LET at == IF mode[d] # "updates" /\ S # {} THEN WholeSecond(LastTs(db, S))
                       ELSE client[d].poll.at
             IN  /\ client' = [client EXCEPT ![d].poll =
                       [phase |-> "read", at |-> at, rows |-> S]]
                 /\ late' = late \cup ({d} \X CutOff(d, S, at))
    /\ UNCHANGED <<db, clock, mode>>

\* ... or fails, with status 500: the device asks again with the old time.
ReadFails(d) ==
    /\ client[d].poll.phase = "asked"
    /\ \E S \in Answers(d) : ~Readable(S)
    /\ client' = [client EXCEPT ![d].poll = NoPoll]
    /\ UNCHANGED <<db, clock, mode, late>>

\* Mutant: the time of the answer is always the server's.
AnswerNow(d) ==
    LET poll == client[d].poll
    IN  /\ poll.phase = "read"
        /\ client' = [client EXCEPT ![d].poll =
              [phase |-> "answered", rows |-> poll.rows,
               at |-> clock]]
        /\ UNCHANGED <<db, clock, mode, late>>

\* Mutant: the time of an empty answer is the zero time.
AnswerZero(d) ==
    LET poll == client[d].poll
    IN  /\ poll.phase = "read"
        /\ client' = [client EXCEPT ![d].poll =
              [phase |-> "answered", rows |-> poll.rows, at |-> poll.at]]
        /\ UNCHANGED <<db, clock, mode, late>>

\* Mutant: an empty answer has no time.
AnswerNoTime(d) ==
    LET poll == client[d].poll
    IN  /\ poll.phase = "read"
        /\ client' = [client EXCEPT ![d].poll =
              [phase |-> "answered", rows |-> poll.rows,
               at |-> IF poll.at = 0 THEN None ELSE poll.at]]
        /\ UNCHANGED <<db, clock, mode, late>>

\* getEpisodeActions takes the time of an empty answer after the query.
Answer(d) ==
    LET poll == client[d].poll
    IN  /\ poll.phase = "read"
        /\ client' = [client EXCEPT ![d].poll =
              [phase |-> "answered", rows |-> poll.rows,
               at |-> IF poll.at = 0 THEN clock ELSE poll.at]]
        /\ UNCHANGED <<db, clock, mode, late>>

\* The device takes the answer over and remembers its time.
Take(d) ==
    LET poll == client[d].poll
    IN  /\ poll.phase = "answered"
        /\ client' = [client EXCEPT
              ![d] = [known |-> @.known \cup poll.rows, since |-> poll.at, poll |-> NoPoll]]
        /\ UNCHANGED <<db, clock, mode, late>>

\* The answer is an error, or gets lost: the device asks again with the old time.
Lose(d) ==
    /\ client[d].poll.phase = "answered"
    /\ client' = [client EXCEPT ![d].poll = NoPoll]
    /\ UNCHANGED <<db, clock, mode, late>>

-----------------------------------------------------------------------------
\* Changes of the tables.

\* Late is history, no code: device d has been told a time not before ts, or will be.
Told(d, ts) ==
    \/ client[d].since >= ts
    \/ /\ client[d].poll.phase \in {"read", "answered"}
       /\ client[d].poll.at = 0 \/ client[d].poll.at >= ts

\* AddAction.  A client that repeats an upload whose answer was lost does it again.
UploadAction(a) ==
    LET t == EnsureDevice(EnsurePodcast(db, a.podcast), a.device)
        h == CHOOSE h \in FreeHistIds(t) : TRUE
    IN  /\ FreeHistIds(t) # {}
        /\ \E i \in TargetIds(t, a) : db' = SaveAction(t, a, i, h)
        /\ client' = [d \in Pollers |->
              IF d = a.device THEN [client[d] EXCEPT !.known = @ \cup {h}] ELSE client[d]]
        /\ late' = late \cup ({d \in Pollers : Told(d, a.ts)} \X {h})
        /\ UNCHANGED <<clock, mode>>

\* DevicesSrv.
UpdateDevice(d) ==
    /\ db' = EnsureDevice(db, d)
    /\ UNCHANGED <<clock, mode, client, late>>

DeleteDevice(d) ==
    /\ d \in db.devices
    /\ db' = WithoutDevice(db, d)
    /\ UNCHANGED <<clock, mode, client, late>>

\* PodcastsSrv.DeletePodcast.  What is gone is no longer followed.
DeletePodcast(p) ==
    /\ db.podcasts[p] # "absent"
    /\ db' = WithoutPodcast(db, p)
    /\ LET left == DOMAIN db'.hist
       IN  /\ client' = [d \in Pollers |->
                  [known |-> client[d].known \cap left, since |-> client[d].since,
                   poll |-> IF client[d].poll.phase \in {"read", "answered"}
                            THEN [client[d].poll EXCEPT !.rows = @ \cap left]
                            ELSE client[d].poll]]
           /\ late' = late \cap (Pollers \X left)
    /\ UNCHANGED <<clock, mode>>

Tick ==
    /\ clock + Second <= MaxClock
    /\ clock' = clock + Second
    /\ UNCHANGED <<db, mode, client, late>>

-----------------------------------------------------------------------------

Sync(d) == Ask(d) \/ Read(d) \/ ReadFails(d) \/ Answer(d) \/ Take(d) \/ Lose(d)

Next ==
    \/ Tick
    \/ \E a \in Uploads : UploadAction(a)
    \/ \E d \in Pollers : Sync(d)
    \/ \E d \in Devices : UpdateDevice(d) \/ DeleteDevice(d)
    \/ \E p \in Podcasts : DeletePodcast(p)

\* Devices keep asking, and not every answer is lost.  Nothing else has to happen.
Fairness ==
    \A d \in Pollers : WF_vars(Ask(d) \/ Read(d) \/ ReadFails(d) \/ Answer(d)) /\ SF_vars(Take(d))

Spec == Init /\ [][Next]_vars
FairSpec == Spec /\ Fairness

-----------------------------------------------------------------------------

\* The rows that device d should know and does not: every action of the other devices, or
\* the action another device gave an episode last.
Owed(d) ==
    LET settled == client[d].known \cup {h \in HistIds : <<d, h>> \in late}
    IN  IF mode[d] = "history"
        THEN {h \in DOMAIN db.hist : db.hist[h].device # d} \ settled
        ELSE {h \in DOMAIN db.hist :
                LET i == db.hist[h].episode
                IN  /\ db.episodes[i].device # d
                    /\ Shows(db, i, h)
                    /\ \A g \in settled \cap DOMAIN db.hist :
                          db.hist[g].episode = i => db.hist[g].ts # db.hist[h].ts}

\* A device will still find what it does not know with its next requests, however pages
\* end, answers are lost and devices and podcasts come and go.  The exceptions are rows in
\* late: those uploaded after the device was told a later time, and those with the time of
\* the last row of a full page.
NothingElseUnseen ==
    \A d \in Pollers : \A h \in Owed(d) : db.hist[h].ts > client[d].since

\* More than a page of actions in the second the device asks from: its page and its time
\* stay the same.
Crowded(d) ==
    Cardinality({h \in Found(d) : WholeSecond(db.hist[h].ts) = client[d].since}) >= PageLimit

\* An action of a deleted device is in the way: no page that it is on can be read.
Blocked(d) == \E S \in Answers(d) : ~Readable(S)

\* A device that keeps asking learns of every action that is not late, unless a second is
\* crowded, an action of a deleted device is in the way, or the device itself is deleted.
ActionsArrive ==
    \A d \in Pollers, h \in HistIds :
        [](h \in Owed(d) =>
              <>(h \notin Owed(d) \/ Crowded(d) \/ Blocked(d) \/ d \notin db.devices))

\* No answer sends a device back in time, or it would be given the same actions again and
\* again: an answer carries no earlier time than its request, whatever the pages and the
\* rows are, unless a client's clock is ahead and has taken the device ahead of the server.
AnswersGoForward ==
    [][\A d \in Pollers :
          Answer(d) => client'[d].poll.at >= client[d].since \/ client[d].since > clock]_vars
================================================================================
