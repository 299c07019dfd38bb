----------------------------- MODULE DownloaderProofs -----------------------------
(***************************************************************************)
(* Theorems about Downloader for any number of users, addresses, commands, *)
(* workers and versions, with either setting of MissingOnly.               *)
(*                                                                         *)
(* Within a process a title does not go back because a worker that holds   *)
(* an address holds it alone, from the listing of the round to the store:  *)
(* the address is in no other task and with no other worker, so no row of  *)
(* it gets a newer title between the answer of the feed's server and the   *)
(* store, unless another process stores it; that worker is then overtaken. *)
(***************************************************************************)
EXTENDS Downloader, WellFoundedInduction, TLAPS

\* In a process, an address is in one place only.
Exclusive ==
    /\ \A p \in Processes :
          /\ \A t, u \in tasks[p] : t.url = u.url => t = u
          /\ \A b \in busy[p], t \in tasks[p] : b.task.url # t.url
          /\ \A b, c \in busy[p] : b.task.url = c.task.url => b = c
    /\ loop.phase = "waiting" => ~Running(Server)

\* No time is ahead of the clock, and no title ahead of its feed.
NothingAhead ==
    /\ \A p \in Urls : feed[p].modified <= clock
    /\ \A k \in Users \X Urls :
          rows[k] # None =>
              /\ rows[k].title <= feed[k[2]].version
              /\ rows[k].meta # None => rows[k].meta <= clock

\* What a worker is about to store is not older than what the rows have, unless another
\* process has been faster.
Ready(b) == b.phase = "store" /\ b.got # NotModified
StoresNewer ==
    \A p \in Processes : \A b \in busy[p] :
        Ready(b) =>
            /\ b.got <= feed[b.task.url].version
            /\ ~b.overtaken =>
                  \A k \in Users \X {b.task.url} : rows[k] # None => rows[k].title <= b.got

\* The inductive invariant.
IInv == TypeOK /\ Exclusive /\ NothingAhead /\ StoresNewer /\ NothingElseSkipped

-----------------------------------------------------------------------------
\* The listing.

LEMMA HasLeast ==
    ASSUME NEW S, S \subseteq Nat, S # {}
    PROVE  \E x \in S : \A y \in S : x <= y
  <1>1. PICK x \in S : \A y \in S : ~(<<y, x>> \in OpToRel(<, Nat))
    BY NatLessThanWellFounded, WFMin
  <1>2. \A y \in S : ~(y < x)
    BY <1>1 DEF OpToRel
  <1> QED BY <1>2

\* A row that is there has its fields.
LEMMA RowFacts ==
    ASSUME TypeOK, NEW k \in Users \X Urls, rows[k] # None
    PROVE  /\ rows[k] \in Filled
           /\ rows[k].meta \in Times \cup {None}
           /\ rows[k].title \in Nat
  BY DEF TypeOK, Row, Filled, Versions, NoTitle

\* The oldest stamp of some rows is one of them, or NULL.
LEMMA OldestMetaType ==
    ASSUME TypeOK, NEW S, S \subseteq Users \X Urls, \A k \in S : rows[k] # None
    PROVE  OldestMeta(S) \in Times \cup {None}
  <1> DEFINE known == {rows[k].meta : k \in S} \ {None}
  <1>1. known \subseteq Times /\ known \subseteq Nat
    BY RowFacts DEF Times
  <1>2. CASE known = {}
    BY <1>2 DEF OldestMeta
  <1>3. CASE known # {}
    <2>1. \E x \in known : \A y \in known : x <= y
      BY <1>1, <1>3, HasLeast
    <2> HIDE DEF known
    <2>2. Min(known) \in known
      BY <2>1 DEF Min
    <2>3. OldestMeta(S) = Min(known)
      BY <1>3 DEF OldestMeta, known
    <2> QED BY <1>1, <2>2, <2>3
  <1> QED BY <1>2, <1>3

\* ListPodcastsToUpdate returns an address once.
LEMMA ToUpdateFacts ==
    ASSUME TypeOK, NEW since, NEW missingonly
    PROVE  /\ ToUpdate(since, missingonly) \subseteq Task
           /\ \A t, u \in ToUpdate(since, missingonly) : t.url = u.url => t = u
  <1> DEFINE found == {[url |-> p, meta |-> OldestMeta(Due(p, since))] :
                       p \in {q \in Urls : Due(q, since) # {}}}
  <1>1. ASSUME NEW p \in Urls
        PROVE  [url |-> p, meta |-> OldestMeta(Due(p, since))] \in Task
    <2>1. Due(p, since) \subseteq Users \X Urls /\ \A k \in Due(p, since) : rows[k] # None
      BY DEF Due
    <2> QED BY <2>1, OldestMetaType DEF Task
  <1>2. found \subseteq Task
    BY <1>1
  <1>3. \A t, u \in found : t.url = u.url => t = u
    OBVIOUS
  <1>4. ToUpdate(since, missingonly) \subseteq found
    BY DEF ToUpdate
  <1> HIDE DEF found
  <1> QED BY <1>2, <1>3, <1>4

-----------------------------------------------------------------------------
\* A round.

\* A busy worker has a task.
LEMMA BusyFacts ==
    ASSUME TypeOK, NEW p \in Processes, NEW b \in busy[p]
    PROVE  /\ b \in Busy
           /\ b.task \in Task /\ b.task.url \in Urls /\ b.task.meta \in Times \cup {None}
           /\ b.phase = "store" => b.got \in Versions \cup {NotModified} /\ b.overtaken \in BOOLEAN
  <1>1. b \in Busy
    BY DEF TypeOK
  <1> QED BY <1>1 DEF Busy, Task

LEMMA ServerIsOne == Server \in Processes
  BY DEF Processes

\* A step that hands process p a listing.
LEMMA Listed ==
    ASSUME IInv, NEW p \in Processes, ~Running(p), NEW since, NEW missingonly,
           tasks' = [tasks EXCEPT ![p] = ToUpdate(since, missingonly)],
           UNCHANGED <<clock, feed, rows, busy, missed>>,
           loop' \in [phase : {"waiting"}, since : Times] \cup [phase : {"running"}, start : Times],
           loop'.phase = "waiting" =>
               IF p = Server THEN ToUpdate(since, missingonly) = {} ELSE loop.phase = "waiting"
    PROVE  IInv'
  <1> DEFINE found == ToUpdate(since, missingonly)
  <1>1. found \subseteq Task /\ \A t, u \in found : t.url = u.url => t = u
    BY ToUpdateFacts DEF IInv
  <1>2. \A q \in Processes : tasks'[q] = IF q = p THEN found ELSE tasks[q]
    BY DEF IInv, TypeOK
  <1>3. tasks' \in [Processes -> SUBSET Task]
    BY <1>1 DEF IInv, TypeOK
  <1>4. busy[p] = {}
    BY DEF Running
  <1>5. loop'.phase = "waiting" => tasks'[Server] = {} /\ busy[Server] = {}
    <2>1. CASE p = Server
      BY <1>2, <1>4, <2>1
    <2>2. CASE p # Server
      BY <1>2, <2>2, ServerIsOne DEF IInv, Exclusive, Running
    <2> QED BY <2>1, <2>2
  <1> HIDE DEF found
  <1>6. TypeOK'
    BY <1>3 DEF IInv, TypeOK
  <1>7. Exclusive'
    BY <1>1, <1>2, <1>4, <1>5 DEF IInv, Exclusive, Running
  <1>8. NothingAhead' /\ StoresNewer' /\ NothingElseSkipped'
    BY DEF IInv, NothingAhead, StoresNewer, NothingElseSkipped
  <1> QED BY <1>6, <1>7, <1>8 DEF IInv

LEMMA StartRoundStep ==
    ASSUME IInv, StartRound
    PROVE  IInv'
  <1>1. /\ loop.phase = "waiting" /\ ~Running(Server)
        /\ tasks' = [tasks EXCEPT ![Server] = ToUpdate(loop.since, MissingOnly)]
        /\ UNCHANGED <<clock, feed, rows, busy, missed>>
    BY DEF StartRound, IInv, Exclusive
  <1>2. CASE ToUpdate(loop.since, MissingOnly) = {}
    <2>1. loop' = Waiting(clock)
      BY <1>2 DEF StartRound
    <2>2. loop' \in [phase : {"waiting"}, since : Times]
      BY <2>1 DEF Waiting, IInv, TypeOK
    <2> QED BY <1>1, <1>2, <2>2, Listed, ServerIsOne
  <1>3. CASE ToUpdate(loop.since, MissingOnly) # {}
    <2>1. loop' = [phase |-> "running", start |-> clock]
      BY <1>3 DEF StartRound
    <2>2. loop' \in [phase : {"running"}, start : Times] /\ loop'.phase # "waiting"
      BY <2>1 DEF IInv, TypeOK
    <2> QED BY <1>1, <2>2, Listed, ServerIsOne
  <1> QED BY <1>2, <1>3

LEMMA StartCommandStep ==
    ASSUME IInv, NEW c \in Commands, StartCommand(c)
    PROVE  IInv'
  <1>1. PICK since \in 0 .. clock, missingonly \in BOOLEAN :
           tasks' = [tasks EXCEPT ![c] = ToUpdate(since, missingonly)]
    BY DEF StartCommand
  <1>2. ~Running(c) /\ UNCHANGED <<clock, feed, rows, busy, missed>> /\ loop' = loop
    BY DEF StartCommand
  <1>3. c \in Processes /\ c # Server
    BY DownloaderAssumption DEF Processes
  <1>4. loop' \in [phase : {"waiting"}, since : Times] \cup [phase : {"running"}, start : Times]
    BY <1>2 DEF IInv, TypeOK
  <1> QED BY <1>1, <1>2, <1>3, <1>4, Listed

\* The task waits while nothing of the server's round is left.
LEMMA LoopOnly ==
    ASSUME IInv, NEW since \in Times, loop' = Waiting(since), ~Running(Server),
           UNCHANGED <<clock, feed, rows, tasks, busy, missed>>
    PROVE  IInv'
  <1>1. loop' \in [phase : {"waiting"}, since : Times]
    BY DEF Waiting
  <1>2. TypeOK'
    BY <1>1 DEF IInv, TypeOK
  <1>3. Exclusive'
    BY DEF IInv, Exclusive, Running
  <1>4. NothingAhead' /\ StoresNewer' /\ NothingElseSkipped'
    BY DEF IInv, NothingAhead, StoresNewer, NothingElseSkipped
  <1> QED BY <1>2, <1>3, <1>4 DEF IInv

LEMMA EndRoundStep ==
    ASSUME IInv, EndRound
    PROVE  IInv'
  <1>1. loop.start \in Times
    BY DEF EndRound, IInv, TypeOK
  <1> QED BY <1>1, LoopOnly DEF EndRound

LEMMA ListFailsStep ==
    ASSUME IInv, ListFails
    PROVE  IInv'
  <1>1. clock \in Times /\ ~Running(Server)
    BY DEF ListFails, IInv, TypeOK, Exclusive
  <1> QED BY <1>1, LoopOnly DEF ListFails

LEMMA KillStep ==
    ASSUME IInv, NEW p \in Processes, Kill(p)
    PROVE  IInv'
  <1>1. UNCHANGED <<clock, feed, rows, missed>>
    BY DEF Kill
  <1>2. /\ tasks' \in [Processes -> SUBSET Task] /\ busy' \in [Processes -> SUBSET Busy]
        /\ \A q \in Processes : /\ tasks'[q] = IF q = p THEN {} ELSE tasks[q]
                                /\ busy'[q] = IF q = p THEN {} ELSE busy[q]
    BY DEF Kill, IInv, TypeOK
  <1>3. loop' \in [phase : {"waiting"}, since : Times] \cup [phase : {"running"}, start : Times]
    <2>1. 0 \in Times
      BY DownloaderAssumption DEF Times
    <2> QED BY <2>1 DEF Kill, IInv, TypeOK, Waiting
  <1>4. TypeOK'
    BY <1>1, <1>2, <1>3 DEF IInv, TypeOK
  <1>5. Exclusive'
    <2>1. loop'.phase = "waiting" => tasks'[Server] = {} /\ busy'[Server] = {}
      BY <1>2, ServerIsOne DEF Kill, IInv, Exclusive, Running
    <2> QED BY <1>2, <2>1 DEF IInv, Exclusive, Running
  <1>6. StoresNewer'
    BY <1>1, <1>2 DEF IInv, StoresNewer
  <1>7. NothingAhead' /\ NothingElseSkipped'
    BY <1>1 DEF IInv, NothingAhead, NothingElseSkipped
  <1> QED BY <1>4, <1>5, <1>6, <1>7 DEF IInv

-----------------------------------------------------------------------------
\* A worker.

\* A step of a worker that changes no row: it puts what it holds back as n, or drops it.
LEMMA WorkerAlone ==
    ASSUME IInv, NEW p \in Processes, NEW b \in busy[p], NEW after, after \subseteq Busy,
           busy' = [busy EXCEPT ![p] = (@ \ {b}) \cup after],
           UNCHANGED <<clock, feed, rows, loop, tasks, missed>>,
           \A n \in after : /\ n.task = b.task
                            /\ Ready(n) => n.got = feed[n.task.url].version,
           \A n, m \in after : n = m
    PROVE  IInv'
  <1>1. \A q \in Processes : busy'[q] = IF q = p THEN (busy[p] \ {b}) \cup after ELSE busy[q]
    BY DEF IInv, TypeOK
  <1>2. busy' \in [Processes -> SUBSET Busy]
    BY DEF IInv, TypeOK
  <1>3. TypeOK'
    BY <1>2 DEF IInv, TypeOK
  <1>4. Exclusive'
    <2>1. \A c \in busy'[p], t \in tasks[p] : c.task.url # t.url
      BY <1>1 DEF IInv, Exclusive
    <2>2. \A c, d \in busy'[p] : c.task.url = d.task.url => c = d
      BY <1>1 DEF IInv, Exclusive
    <2>3. loop.phase = "waiting" => busy'[Server] = {} /\ tasks[Server] = {}
      BY <1>1, ServerIsOne DEF IInv, Exclusive, Running
    <2> QED BY <1>1, <2>1, <2>2, <2>3 DEF IInv, Exclusive, Running
  <1>5. StoresNewer'
    <2>1. SUFFICES ASSUME NEW q \in Processes, NEW c \in busy'[q], Ready(c)
                   PROVE  /\ c.got <= feed[c.task.url].version
                          /\ ~c.overtaken =>
                                \A k \in Users \X {c.task.url} :
                                    rows[k] # None => rows[k].title <= c.got
      BY DEF StoresNewer, Ready
    <2>2. CASE c \in busy[q]
      BY <2>1, <2>2 DEF IInv, StoresNewer
    <2>3. CASE c \notin busy[q]
      <3>1. c \in after /\ b.task.url \in Urls /\ c.task = b.task
        BY <1>1, <2>1, <2>3, BusyFacts DEF IInv
      <3>2. c.got = feed[c.task.url].version /\ c.task.url \in Urls
        BY <2>1, <3>1
      <3>3. c.got \in Nat
        BY <3>2 DEF IInv, TypeOK, Versions
      <3>4. \A k \in Users \X {c.task.url} : rows[k] # None => rows[k].title <= c.got
        BY <3>2 DEF IInv, NothingAhead
      <3> QED BY <3>2, <3>3, <3>4
    <2> QED BY <2>2, <2>3
  <1>6. NothingAhead' /\ NothingElseSkipped'
    BY DEF IInv, NothingAhead, NothingElseSkipped
  <1> QED BY <1>3, <1>4, <1>5, <1>6 DEF IInv

LEMMA ReceiveStep ==
    ASSUME IInv, NEW p \in Processes, Receive(p)
    PROVE  IInv'
  <1>1. PICK t \in tasks[p] :
           /\ tasks' = [tasks EXCEPT ![p] = @ \ {t}]
           /\ busy' = [busy EXCEPT ![p] = @ \cup {[phase |-> "fetch", task |-> t]}]
    BY DEF Receive
  <1> DEFINE n == [phase |-> "fetch", task |-> t]
  <1>2. UNCHANGED <<clock, feed, rows, loop, missed>>
    BY DEF Receive
  <1>3. t \in Task /\ n \in Busy /\ n.task = t /\ n.phase = "fetch"
    BY DEF IInv, TypeOK, Busy
  <1> HIDE DEF n
  <1>4. \A q \in Processes : /\ tasks'[q] = IF q = p THEN tasks[p] \ {t} ELSE tasks[q]
                             /\ busy'[q] = IF q = p THEN busy[p] \cup {n} ELSE busy[q]
    BY <1>1 DEF IInv, TypeOK, n
  <1>5. tasks' \in [Processes -> SUBSET Task] /\ busy' \in [Processes -> SUBSET Busy]
    BY <1>1, <1>3 DEF IInv, TypeOK, n
  <1>6. TypeOK'
    BY <1>2, <1>5 DEF IInv, TypeOK
  <1>7. Exclusive'
    <2>1. \A u, x \in tasks'[p] : u.url = x.url => u = x
      BY <1>4 DEF IInv, Exclusive
    <2>2. \A b \in busy'[p], u \in tasks'[p] : b.task.url # u.url
      BY <1>3, <1>4 DEF IInv, Exclusive
    <2>3. \A b, c \in busy'[p] : b.task.url = c.task.url => b = c
      BY <1>1, <1>3, <1>4 DEF IInv, Exclusive
    <2>4. loop'.phase = "waiting" => tasks'[Server] = {} /\ busy'[Server] = {}
      BY <1>1, <1>2, <1>4, ServerIsOne DEF IInv, Exclusive, Running
    <2> QED BY <1>4, <2>1, <2>2, <2>3, <2>4 DEF IInv, Exclusive, Running
  <1>8. StoresNewer'
    BY <1>2, <1>3, <1>4 DEF IInv, StoresNewer, Ready
  <1>9. NothingAhead' /\ NothingElseSkipped'
    BY <1>2 DEF IInv, NothingAhead, NothingElseSkipped
  <1> QED BY <1>6, <1>7, <1>8, <1>9 DEF IInv

LEMMA FetchStep ==
    ASSUME IInv, NEW p \in Processes, NEW b \in busy[p], Fetch(p, b)
    PROVE  IInv'
  <1> DEFINE held(v) == [phase |-> "store", task |-> b.task, got |-> v, overtaken |-> FALSE]
  <1>1. UNCHANGED <<clock, feed, rows, loop, tasks, missed>>
    BY DEF Fetch
  <1>2. PICK after : /\ after \in {{held(feed[b.task.url].version)}, {held(NotModified)}, {}}
                     /\ busy' = [busy EXCEPT ![p] = (@ \ {b}) \cup after]
    BY DEF Fetch
  <1>3. b.task \in Task /\ feed[b.task.url].version \in Versions
    BY BusyFacts DEF IInv, TypeOK
  <1>4. ASSUME NEW v \in Versions \cup {NotModified}
        PROVE  /\ held(v) \in Busy /\ held(v).task = b.task /\ held(v).got = v
               /\ v = NotModified => ~Ready(held(v))
    BY <1>3 DEF Busy, Ready
  <1> HIDE DEF held
  <1>5. after \subseteq Busy /\ \A n, m \in after : n = m
    BY <1>2, <1>3, <1>4
  <1>6. \A n \in after : /\ n.task = b.task
                         /\ Ready(n) => n.got = feed[n.task.url].version
    BY <1>2, <1>3, <1>4
  <1>7. busy' = [busy EXCEPT ![p] = (@ \ {b}) \cup after]
    BY <1>2
  <1> QED BY <1>1, <1>5, <1>6, <1>7, WorkerAlone

LEMMA FailStep ==
    ASSUME IInv, NEW p \in Processes, NEW b \in busy[p], Fail(p, b)
    PROVE  IInv'
  <1> DEFINE after == {}
  <1>1. /\ after \subseteq Busy /\ \A n, m \in after : n = m
        /\ \A n \in after : /\ n.task = b.task
                            /\ Ready(n) => n.got = feed[n.task.url].version
    OBVIOUS
  <1>2. busy' = [busy EXCEPT ![p] = (@ \ {b}) \cup after]
    BY DEF Fail
  <1>3. UNCHANGED <<clock, feed, rows, loop, tasks, missed>>
    BY DEF Fail
  <1> HIDE DEF after
  <1> QED BY <1>1, <1>2, <1>3, WorkerAlone

\* What Store does to the rows.
LEMMA StoreFacts ==
    ASSUME IInv, NEW p \in Processes, NEW b \in busy[p], Store(p, b)
    PROVE  /\ b.task.url \in Urls
           /\ b.got \in Versions \cup {NotModified}
           /\ rows' = [k \in Users \X Urls |-> rows'[k]]
           /\ \A k \in Users \X Urls :
                 IF k[2] = b.task.url /\ rows[k] # None
                 THEN /\ rows'[k] \in Row /\ rows'[k] # None
                      /\ rows'[k].meta = clock
                      /\ rows'[k].title = IF b.got = NotModified THEN rows[k].title
                                          ELSE b.got
                 ELSE rows'[k] = rows[k]
  <1> DEFINE u == b.task.url
             got == b.got
  <1>1. b.phase = "store" /\ TypeOK
    BY DEF Store, IInv
  <1>2. u \in Urls /\ got \in Versions \cup {NotModified}
    BY <1>1, BusyFacts
  <1>3. rows' = [k \in Users \X Urls |->
                   IF k[2] = u /\ rows[k] # None THEN Stamped(rows[k], got) ELSE rows[k]]
    BY DEF Store
  <1> HIDE DEF u, got
  <1>4. ASSUME NEW k \in Users \X Urls, k[2] = u, rows[k] # None
        PROVE  /\ rows'[k] \in Row /\ rows'[k] # None /\ rows'[k].meta = clock
               /\ rows'[k].title = IF got = NotModified THEN rows[k].title ELSE got
    <2>1. rows'[k] = Stamped(rows[k], got)
      BY <1>3, <1>4
    <2>2. rows[k] \in Filled
      BY <1>1, <1>4, RowFacts
    <2>3. clock \in Times
      BY <1>1 DEF TypeOK
    <2>4. /\ rows'[k] \in Filled
          /\ rows'[k].meta = clock
          /\ rows'[k].title = IF got = NotModified THEN rows[k].title ELSE got
      BY <1>2, <2>1, <2>2, <2>3 DEF Stamped, Filled
    <2> QED BY <2>4, NoneIsNoRow DEF Row
  <1> QED BY <1>2, <1>3, <1>4 DEF u, got

\* Being overtaken changes nothing else of a worker.
LEMMA OvertakenFacts ==
    ASSUME NEW b \in Busy, NEW url
    PROVE  /\ Overtaken(b, url) \in Busy
           /\ Overtaken(b, url).task = b.task /\ Overtaken(b, url).phase = b.phase
           /\ Ready(Overtaken(b, url)) => Ready(b) /\ Overtaken(b, url).got = b.got
           /\ Ready(Overtaken(b, url)) /\ ~Overtaken(b, url).overtaken =>
                 b.task.url # url /\ ~b.overtaken
  BY DEF Overtaken, Busy, Ready

LEMMA StoreStep ==
    ASSUME IInv, NEW p \in Processes, NEW b \in busy[p], Store(p, b)
    PROVE  IInv'
  <1> DEFINE u == b.task.url
             t == b.task
             got == b.got
  <1>1. /\ b.phase = "store"
        /\ UNCHANGED <<clock, feed, loop, tasks>>
        /\ missed' = {k \in missed : rows'[k] # None /\ rows'[k].title < feed[k[2]].version}
                      \cup Misses(t, got)
    BY DEF Store
  <1>2. /\ u \in Urls /\ got \in Versions \cup {NotModified}
        /\ rows' = [k \in Users \X Urls |-> rows'[k]]
        /\ \A k \in Users \X Urls :
              IF k[2] = u /\ rows[k] # None
              THEN /\ rows'[k] \in Row /\ rows'[k] # None
                   /\ rows'[k].meta = clock
                   /\ rows'[k].title = IF got = NotModified THEN rows[k].title ELSE got
              ELSE rows'[k] = rows[k]
    BY StoreFacts
  <1>3. t \in Task /\ t.meta \in Times \cup {None}
    BY <1>1, BusyFacts DEF IInv
  <1>4. /\ busy' \in [Processes -> SUBSET Busy]
        /\ busy'[p] = busy[p] \ {b}
        /\ \A q \in Processes : q # p => busy'[q] = {Overtaken(c, u) : c \in busy[q]}
    <2>1. busy' = [q \in Processes |-> IF q = p THEN busy[p] \ {b}
                                      ELSE {Overtaken(c, u) : c \in busy[q]}]
      BY DEF Store
    <2>2. ASSUME NEW q \in Processes, NEW c \in busy[q]
          PROVE  Overtaken(c, u) \in Busy
      BY <2>2, OvertakenFacts, BusyFacts DEF IInv
    <2>3. \A q \in Processes : busy[q] \subseteq Busy
      BY DEF IInv, TypeOK
    <2> HIDE DEF u
    <2> QED BY <2>1, <2>2, <2>3
  <1>41. ASSUME NEW q \in Processes, NEW c \in busy'[q]
         PROVE  \E d \in busy[q] : /\ c.task = d.task /\ c.phase = d.phase
                                   /\ Ready(c) => Ready(d) /\ c.got = d.got
                                   /\ Ready(c) /\ ~c.overtaken =>
                                         d.task.url # u /\ ~d.overtaken
    <2>1. CASE q = p
      <3>1. c \in busy[q] /\ c # b
        BY <1>4, <1>41, <2>1
      <3>2. c.task.url # u
        BY <2>1, <3>1 DEF IInv, Exclusive
      <3> QED BY <3>1, <3>2
    <2>2. CASE q # p
      <3>1. PICK d \in busy[q] : c = Overtaken(d, u)
        BY <1>4, <1>41, <2>2
      <3> QED BY <3>1, OvertakenFacts, BusyFacts DEF IInv
    <2> QED BY <2>1, <2>2
  <1> HIDE DEF u, t, got
  <1>5. TypeOK'
    <2>1. rows' \in [Users \X Urls -> Row]
      BY <1>2 DEF IInv, TypeOK
    <2>2. missed' \subseteq Users \X Urls
      <3>1. Misses(t, got) \subseteq Users \X Urls
        BY <1>2 DEF Misses, u, t
      <3> QED BY <1>1, <3>1 DEF IInv, TypeOK
    <2> QED BY <1>1, <1>4, <2>1, <2>2 DEF IInv, TypeOK
  <1>6. Exclusive'
    <2>1. ASSUME NEW q \in Processes
          PROVE  /\ \A c \in busy'[q], x \in tasks[q] : c.task.url # x.url
                 /\ \A c, d \in busy'[q] : c.task.url = d.task.url => c = d
      <3>1. CASE q = p
        BY <1>4, <3>1 DEF IInv, Exclusive
      <3>2. CASE q # p
        <4>1. \A c \in busy'[q] : \E d \in busy[q] : c = Overtaken(d, u) /\ c.task = d.task
          BY <1>4, <3>2, OvertakenFacts, BusyFacts DEF IInv
        <4> QED BY <4>1 DEF IInv, Exclusive
      <3> QED BY <3>1, <3>2
    <2>2. loop.phase = "waiting" => tasks[Server] = {} /\ busy'[Server] = {}
      <3>1. busy[Server] = {} => busy'[Server] = {}
        BY <1>41, ServerIsOne
      <3> QED BY <3>1 DEF IInv, Exclusive, Running
    <2> QED BY <1>1, <2>1, <2>2 DEF IInv, Exclusive, Running
  <1>7. got # NotModified => got <= feed[u].version
    BY <1>1 DEF IInv, StoresNewer, Ready, u, t, got
  <1>8. NothingAhead'
    <2>1. ASSUME NEW k \in Users \X Urls, rows'[k] # None
          PROVE  /\ rows'[k].title <= feed[k[2]].version
                 /\ rows'[k].meta # None => rows'[k].meta <= clock
      <3>1. CASE k[2] = u /\ rows[k] # None
        <4>1. clock <= clock
          BY DEF IInv, TypeOK, Times
        <4> QED BY <1>2, <1>7, <3>1, <4>1 DEF IInv, NothingAhead
      <3>2. CASE ~(k[2] = u /\ rows[k] # None)
        BY <1>2, <2>1, <3>2 DEF IInv, NothingAhead
      <3> QED BY <3>1, <3>2
    <2> QED BY <1>1, <2>1 DEF IInv, NothingAhead
  <1>9. StoresNewer'
    <2>1. SUFFICES ASSUME NEW q \in Processes, NEW c \in busy'[q], Ready(c)
                   PROVE  /\ c.got <= feed[c.task.url].version
                          /\ ~c.overtaken =>
                                \A k \in Users \X {c.task.url} :
                                    rows'[k] # None => rows'[k].title <= c.got
      BY <1>1 DEF StoresNewer, Ready
    <2>2. PICK d \in busy[q] : /\ c.task = d.task /\ Ready(d) /\ c.got = d.got
                               /\ ~c.overtaken => d.task.url # u /\ ~d.overtaken
      BY <1>41, <2>1
    <2>3. d.task.url \in Urls
      BY BusyFacts DEF IInv
    <2>4. ~c.overtaken => \A k \in Users \X {c.task.url} : rows'[k] = rows[k]
      BY <1>2, <2>2, <2>3
    <2> QED BY <2>2, <2>4 DEF IInv, StoresNewer
  <1>10. NothingElseSkipped'
    <2>1. SUFFICES ASSUME NEW k \in Users \X Urls, rows'[k] # None,
                          rows'[k].title # feed[k[2]].version,
                          ~Newer(feed[k[2]], rows'[k].meta)
                   PROVE  k \in missed'
      BY <1>1 DEF NothingElseSkipped
    <2>2. /\ rows[k] # None => rows[k].title \in Nat
          /\ feed[k[2]].version \in Nat /\ feed[k[2]].modified \in Nat
      BY RowFacts DEF IInv, TypeOK, Versions, Times
    <2>3. rows'[k].title < feed[k[2]].version
      <3>1. TypeOK' /\ rows'[k].title \in Nat
        BY <1>5, <2>1, NoneIsNoRow DEF TypeOK, Row, Filled, Versions, NoTitle
      <3>2. rows'[k].title <= feed[k[2]].version
        BY <1>1, <1>8, <2>1 DEF NothingAhead
      <3> QED BY <2>1, <2>2, <3>1, <3>2
    <2>4. CASE k[2] = u /\ rows[k] # None
      <3>1. k \in Users \X {t.url} /\ t.url = u /\ k[2] = t.url
        BY <2>4 DEF t, u
      <3>2. CASE got # NotModified
        <4>1. got < feed[t.url].version
          BY <1>2, <2>3, <2>4, <3>1, <3>2
        <4> QED BY <1>1, <2>4, <3>1, <3>2, <4>1 DEF Misses
      <3>3. CASE got = NotModified
        <4>1. rows[k].title < feed[t.url].version
          BY <1>2, <2>3, <2>4, <3>1, <3>3
        <4>2. rows[k].title # feed[k[2]].version
          BY <2>2, <2>4, <3>1, <4>1
        <4>3. CASE k \in missed
          BY <1>1, <2>1, <2>3, <4>3
        <4>4. CASE Newer(feed[k[2]], rows[k].meta)
          <5>1. Newer(feed[t.url], t.meta) \/ Older(rows[k].meta, t.meta)
            <6>1. rows[k].meta \in Times \cup {None}
              BY <2>4, RowFacts DEF IInv
            <6> QED BY <1>3, <2>2, <3>1, <4>4, <6>1 DEF Newer, Older, Times
          <5> QED BY <1>1, <2>4, <3>1, <3>3, <4>1, <5>1 DEF Misses
        <4> QED BY <2>4, <4>2, <4>3, <4>4 DEF IInv, NothingElseSkipped
      <3> QED BY <3>2, <3>3
    <2>5. CASE ~(k[2] = u /\ rows[k] # None)
      <3>1. rows'[k] = rows[k]
        BY <1>2, <2>5
      <3>2. k \in missed
        BY <2>1, <3>1 DEF IInv, NothingElseSkipped
      <3> QED BY <1>1, <2>1, <2>3, <3>2
    <2> QED BY <2>4, <2>5
  <1> QED BY <1>5, <1>6, <1>8, <1>9, <1>10 DEF IInv

-----------------------------------------------------------------------------
\* The rest of the world.

\* A step that leaves the workers alone and gives no row a title.
LEMMA NoTitleGiven ==
    ASSUME IInv, UNCHANGED <<feed, busy>>,
           \A j \in Users \X Urls :
               rows'[j] # None => \/ rows[j] # None /\ rows'[j].title = rows[j].title
                                 \/ rows'[j].title = 0
    PROVE  StoresNewer'
  <1>1. SUFFICES ASSUME NEW q \in Processes, NEW c \in busy[q], Ready(c)
                 PROVE  /\ c.got <= feed[c.task.url].version
                        /\ ~c.overtaken =>
                              \A k \in Users \X {c.task.url} :
                                  rows'[k] # None => rows'[k].title <= c.got
    BY DEF StoresNewer, Ready
  <1>2. c.got \in Nat /\ c.task.url \in Urls
    BY <1>1, BusyFacts DEF IInv, Ready, Versions, NotModified
  <1> QED BY <1>1, <1>2 DEF IInv, StoresNewer

\* A step that only changes who is subscribed to what.
LEMMA SubscribedOnly ==
    ASSUME IInv, NEW k \in Users \X Urls, NEW b \in BOOLEAN, rows[k] # None,
           rows' = [rows EXCEPT ![k] = [@ EXCEPT !.subscribed = b]],
           UNCHANGED <<clock, feed, loop, tasks, busy, missed>>
    PROVE  IInv'
  <1> DEFINE r == [rows[k] EXCEPT !.subscribed = b]
  <1>1. /\ r \in Filled /\ r # None /\ r.meta = rows[k].meta /\ r.title = rows[k].title
    BY RowFacts, NoneIsNoRow DEF IInv, Filled
  <1>2. rows' = [rows EXCEPT ![k] = r]
    OBVIOUS
  <1> HIDE DEF r
  <1>3. \A j \in Users \X Urls : rows'[j] = IF j = k THEN r ELSE rows[j]
    BY <1>2 DEF IInv, TypeOK
  <1>4. \A j \in Users \X Urls : /\ rows'[j] = None <=> rows[j] = None
                                 /\ rows[j] # None => /\ rows'[j].meta = rows[j].meta
                                                      /\ rows'[j].title = rows[j].title
    BY <1>1, <1>3
  <1>5. TypeOK'
    <2>1. rows' \in [Users \X Urls -> Row]
      BY <1>1, <1>2 DEF IInv, TypeOK, Row
    <2> QED BY <2>1 DEF IInv, TypeOK
  <1>6. Exclusive'
    BY DEF IInv, Exclusive, Running
  <1>7. NothingAhead' /\ NothingElseSkipped'
    BY <1>4 DEF IInv, NothingAhead, NothingElseSkipped
  <1>8. StoresNewer'
    BY <1>4, NoTitleGiven
  <1> QED BY <1>5, <1>6, <1>7, <1>8 DEF IInv

LEMMA SubscribeStep ==
    ASSUME IInv, NEW k \in Users \X Urls, Subscribe(k)
    PROVE  IInv'
  <1>1. UNCHANGED <<clock, feed, loop, tasks, busy, missed>>
    BY DEF Subscribe
  <1>2. CASE rows[k] = None
    <2> DEFINE r == [subscribed |-> TRUE, meta |-> None, title |-> NoTitle]
    <2>1. r \in Filled /\ r # None /\ r.meta = None /\ r.title = 0
      <3>1. r \in Filled
        BY DEF Filled
      <3> QED BY <3>1, NoneIsNoRow DEF NoTitle
    <2>2. rows' = [rows EXCEPT ![k] = r]
      BY <1>2 DEF Subscribe
    <2> HIDE DEF r
    <2>3. \A j \in Users \X Urls : rows'[j] = IF j = k THEN r ELSE rows[j]
      BY <2>2 DEF IInv, TypeOK
    <2>4. TypeOK'
      BY <1>1, <2>1, <2>2 DEF IInv, TypeOK, Row
    <2>5. Exclusive'
      BY <1>1 DEF IInv, Exclusive, Running
    <2>6. NothingAhead'
      BY <1>1, <2>1, <2>3 DEF IInv, NothingAhead, TypeOK, Versions
    <2>7. StoresNewer'
      BY <1>1, <2>1, <2>3, NoTitleGiven
    <2>8. NothingElseSkipped'
      BY <1>1, <2>1, <2>3 DEF IInv, NothingElseSkipped, Newer
    <2> QED BY <2>4, <2>5, <2>6, <2>7, <2>8 DEF IInv
  <1>3. CASE rows[k] # None
    <2>1. rows' = [rows EXCEPT ![k] = [@ EXCEPT !.subscribed = TRUE]]
      BY <1>3 DEF Subscribe
    <2> QED BY <1>1, <1>3, <2>1, SubscribedOnly
  <1> QED BY <1>2, <1>3

LEMMA UnsubscribeStep ==
    ASSUME IInv, NEW k \in Users \X Urls, Unsubscribe(k)
    PROVE  IInv'
  <1>1. /\ UNCHANGED <<clock, feed, loop, tasks, busy, missed>> /\ rows[k] # None
        /\ rows' = [rows EXCEPT ![k] = [@ EXCEPT !.subscribed = FALSE]]
    BY DEF Unsubscribe
  <1> QED BY <1>1, SubscribedOnly

LEMMA DeletePodcastStep ==
    ASSUME IInv, NEW k \in Users \X Urls, DeletePodcast(k)
    PROVE  IInv'
  <1>1. /\ UNCHANGED <<clock, feed, loop, tasks, busy>> /\ missed' = missed \ {k}
        /\ \A j \in Users \X Urls : rows'[j] = IF j = k THEN None ELSE rows[j]
        /\ rows' = [rows EXCEPT ![k] = None]
    BY DEF DeletePodcast, IInv, TypeOK
  <1>2. TypeOK'
    BY <1>1 DEF IInv, TypeOK, Row
  <1>3. Exclusive'
    BY <1>1 DEF IInv, Exclusive, Running
  <1>4. NothingAhead'
    BY <1>1 DEF IInv, NothingAhead
  <1>5. StoresNewer'
    BY <1>1, NoTitleGiven
  <1>6. NothingElseSkipped'
    BY <1>1 DEF IInv, NothingElseSkipped
  <1> QED BY <1>2, <1>3, <1>4, <1>5, <1>6 DEF IInv

\* A row stamped before this second will be asked for: the feed is newer than it.
LEMMA PublishStep ==
    ASSUME IInv, NEW p \in Urls, Publish(p)
    PROVE  IInv'
  <1> DEFINE new == [version |-> feed[p].version + 1, modified |-> clock]
  <1>1. /\ UNCHANGED <<clock, rows, loop, tasks, busy>> /\ feed[p].version < MaxVersion
        /\ missed' = missed \cup {k \in Users \X {p} : rows[k] # None /\ rows[k].meta = clock}
        /\ feed' = [feed EXCEPT ![p] = new]
    BY DEF Publish
  <1>2. /\ new \in [version : Versions, modified : Times]
        /\ new.version = feed[p].version + 1 /\ new.modified = clock
    BY <1>1, DownloaderAssumption DEF IInv, TypeOK, Versions, Times
  <1> HIDE DEF new
  <1>3. \A q \in Urls : feed'[q] = IF q = p THEN new ELSE feed[q]
    BY <1>1 DEF IInv, TypeOK
  <1>4. TypeOK'
    BY <1>1, <1>2 DEF IInv, TypeOK
  <1>5. Exclusive'
    BY <1>1 DEF IInv, Exclusive, Running
  <1>6. \A q \in Urls : /\ feed[q].version \in Nat /\ feed'[q].version \in Nat
                        /\ feed[q].version <= feed'[q].version
    BY <1>2, <1>3 DEF IInv, TypeOK, Versions
  <1>7. NothingAhead'
    <2>1. \A q \in Urls : feed'[q].modified <= clock
      BY <1>2, <1>3 DEF IInv, NothingAhead, TypeOK, Times
    <2>2. ASSUME NEW k \in Users \X Urls, rows[k] # None
          PROVE  rows[k].title <= feed'[k[2]].version
      <3>1. rows[k].title \in Nat /\ rows[k].title <= feed[k[2]].version /\ k[2] \in Urls
        BY <2>2, RowFacts DEF IInv, NothingAhead
      <3> QED BY <1>6, <3>1
    <2> QED BY <1>1, <2>1, <2>2 DEF IInv, NothingAhead
  <1>8. StoresNewer'
    <2>1. ASSUME NEW q \in Processes, NEW c \in busy[q], Ready(c)
          PROVE  c.got <= feed'[c.task.url].version
      <3>1. c.got \in Nat /\ c.task.url \in Urls
        BY <2>1, BusyFacts DEF IInv, Ready, Versions, NotModified
      <3>2. c.got <= feed[c.task.url].version
        BY <2>1 DEF IInv, StoresNewer
      <3> QED BY <1>6, <3>1, <3>2
    <2> QED BY <1>1, <2>1 DEF IInv, StoresNewer, Ready
  <1>9. NothingElseSkipped'
    <2>1. ASSUME NEW k \in Users \X Urls, rows[k] # None, ~Newer(feed'[k[2]], rows[k].meta),
                 rows[k].title # feed'[k[2]].version
          PROVE  k \in missed'
      <3>1. CASE k[2] = p
        <4>1. rows[k].meta # None /\ ~(clock > rows[k].meta)
          BY <1>2, <1>3, <2>1, <3>1 DEF Newer
        <4>2. rows[k].meta = clock
          <5>1. rows[k].meta \in Nat /\ clock \in Nat
            BY <2>1, <4>1, RowFacts DEF IInv, TypeOK, Times
          <5>2. rows[k].meta <= clock
            BY <2>1, <4>1 DEF IInv, NothingAhead
          <5> QED BY <4>1, <5>1, <5>2
        <4> QED BY <1>1, <2>1, <3>1, <4>2
      <3>2. CASE k[2] # p
        BY <1>1, <1>3, <2>1, <3>2 DEF IInv, NothingElseSkipped
      <3> QED BY <3>1, <3>2
    <2> QED BY <1>1, <2>1 DEF NothingElseSkipped
  <1> QED BY <1>4, <1>5, <1>7, <1>8, <1>9 DEF IInv

LEMMA TickStep ==
    ASSUME IInv, Tick
    PROVE  IInv'
  <1>1. clock \in Nat /\ clock' = clock + 1 /\ clock' \in Times
        /\ UNCHANGED <<feed, rows, loop, tasks, busy, missed>>
    BY DownloaderAssumption DEF Tick, IInv, TypeOK, Times
  <1>2. TypeOK'
    BY <1>1 DEF IInv, TypeOK
  <1>3. NothingAhead'
    <2>1. \A p \in Urls : feed[p].modified \in Nat
      BY DEF IInv, TypeOK, Times
    <2>2. \A k \in Users \X Urls : rows[k] # None => rows[k].meta \in Nat \cup {None}
      BY RowFacts DEF IInv, Times
    <2> QED BY <1>1, <2>1, <2>2 DEF IInv, NothingAhead
  <1>4. Exclusive' /\ StoresNewer' /\ NothingElseSkipped'
    BY <1>1 DEF IInv, Exclusive, Running, StoresNewer, NothingElseSkipped
  <1> QED BY <1>2, <1>3, <1>4 DEF IInv

-----------------------------------------------------------------------------

LEMMA StepKeeps ==
    ASSUME IInv, [Next]_vars
    PROVE  IInv'
  <1>1. CASE StartRound \/ ListFails \/ EndRound \/ \E c \in Commands : StartCommand(c)
    BY <1>1, StartRoundStep, ListFailsStep, EndRoundStep, StartCommandStep
  <1>2. ASSUME NEW p \in Processes, Work(p) \/ Kill(p) PROVE IInv'
    BY <1>2, ReceiveStep, FetchStep, StoreStep, FailStep, KillStep DEF Work
  <1>3. ASSUME NEW k \in Users \X Urls, Subscribe(k) \/ Unsubscribe(k) \/ DeletePodcast(k)
        PROVE  IInv'
    BY <1>3, SubscribeStep, UnsubscribeStep, DeletePodcastStep
  <1>4. ASSUME NEW p \in Urls, Publish(p) PROVE IInv'
    BY <1>4, PublishStep
  <1>5. CASE Tick
    BY <1>5, TickStep
  <1>6. CASE UNCHANGED vars
    BY <1>6 DEF vars, IInv, TypeOK, Exclusive, Running, NothingAhead, StoresNewer,
                NothingElseSkipped
  <1> QED BY <1>1, <1>2, <1>3, <1>4, <1>5, <1>6 DEF Next

LEMMA IInvHolds == Spec => []IInv
  <1>1. Init => IInv
    <2> SUFFICES ASSUME Init PROVE IInv
      OBVIOUS
    <2>1. 0 \in Times /\ 1 \in Times /\ 1 \in Versions
      BY DownloaderAssumption DEF Times, Versions
    <2>2. TypeOK
      BY <2>1 DEF Init, TypeOK, Row, Waiting
    <2>3. Exclusive /\ StoresNewer /\ NothingAhead /\ NothingElseSkipped
      BY ServerIsOne DEF Init, Exclusive, Running, StoresNewer, NothingAhead, NothingElseSkipped
    <2> QED BY <2>2, <2>3 DEF IInv
  <1>2. IInv /\ [Next]_vars => IInv'
    BY StepKeeps
  <1> QED BY <1>1, <1>2, PTL DEF Spec

\* Rows, feeds, tasks and workers keep their shapes through the goroutines of a round and
\* the clients that write the table meanwhile (podcasts_downloader.go:41, worker :141).
THEOREM DownloaderTypeCorrect == Spec => []TypeOK
  <1>1. IInv => TypeOK
    BY DEF IInv
  <1> QED BY <1>1, IInvHolds, PTL

\* What the downloader takes for not modified and is behind its feed has been missed in one
\* of the known ways (podcasts_downloader.go:141, the stamp of UpdatePodcastsInfo).
THEOREM OnlyMissedSkipped == Spec => []NothingElseSkipped
  <1>1. IInv => NothingElseSkipped
    BY DEF IInv
  <1> QED BY <1>1, IInvHolds, PTL

\* A step that gives a row a title from an older version of its feed is the store of a
\* worker whose process has been overtaken by another, the server's task by a command or
\* the other way round (podcasts_downloader.go:141, cli/podcasts.go:55).
THEOREM TitlesKept == Spec => TitlesGoBackOvertakenOnly
  <1> DEFINE Late(k) == \E p \in Processes : \E b \in busy[p] \ busy'[p] :
                           b.phase = "store" /\ b.task.url = k[2] /\ b.overtaken
  <1>1. ASSUME IInv, [Next]_vars, NEW k \in Users \X Urls, rows[k] # None, rows'[k] # None
        PROVE  rows'[k].title >= rows[k].title \/ Late(k)
    <2>1. rows[k].title \in Nat /\ rows[k] \in Filled
      BY <1>1, RowFacts DEF IInv
    <2>2. CASE rows'[k] = rows[k]
      BY <2>1, <2>2
    <2>3. ASSUME NEW p \in Processes, NEW b \in busy[p], Store(p, b)
          PROVE  rows'[k].title >= rows[k].title \/ Late(k)
      <3>1. b.phase = "store" /\ b.got \in Versions \cup {NotModified}
        BY <1>1, <2>3, StoreFacts DEF Store
      <3>2. CASE k[2] = b.task.url /\ b.got # NotModified /\ ~b.overtaken
        <4>1. k \in Users \X {b.task.url} /\ rows[k].title <= b.got
          BY <1>1, <3>1, <3>2 DEF IInv, StoresNewer, Ready
        <4>2. rows'[k].title = b.got /\ b.got \in Nat
          BY <1>1, <2>3, <3>1, <3>2, StoreFacts DEF Versions
        <4> QED BY <2>1, <4>1, <4>2
      <3>3. CASE k[2] = b.task.url /\ b.overtaken
        <4>1. busy'[p] = busy[p] \ {b}
          BY <2>3 DEF Store
        <4> QED BY <3>1, <3>3, <4>1
      <3>4. CASE ~(k[2] = b.task.url /\ b.got # NotModified)
        <4>1. rows'[k].title = rows[k].title
          BY <1>1, <2>3, <3>4, StoreFacts
        <4> QED BY <2>1, <4>1
      <3> QED BY <3>2, <3>3, <3>4
    <2>4. ASSUME NEW j \in Users \X Urls, Subscribe(j) \/ Unsubscribe(j) \/ DeletePodcast(j)
          PROVE  rows'[k].title >= rows[k].title
      <3>1. rows'[k].title = rows[k].title
        <4>1. CASE j # k
          BY <1>1, <2>4, <4>1 DEF IInv, TypeOK, Subscribe, Unsubscribe, DeletePodcast
        <4>2. CASE j = k /\ Subscribe(j)
          BY <1>1, <2>1, <4>2 DEF IInv, TypeOK, Subscribe, Filled
        <4>3. CASE j = k /\ Unsubscribe(j)
          BY <1>1, <2>1, <4>3 DEF IInv, TypeOK, Unsubscribe, Filled
        <4>4. CASE j = k /\ DeletePodcast(j)
          BY <1>1, <4>4 DEF IInv, TypeOK, DeletePodcast
        <4> QED BY <2>4, <4>1, <4>2, <4>3, <4>4
      <3> QED BY <2>1, <3>1
    <2>5. CASE \/ StartRound \/ ListFails \/ EndRound \/ (\E c \in Commands : StartCommand(c))
               \/ (\E p \in Processes : Kill(p)) \/ Tick \/ (\E p \in Urls : Publish(p))
               \/ UNCHANGED vars
      BY <2>2, <2>5 DEF StartRound, ListFails, EndRound, StartCommand, Kill, Tick, Publish, vars
    <2>6. ASSUME NEW p \in Processes,
                 Receive(p) \/ \E b \in busy[p] : Fetch(p, b) \/ Fail(p, b)
          PROVE  rows'[k].title >= rows[k].title
      <3>1. rows' = rows
        BY <2>6 DEF Receive, Fetch, Fail
      <3>2. rows'[k] = rows[k]
        BY <3>1
      <3> QED BY <2>1, <3>2
    <2> HIDE DEF Late
    <2> QED BY <1>1, <2>3, <2>4, <2>5, <2>6 DEF Next, Work
  <1>2. ASSUME IInv, [Next]_vars, NEW k \in Users \X Urls, rows[k] # None, rows'[k] # None,
               rows'[k].title < rows[k].title
        PROVE  Late(k)
    <2>1. rows[k].title \in Nat /\ (rows'[k].title >= rows[k].title \/ Late(k))
      BY <1>1, <1>2, RowFacts DEF IInv
    <2>2. TypeOK'
      BY <1>2, StepKeeps DEF IInv
    <2>3. rows'[k].title \in Nat
      BY <1>2, <2>2, NoneIsNoRow DEF TypeOK, Row, Filled, Versions, NoTitle
    <2> HIDE DEF Late
    <2> QED BY <1>2, <2>1, <2>3
  <1>3. IInv /\ [Next]_vars =>
           [\A k \in Users \X Urls :
               rows[k] # None /\ rows'[k] # None /\ rows'[k].title < rows[k].title
               => \E p \in Processes : \E b \in busy[p] \ busy'[p] :
                     b.phase = "store" /\ b.task.url = k[2] /\ b.overtaken]_vars
    BY <1>2
  <1> QED BY <1>3, IInvHolds, PTL DEF Spec, TitlesGoBackOvertakenOnly
================================================================================
