-------------------------- MODULE SubscriptionSyncProofs --------------------------
(***************************************************************************)
(* Theorems about SubscriptionSync for any number of devices, podcasts,    *)
(* requests and ticks in a second.                                         *)
(*                                                                         *)
(* That a device misses late changes only is not inductive: when an answer *)
(* is taken over, what the device believes is replaced by what the server  *)
(* computed some time ago, and its time by the time of the request.  The   *)
(* invariant therefore says of an answer on its way what it says of the    *)
(* device, and that the times a device is told do not decrease, which      *)
(* rests on the rounding to seconds being monotone.                        *)
(***************************************************************************)
EXTENDS SubscriptionSync, Integers, TLAPS

\* A view of the subscriptions agrees with the row of a podcast, if there is one.
Agrees(view, row, p) == row = None \/ (p \in view <=> row.state = "subscribed")

\* What a device will know when it takes the answer over.
View(c) == (c.known \cup c.poll.add) \ c.poll.remove

\* The times a device is told do not decrease, and are not ahead of the clock.
TimesOK(c, now) ==
    /\ c.since <= now
    /\ c.poll.phase # "idle" => c.since <= c.poll.at /\ c.poll.at <= now

\* Device and server agree about a podcast, or the next answer tells, or it was late.
PairOK(c, row, p, isLate) ==
    /\ Agrees(c.known, row, p) \/ row.at > c.since \/ isLate
    /\ c.poll.phase = "answered" => Agrees(View(c), row, p) \/ row.at > c.poll.at \/ isLate

\* The inductive invariant.
IInv ==
    /\ TypeOK
    /\ \A d \in Devices : TimesOK(client[d], WholeSecond(clock))
    /\ \A d \in Devices, p \in Podcasts : PairOK(client[d], rows[p], p, <<d, p>> \in late)

-----------------------------------------------------------------------------
\* Seconds.

LEMMA OneLess ==
    ASSUME NEW s \in Nat, NEW i \in Int, NEW j \in Int, i <= j - 1
    PROVE  s * i <= s * j - s
  <1>1. j - 1 - i \in Nat
    OBVIOUS
  <1>2. s * (j - 1 - i) >= 0
    BY <1>1
  <1>3. s * (j - 1 - i) = s * j - s - s * i
    OBVIOUS
  <1> QED BY <1>2, <1>3

\* The second of a time is not later than the time.
LEMMA SecondIsNat == ASSUME NEW t \in Nat PROVE WholeSecond(t) \in Nat
  BY SyncAssumption DEF WholeSecond

\* The second of the next tick is not earlier.
LEMMA SecondsGrow ==
    ASSUME NEW t \in Nat
    PROVE  WholeSecond(t) <= WholeSecond(t + 1)
  <1> DEFINE s == Second
             q == t \div s
             m == t % s
             q1 == (t + 1) \div s
             m1 == (t + 1) % s
  <1>0. s \in Nat \ {0}
    BY SyncAssumption
  <1> HIDE DEF s
  <1>1. t = s * q + m /\ m \in 0 .. s - 1 /\ q \in Int
    BY <1>0
  <1>2. t + 1 = s * q1 + m1 /\ m1 \in 0 .. s - 1 /\ q1 \in Int
    BY <1>0
  <1> HIDE DEF q, m, q1, m1
  <1>3. q <= q1
    <2>1. SUFFICES ASSUME q1 <= q - 1 PROVE FALSE
      BY <1>1, <1>2
    <2>2. s * q1 <= s * q - s
      BY <1>0, <1>1, <1>2, <2>1, OneLess
    <2> QED BY <1>0, <1>1, <1>2, <2>2
  <1>4. s * q <= s * q1
    <2>1. CASE q = q1
      BY <2>1, <1>0, <1>1
    <2>2. CASE q <= q1 - 1
      BY <2>2, <1>0, <1>1, <1>2, OneLess
    <2> QED BY <1>1, <1>2, <1>3, <2>1, <2>2
  <1>5. t - m <= (t + 1) - m1
    <2> DEFINE a == s * q
               b == s * q1
    <2>1. a \in Int /\ b \in Int
      BY <1>0, <1>1, <1>2
    <2>2. t = a + m /\ t + 1 = b + m1 /\ a <= b
      BY <1>1, <1>2, <1>4
    <2> HIDE DEF a, b
    <2> QED BY <1>1, <1>2, <2>1, <2>2
  <1> QED BY <1>5 DEF m, m1, s, WholeSecond

-----------------------------------------------------------------------------
\* Types of a device.

LEMMA ClientFacts ==
    ASSUME NEW c \in Client
    PROVE  /\ c.known \in SUBSET Podcasts
           /\ c.since \in Nat
           /\ c.poll \in Poll
           /\ c.poll.phase \in {"idle", "received", "answered"}
           /\ c.poll.phase = "idle" <=> c.poll = NoPoll
           /\ c.poll.phase # "idle" => c.poll.at \in Nat
           /\ c.poll.phase = "answered" =>
                 c.poll.add \in SUBSET Podcasts /\ c.poll.remove \in SUBSET Podcasts
  BY DEF Client, Poll, NoPoll

\* The podcasts the server has are those of its rows.
LEMMA RowFacts ==
    ASSUME TypeOK, NEW p \in Podcasts
    PROVE  /\ rows[p] \in Row
           /\ rows[p] # None => rows[p].at \in Nat
           /\ rows[p] # None => rows[p].state \in {"subscribed", "unsubscribed"}
           /\ p \in Subscribed <=> rows[p] # None /\ rows[p].state = "subscribed"
           /\ p \in Unsubscribed <=> rows[p] # None /\ rows[p].state = "unsubscribed"
  <1>1. rows[p] \in Row
    BY DEF TypeOK
  <1>2. p \in Subscribed <=> rows[p] # None /\ rows[p].state = "subscribed"
    BY DEF Subscribed
  <1>3. p \in Unsubscribed <=> rows[p] # None /\ rows[p].state = "unsubscribed"
    BY DEF Unsubscribed
  <1>4. rows[p] # None => /\ rows[p].at \in Times
                          /\ rows[p].state \in {"subscribed", "unsubscribed"}
    BY <1>1 DEF Row
  <1> QED BY <1>1, <1>2, <1>3, <1>4 DEF Times

\* A step of device d alone.
LEMMA OneClient ==
    ASSUME IInv, NEW d \in Devices, NEW c \in Client,
           client' = [client EXCEPT ![d] = c],
           UNCHANGED <<clock, rows, devices, req, late>>,
           TimesOK(c, WholeSecond(clock)),
           \A p \in Podcasts : PairOK(c, rows[p], p, <<d, p>> \in late)
    PROVE  IInv'
  <1>1. client' \in [Devices -> Client]
    BY DEF IInv, TypeOK
  <1>2. \A e \in Devices : client'[e] = IF e = d THEN c ELSE client[e]
    BY DEF IInv, TypeOK
  <1>3. TypeOK'
    BY <1>1 DEF IInv, TypeOK, Subscribed, Unsubscribed
  <1>4. \A e \in Devices : TimesOK(client'[e], WholeSecond(clock'))
    BY <1>2 DEF IInv
  <1>5. \A e \in Devices, p \in Podcasts : PairOK(client'[e], rows'[p], p, <<e, p>> \in late')
    BY <1>2 DEF IInv
  <1> QED BY <1>3, <1>4, <1>5 DEF IInv

\* A step that changes neither a row, nor a device, nor the clock.
LEMMA Elsewhere ==
    ASSUME IInv, TypeOK', UNCHANGED <<clock, rows, client, late>>
    PROVE  IInv'
  BY DEF IInv

-----------------------------------------------------------------------------
\* Change requests.

LEMMA ReceiveStep ==
    ASSUME IInv, NEW r \in Requests, NEW what \in Changes, Receive(r, what)
    PROVE  IInv'
  <1>1. [phase |-> "received", what |-> what, at |-> clock] \in Request
    BY DEF Request, IInv, TypeOK
  <1>2. TypeOK'
    BY <1>1 DEF Receive, IInv, TypeOK
  <1> QED BY <1>2, Elsewhere DEF Receive

LEMMA FailStep ==
    ASSUME IInv, NEW r \in Requests, Fail(r)
    PROVE  IInv'
  <1>1. TypeOK'
    BY DEF Fail, IInv, TypeOK, Request
  <1> QED BY <1>1, Elsewhere DEF Fail

\* What a request changes are podcasts, and its time is a time.
LEMMA RequestFacts ==
    ASSUME TypeOK, NEW r \in Requests, req[r].phase = "received"
    PROVE  /\ req[r].at \in Times
           /\ req[r].what \in Changes
           /\ Added(req[r].what) \subseteq Podcasts
           /\ Removed(req[r].what) \subseteq Podcasts
  <1>1. req[r] \in [phase : {"received"}, what : Changes, at : Times]
    BY DEF TypeOK, Request, NoRequest
  <1>2. req[r].at \in Times /\ req[r].what \in Changes
    BY <1>1
  <1>3. ASSUME NEW what \in Changes
        PROVE Added(what) \subseteq Podcasts /\ Removed(what) \subseteq Podcasts
    BY DEF Added, Removed, Subscribed, Changes
  <1> QED BY <1>2, <1>3

LEMMA ApplyStep ==
    ASSUME IInv, NEW r \in Requests, Apply(r)
    PROVE  IInv'
  <1> DEFINE what == req[r].what
             at == req[r].at
             add == Added(what)
             remove == Removed(what)
             changed == add \cup remove
  <1>0. TypeOK /\ req[r].phase = "received"
    BY DEF Apply, IInv
  <1>1. at \in Times /\ add \subseteq Podcasts /\ remove \subseteq Podcasts /\ what \in Changes
    BY <1>0, RequestFacts
  <1>2. /\ rows' = [p \in Podcasts |->
                       IF p \in add THEN [state |-> "subscribed", at |-> at]
                       ELSE IF p \in remove THEN [state |-> "unsubscribed", at |-> at]
                       ELSE rows[p]]
        /\ devices' = IF what.kind = "replace" THEN devices \cup {what.device} ELSE devices
        /\ late' = Lateness(changed, at)
        /\ req' = [req EXCEPT ![r] = NoRequest]
        /\ UNCHANGED <<clock, client>>
    BY DEF Apply
  <1>3. what.kind = "replace" => what.device \in Devices
    BY <1>1 DEF Changes
  <1> HIDE DEF what, at, add, remove
  <1>4. late' \subseteq Devices \X Podcasts
    BY <1>0, <1>1, <1>2 DEF Lateness, TypeOK
  <1>5. rows' \in [Podcasts -> Row]
    BY <1>0, <1>1, <1>2 DEF TypeOK, Row
  <1>6. TypeOK'
    BY <1>0, <1>2, <1>3, <1>4, <1>5 DEF TypeOK, Request
  <1>7. ASSUME NEW d \in Devices, NEW p \in Podcasts
        PROVE  PairOK(client'[d], rows'[p], p, <<d, p>> \in late')
    <2> DEFINE c == client[d]
    <2>0. /\ c \in Client
          /\ TimesOK(c, WholeSecond(clock))
          /\ PairOK(c, rows[p], p, <<d, p>> \in late)
          /\ client'[d] = c
      BY <1>0, <1>2 DEF IInv, TypeOK
    <2> HIDE DEF c
    <2>1. CASE p \notin changed
      <3>1. rows'[p] = rows[p]
        BY <1>2, <2>1
      <3>2. <<d, p>> \in late => <<d, p>> \in late'
        BY <1>2, <2>1 DEF Lateness
      <3> QED BY <2>0, <3>1, <3>2 DEF PairOK
    <2>2. CASE p \in changed
      <3>1. rows'[p].at = at
        BY <1>2, <2>2
      <3>2. Told(d) >= at => <<d, p>> \in late'
        BY <1>2, <2>2 DEF Lateness
      <3>3. Told(d) = IF c.poll.phase = "answered" THEN c.poll.at ELSE c.since
        BY DEF Told, c
      <3>4. /\ c.since \in Nat /\ at \in Nat
            /\ c.poll.phase = "answered" => c.poll.at \in Nat /\ c.since <= c.poll.at
        BY <1>1, <2>0, ClientFacts DEF Times, TimesOK
      <3>5. at > c.since \/ <<d, p>> \in late'
        BY <3>2, <3>3, <3>4
      <3>6. c.poll.phase = "answered" => at > c.poll.at \/ <<d, p>> \in late'
        BY <3>2, <3>3, <3>4
      <3> QED BY <2>0, <3>1, <3>5, <3>6 DEF PairOK
    <2> QED BY <2>1, <2>2
  <1>8. \A d \in Devices : TimesOK(client'[d], WholeSecond(clock'))
    BY <1>2 DEF IInv
  <1> QED BY <1>6, <1>7, <1>8 DEF IInv

-----------------------------------------------------------------------------
\* The polls of a device.

LEMMA AskStep ==
    ASSUME IInv, NEW d \in Devices, Ask(d)
    PROVE  IInv'
  <1> DEFINE now == WholeSecond(clock)
             poll == [phase |-> "received", at |-> now]
             c == client[d]
             n == [c EXCEPT !.poll = poll]
  <1>1. c \in Client /\ TimesOK(c, now) /\ clock \in Nat
    BY DEF IInv, TypeOK, Times
  <1>2. \A p \in Podcasts : PairOK(c, rows[p], p, <<d, p>> \in late)
    BY DEF IInv
  <1>3. now \in Nat
    BY <1>1, SecondIsNat
  <1>4. client' = [client EXCEPT ![d] = n] /\ UNCHANGED <<clock, rows, devices, req, late>>
    BY DEF Ask
  <1> HIDE DEF c, now
  <1>5. n \in Client /\ n.known = c.known /\ n.since = c.since /\ n.poll = poll
    BY <1>1, <1>3 DEF Client, Poll
  <1> HIDE DEF n
  <1>6. TimesOK(n, now)
    BY <1>1, <1>3, <1>5, ClientFacts DEF TimesOK
  <1>7. \A p \in Podcasts : PairOK(n, rows[p], p, <<d, p>> \in late)
    BY <1>2, <1>5 DEF PairOK
  <1> QED BY <1>4, <1>5, <1>6, <1>7, OneClient DEF now

LEMMA AnswerStep ==
    ASSUME IInv, NEW d \in Devices, Answer(d)
    PROVE  IInv'
  <1> DEFINE c == client[d]
             found == ChangedSince(c.since)
             poll == [phase |-> "answered", at |-> c.poll.at,
                      add |-> found \cap Subscribed, remove |-> found \cap Unsubscribed]
             n == [c EXCEPT !.poll = poll]
  <1>1. c \in Client /\ TimesOK(c, WholeSecond(clock)) /\ TypeOK
    BY DEF IInv, TypeOK
  <1>2. \A p \in Podcasts : PairOK(c, rows[p], p, <<d, p>> \in late)
    BY DEF IInv
  <1>3. /\ client' = [client EXCEPT ![d] = n]
        /\ c.poll.phase = "received"
        /\ UNCHANGED <<clock, rows, devices, req, late>>
    BY <1>1 DEF Answer, TypeOK, Client
  <1>4. found \subseteq Podcasts
    BY DEF ChangedSince
  <1> HIDE DEF c, found
  <1>5. c.poll.at \in Nat
    BY <1>1, <1>3, ClientFacts
  <1>6. poll \in Poll
    BY <1>4, <1>5 DEF Poll
  <1>7. /\ n \in Client /\ n.known = c.known /\ n.since = c.since /\ n.poll = poll
        /\ n.poll.phase = "answered" /\ n.poll.at = c.poll.at
        /\ n.poll.add = found \cap Subscribed /\ n.poll.remove = found \cap Unsubscribed
    BY <1>1, <1>6 DEF Client
  <1> HIDE DEF n, poll
  <1>8. TimesOK(n, WholeSecond(clock))
    BY <1>1, <1>3, <1>7 DEF TimesOK
  <1>9. ASSUME NEW p \in Podcasts
        PROVE  PairOK(n, rows[p], p, <<d, p>> \in late)
    <2>0. /\ p \in Subscribed <=> rows[p] # None /\ rows[p].state = "subscribed"
          /\ p \in Unsubscribed <=> rows[p] # None /\ rows[p].state = "unsubscribed"
          /\ rows[p] # None => rows[p].at \in Nat
          /\ rows[p] # None => rows[p].state \in {"subscribed", "unsubscribed"}
      BY <1>1, RowFacts
    <2>1. Agrees(c.known, rows[p], p) \/ rows[p].at > c.since \/ <<d, p>> \in late
      BY <1>2 DEF PairOK
    <2>2. p \in found <=> rows[p] # None /\ (c.since = 0 \/ rows[p].at > c.since)
      BY DEF ChangedSince, found
    <2>3. CASE p \in found
      <3>1. p \in View(n) <=> rows[p].state = "subscribed"
        BY <1>7, <2>0, <2>2, <2>3 DEF View
      <3> QED BY <1>7, <2>1, <3>1 DEF PairOK, Agrees
    <2>4. CASE p \notin found
      <3>1. p \in View(n) <=> p \in c.known
        BY <1>7, <2>4 DEF View
      <3>2. rows[p] # None => ~(rows[p].at > c.since)
        BY <2>2, <2>4
      <3>3. Agrees(c.known, rows[p], p) \/ <<d, p>> \in late
        BY <2>1, <3>2 DEF Agrees
      <3> QED BY <1>7, <2>1, <3>1, <3>3 DEF PairOK, Agrees
    <2> QED BY <2>3, <2>4
  <1> QED BY <1>3, <1>7, <1>8, <1>9, OneClient

LEMMA TakeStep ==
    ASSUME IInv, NEW d \in Devices, Take(d)
    PROVE  IInv'
  <1> DEFINE c == client[d]
             n == [known |-> View(c), since |-> c.poll.at, poll |-> NoPoll]
  <1>1. c \in Client /\ TimesOK(c, WholeSecond(clock))
    BY DEF IInv, TypeOK
  <1>2. \A p \in Podcasts : PairOK(c, rows[p], p, <<d, p>> \in late)
    BY DEF IInv
  <1>3. /\ c.poll.phase = "answered"
        /\ client' = [client EXCEPT ![d] = n]
        /\ UNCHANGED <<clock, rows, devices, req, late>>
    BY <1>1 DEF Take, View
  <1> HIDE DEF c
  <1>4. n \in Client
    BY <1>1, <1>3, ClientFacts DEF Client, View, Poll
  <1>5. n.known = View(c) /\ n.since = c.poll.at /\ n.poll.phase = "idle"
    BY DEF NoPoll
  <1> HIDE DEF n
  <1>6. TimesOK(n, WholeSecond(clock))
    BY <1>1, <1>3, <1>5 DEF TimesOK
  <1>7. \A p \in Podcasts : PairOK(n, rows[p], p, <<d, p>> \in late)
    BY <1>2, <1>3, <1>5 DEF PairOK
  <1> QED BY <1>3, <1>4, <1>6, <1>7, OneClient

LEMMA LoseStep ==
    ASSUME IInv, NEW d \in Devices, Lose(d)
    PROVE  IInv'
  <1> DEFINE c == client[d]
             n == [c EXCEPT !.poll = NoPoll]
  <1>1. c \in Client /\ TimesOK(c, WholeSecond(clock))
    BY DEF IInv, TypeOK
  <1>2. \A p \in Podcasts : PairOK(c, rows[p], p, <<d, p>> \in late)
    BY DEF IInv
  <1>3. client' = [client EXCEPT ![d] = n] /\ UNCHANGED <<clock, rows, devices, req, late>>
    BY DEF Lose
  <1> HIDE DEF c
  <1>4. n \in Client /\ n.known = c.known /\ n.since = c.since /\ n.poll.phase = "idle"
    BY <1>1 DEF Client, Poll, NoPoll
  <1> HIDE DEF n
  <1>5. TimesOK(n, WholeSecond(clock))
    BY <1>1, <1>4 DEF TimesOK
  <1>6. \A p \in Podcasts : PairOK(n, rows[p], p, <<d, p>> \in late)
    BY <1>2, <1>4 DEF PairOK
  <1> QED BY <1>3, <1>4, <1>5, <1>6, OneClient

-----------------------------------------------------------------------------
\* The rest.

LEMMA DeviceStep ==
    ASSUME IInv, NEW d \in Devices, UpdateDevice(d) \/ DeleteDevice(d)
    PROVE  IInv'
  <1>1. TypeOK'
    BY DEF UpdateDevice, DeleteDevice, IInv, TypeOK
  <1> QED BY <1>1, Elsewhere DEF UpdateDevice, DeleteDevice

LEMMA DeletePodcastStep ==
    ASSUME IInv, NEW q \in Podcasts, DeletePodcast(q)
    PROVE  IInv'
  <1>1. /\ rows' = [rows EXCEPT ![q] = None]
        /\ UNCHANGED <<clock, devices, req, client, late>>
    BY DEF DeletePodcast
  <1>2. rows' \in [Podcasts -> Row]
    BY <1>1 DEF IInv, TypeOK, Row
  <1>3. TypeOK'
    BY <1>1, <1>2 DEF IInv, TypeOK
  <1>4. \A d \in Devices : TimesOK(client'[d], WholeSecond(clock'))
    BY <1>1 DEF IInv
  <1>5. ASSUME NEW d \in Devices, NEW p \in Podcasts
        PROVE  PairOK(client'[d], rows'[p], p, <<d, p>> \in late')
    <2>1. rows'[p] = IF p = q THEN None ELSE rows[p]
      BY <1>1 DEF IInv, TypeOK
    <2>2. PairOK(client[d], rows[p], p, <<d, p>> \in late)
      BY DEF IInv
    <2> QED BY <1>1, <2>1, <2>2 DEF PairOK, Agrees
  <1> QED BY <1>3, <1>4, <1>5 DEF IInv

LEMMA TickStep ==
    ASSUME IInv, Tick
    PROVE  IInv'
  <1>1. clock \in Nat /\ clock' = clock + 1 /\ UNCHANGED <<rows, devices, req, client, late>>
    BY DEF Tick, IInv, TypeOK, Times
  <1>2. clock' \in Times
    BY SyncAssumption DEF Tick, IInv, TypeOK, Times
  <1>3. TypeOK'
    BY <1>1, <1>2 DEF IInv, TypeOK
  <1>4. /\ WholeSecond(clock) \in Nat /\ WholeSecond(clock') \in Nat
        /\ WholeSecond(clock) <= WholeSecond(clock')
    BY <1>1, SecondsGrow, SecondIsNat
  <1>5. ASSUME NEW d \in Devices
        PROVE  TimesOK(client'[d], WholeSecond(clock'))
    <2>1. client[d] \in Client /\ TimesOK(client[d], WholeSecond(clock))
      BY DEF IInv, TypeOK
    <2> QED BY <1>1, <1>4, <2>1, ClientFacts DEF TimesOK
  <1>6. \A d \in Devices, p \in Podcasts : PairOK(client'[d], rows'[p], p, <<d, p>> \in late')
    BY <1>1 DEF IInv
  <1> QED BY <1>3, <1>5, <1>6 DEF IInv

-----------------------------------------------------------------------------
\* The theorems.

LEMMA IInvHolds == Spec => []IInv
  <1>1. Init => IInv
    <2>1. SUFFICES ASSUME Init PROVE IInv
      OBVIOUS
    <2> DEFINE c == [known |-> {}, since |-> 0, poll |-> NoPoll]
    <2>2. /\ c \in Client /\ c.since = 0 /\ c.known = {} /\ c.poll.phase = "idle"
      BY DEF Client, Poll, NoPoll
    <2> HIDE DEF c
    <2>3. clock = 1 /\ client = [d \in Devices |-> c] /\ rows = [p \in Podcasts |-> None]
      BY <2>1 DEF Init, c
    <2>4. TypeOK
      <3>1. clock \in Times
        BY <2>3, SyncAssumption DEF Times
      <3>2. rows \in [Podcasts -> Row]
        BY <2>3 DEF Row
      <3>3. req \in [Requests -> Request]
        BY <2>1 DEF Init, Request
      <3>4. client \in [Devices -> Client]
        BY <2>2, <2>3
      <3> QED BY <2>1, <3>1, <3>2, <3>3, <3>4 DEF Init, TypeOK
    <2>5. WholeSecond(clock) \in Nat
      BY <2>3, SecondIsNat
    <2>6. \A d \in Devices : TimesOK(client[d], WholeSecond(clock))
      BY <2>2, <2>3, <2>5 DEF TimesOK
    <2>7. \A d \in Devices, p \in Podcasts : PairOK(client[d], rows[p], p, <<d, p>> \in late)
      BY <2>2, <2>3 DEF PairOK, Agrees
    <2> QED BY <2>4, <2>6, <2>7 DEF IInv
  <1>2. IInv /\ [Next]_vars => IInv'
    <2>1. SUFFICES ASSUME IInv, [Next]_vars PROVE IInv'
      OBVIOUS
    <2>2. CASE Tick
      BY <2>1, <2>2, TickStep
    <2>3. ASSUME NEW r \in Requests, Change(r)
          PROVE  IInv'
      BY <2>1, <2>3, ReceiveStep, ApplyStep, FailStep DEF Change
    <2>4. ASSUME NEW d \in Devices, Sync(d) \/ UpdateDevice(d) \/ DeleteDevice(d)
          PROVE  IInv'
      BY <2>1, <2>4, AskStep, AnswerStep, TakeStep, LoseStep, DeviceStep DEF Sync
    <2>5. ASSUME NEW p \in Podcasts, DeletePodcast(p)
          PROVE  IInv'
      BY <2>1, <2>5, DeletePodcastStep
    <2>6. CASE UNCHANGED vars
      BY <2>1, <2>6 DEF vars, IInv, TypeOK
    <2> QED BY <2>1, <2>2, <2>3, <2>4, <2>5, <2>6 DEF Next
  <1> QED BY <1>1, <1>2, PTL DEF Spec

\* Every variable has its shape.
THEOREM SyncTypeCorrect == Spec => []TypeOK
  <1>1. IInv => TypeOK
    BY DEF IInv
  <1> QED BY <1>1, IInvHolds, PTL

\* A device misses no change of GetSubscriptionChanges but those that took effect after it
\* was told a time not before them.
THEOREM OnlyLateMissed == Spec => []NothingElseMissed
  <1>1. IInv => NothingElseMissed
    <2>1. SUFFICES ASSUME IInv, NEW d \in Devices, NEW p \in Podcasts
                   PROVE  InSync(d, p) \/ rows[p].at > client[d].since \/ <<d, p>> \in late
      BY DEF NothingElseMissed
    <2>2. PairOK(client[d], rows[p], p, <<d, p>> \in late)
      BY <2>1 DEF IInv
    <2>3. p \in Subscribed <=> rows[p] # None /\ rows[p].state = "subscribed"
      BY <2>1, RowFacts DEF IInv
    <2> QED BY <2>2, <2>3 DEF PairOK, Agrees, InSync
  <1> QED BY <1>1, IInvHolds, PTL
================================================================================
