----------------------------- MODULE SubscriptionSync -----------------------------
(***************************************************************************)
(* How the devices of one user follow each other's subscriptions.          *)
(*                                                                         *)
(* A device asks for what changed since the time the server gave it with   *)
(* the last answer.  The server stamps a change with the time its request  *)
(* arrived, and an answer with the second its own request arrived in;      *)
(* both take effect later.  A transaction is one step here: EpisodeStore   *)
(* shows that those of the SQLite repository are serializable.             *)
(*                                                                         *)
(* Time is counted in ticks.  An uploading client, a web page and an       *)
(* action upload that subscribes its podcast all make change requests.     *)
(***************************************************************************)
EXTENDS Naturals, FiniteSets

CONSTANTS
    Podcasts,   \* podcast addresses
    Devices,    \* device names
    Requests,   \* change requests that may be in progress at once
    Second,     \* ticks in a second
    MaxClock,   \* bound: the last tick
    None        \* no device named

ASSUME SyncAssumption ==
    /\ Second \in Nat \ {0}
    /\ MaxClock \in Nat \ {0}
    /\ None \notin Devices

VARIABLES
    clock,     \* the server's clock
    rows,      \* the table podcasts: whether it is subscribed, and updated_at
    devices,   \* the table devices
    req,       \* the change requests
    client,    \* what every device knows and asks
    late       \* history: pairs of a device and a podcast, see Lateness

vars == <<clock, rows, devices, req, client, late>>

-----------------------------------------------------------------------------

Times == 1 .. MaxClock

\* A change of the list: POST names what to add and remove, PUT the whole list.
Changes ==
    [kind : {"change"}, add : SUBSET Podcasts, remove : SUBSET Podcasts,
     device : Devices \cup {None}]
    \cup [kind : {"replace"}, list : SUBSET Podcasts, device : Devices]

Row == [state : {"subscribed", "unsubscribed"}, at : Times] \cup {None}

NoRequest == [phase |-> "idle"]
Request == {NoRequest} \cup [phase : {"received"}, what : Changes, at : Times]

NoPoll == [phase |-> "idle"]
Poll ==
    {NoPoll}
    \cup [phase : {"received"}, at : Nat]
    \cup [phase : {"answered"}, at : Nat, add : SUBSET Podcasts, remove : SUBSET Podcasts]

\* What a device knows, the time it was told, and its request.
Client == [known : SUBSET Podcasts, since : Nat, poll : Poll]

\* One type invariant: every variable has its shape.
TypeOK ==
    /\ clock \in Times
    /\ rows \in [Podcasts -> Row]
    /\ devices \subseteq Devices
    /\ req \in [Requests -> Request]
    /\ client \in [Devices -> Client]
    /\ late \subseteq Devices \X Podcasts

Init ==
    /\ clock = 1
    /\ rows = [p \in Podcasts |-> None]
    /\ devices = {}
    /\ req = [r \in Requests |-> NoRequest]
    /\ client = [d \in Devices |-> [known |-> {}, since |-> 0, poll |-> NoPoll]]
    /\ late = {}

Subscribed == {p \in Podcasts : rows[p] # None /\ rows[p].state = "subscribed"}
Unsubscribed == {p \in Podcasts : rows[p] # None /\ rows[p].state = "unsubscribed"}

-----------------------------------------------------------------------------
\* Change requests.

\* uploadSubscriptionChanges and uploadSubscriptions take the time and validate.
Receive(r, what) ==
    /\ req[r] = NoRequest
    /\ what.kind = "change" => what.add \cap what.remove = {}
    /\ req' = [req EXCEPT ![r] = [phase |-> "received", what |-> what, at |-> clock]]
    /\ UNCHANGED <<clock, rows, devices, client, late>>

\* What ChangeSubscriptions or ReplaceSubscriptions saves: podcasts that are in the wanted
\* state already are left alone, and one that was never added is not removed.
Added(what) ==
    (IF what.kind = "change" THEN what.add ELSE what.list) \ Subscribed
Removed(what) ==
    IF what.kind = "change" THEN what.remove \cap Subscribed ELSE Subscribed \ what.list

\* Lateness is history, no code: device d has been told a time not before this change.
Told(d) ==
    IF client[d].poll.phase = "answered" THEN client[d].poll.at ELSE client[d].since
Lateness(changed, at) ==
    (late \ (Devices \X changed)) \cup ({d \in Devices : Told(d) >= at} \X changed)

\* Mutant: the time of the change is not set when it is saved.
ApplyUndated(r) ==
    LET what == req[r].what
        changed == Added(what) \cup Removed(what)
    IN  /\ req[r].phase = "received"
        /\ what.kind = "change" => what.device \in devices \cup {None}
        /\ rows' = [p \in Podcasts |->
                       IF p \in Added(what) THEN [state |-> "subscribed", at |-> 0]
                       ELSE IF p \in Removed(what) THEN [state |-> "unsubscribed", at |-> 0]
                       ELSE rows[p]]
        /\ devices' = IF what.kind = "replace" THEN devices \cup {what.device} ELSE devices
        /\ late' = Lateness(changed, 0)
        /\ req' = [req EXCEPT ![r] = NoRequest]
        /\ UNCHANGED <<clock, client>>

\* Mutant: a podcast that is removed keeps the time it was added at.
ApplyKeepsTime(r) ==
    LET what == req[r].what
        at == req[r].at
        changed == Added(what) \cup Removed(what)
    IN  /\ req[r].phase = "received"
        /\ what.kind = "change" => what.device \in devices \cup {None}
        /\ rows' = [p \in Podcasts |->
                       IF p \in Added(what) THEN [state |-> "subscribed", at |-> at]
                       ELSE IF p \in Removed(what) THEN [rows[p] EXCEPT !.state = "unsubscribed"]
                       ELSE rows[p]]
        /\ devices' = IF what.kind = "replace" THEN devices \cup {what.device} ELSE devices
        /\ late' = Lateness(changed, at)
        /\ req' = [req EXCEPT ![r] = NoRequest]
        /\ UNCHANGED <<clock, client>>

\* The transaction of a request.  ReplaceSubscriptions creates the device it names,
\* ChangeSubscriptions fails when there is none.
Apply(r) ==
    LET what == req[r].what
        at == req[r].at
        changed == Added(what) \cup Removed(what)
    IN  /\ req[r].phase = "received"
        /\ what.kind = "change" => what.device \in devices \cup {None}
        /\ rows' = [p \in Podcasts |->
                       IF p \in Added(what) THEN [state |-> "subscribed", at |-> at]
                       ELSE IF p \in Removed(what) THEN [state |-> "unsubscribed", at |-> at]
                       ELSE rows[p]]
        /\ devices' = IF what.kind = "replace" THEN devices \cup {what.device} ELSE devices
        /\ late' = Lateness(changed, at)
        /\ req' = [req EXCEPT ![r] = NoRequest]
        /\ UNCHANGED <<clock, client>>

\* The device is unknown, the database busy, the client gone: rolled back.
Fail(r) ==
    /\ req[r].phase = "received"
    /\ req' = [req EXCEPT ![r] = NoRequest]
    /\ UNCHANGED <<clock, rows, devices, client, late>>

-----------------------------------------------------------------------------
\* GET of the changes.

\* Unix(): the whole second of a time.
WholeSecond(t) == t - (t % Second)

\* devSubscriptions takes the time, in seconds, before it looks at anything.
Ask(d) ==
    /\ client[d].poll = NoPoll
    /\ client' = [client EXCEPT
          ![d].poll = [phase |-> "received", at |-> WholeSecond(clock)]]
    /\ UNCHANGED <<clock, rows, devices, req, late>>

\* Mutant: ListSubscribedPodcasts instead, which leaves out what was removed.
SubscribedSince(since) == {p \in Subscribed : since = 0 \/ rows[p].at > since}

\* ListPodcasts: without a since, every podcast.
ChangedSince(since) == {p \in Podcasts : rows[p] # None /\ (since = 0 \/ rows[p].at > since)}

\* GetSubscriptionChanges.
Answer(d) ==
    LET found == ChangedSince(client[d].since)
    IN  /\ client[d].poll.phase = "received"
        /\ d \in devices
        /\ client' = [client EXCEPT
              ![d].poll = [phase |-> "answered", at |-> @.at, add |-> found \cap Subscribed,
                           remove |-> found \cap Unsubscribed]]
        /\ UNCHANGED <<clock, rows, devices, req, late>>

\* The device takes the answer over and remembers its time.
Take(d) ==
    LET poll == client[d].poll
    IN  /\ poll.phase = "answered"
        /\ client' = [client EXCEPT
              ![d] = [known |-> (@.known \cup poll.add) \ poll.remove,
                      since |-> poll.at, poll |-> NoPoll]]
        /\ UNCHANGED <<clock, rows, devices, req, late>>

\* An error, or the answer is lost: the device asks again with the old time.
Lose(d) ==
    /\ client[d].poll # NoPoll
    /\ client' = [client EXCEPT ![d].poll = NoPoll]
    /\ UNCHANGED <<clock, rows, devices, req, late>>

-----------------------------------------------------------------------------
\* The rest.

\* DevicesSrv.
UpdateDevice(d) ==
    /\ devices' = devices \cup {d}
    /\ UNCHANGED <<clock, rows, req, client, late>>

DeleteDevice(d) ==
    /\ d \in devices
    /\ devices' = devices \ {d}
    /\ UNCHANGED <<clock, rows, req, client, late>>

\* PodcastsSrv.DeletePodcast, from the web pages: the row is gone.
DeletePodcast(p) ==
    /\ rows[p] # None
    /\ rows' = [rows EXCEPT ![p] = None]
    /\ UNCHANGED <<clock, devices, req, client, late>>

Tick ==
    /\ clock < MaxClock
    /\ clock' = clock + 1
    /\ UNCHANGED <<rows, devices, req, client, late>>

-----------------------------------------------------------------------------

Change(r) == (\E what \in Changes : Receive(r, what)) \/ Apply(r) \/ Fail(r)

Sync(d) == Ask(d) \/ Answer(d) \/ Take(d) \/ Lose(d)

Next ==
    \/ Tick
    \/ \E r \in Requests : Change(r)
    \/ \E d \in Devices : Sync(d) \/ UpdateDevice(d) \/ DeleteDevice(d)
    \/ \E p \in Podcasts : DeletePodcast(p)

\* Devices keep asking, and not every answer is lost.  Nothing else has to happen.
Fairness == \A d \in Devices : WF_vars(Ask(d)) /\ SF_vars(Answer(d)) /\ SF_vars(Take(d))

Spec == Init /\ [][Next]_vars
FairSpec == Spec /\ Fairness

-----------------------------------------------------------------------------

\* Device d has the server's view of podcast p, if the server has one.
InSync(d, p) == rows[p] # None => (p \in client[d].known <=> p \in Subscribed)

\* A device that disagrees with the server about a podcast will be told by its next
\* request, unless the change took effect after the device was told a later time: answers
\* that are lost, requests that overlap and the rounding to seconds lose nothing else.
NothingElseMissed ==
    \A d \in Devices, p \in Podcasts :
        InSync(d, p) \/ rows[p].at > client[d].since \/ <<d, p>> \in late

\* A device that keeps asking and stays registered gets to know every change that was not
\* late, unless the podcast changes again.
ChangesArrive ==
    \A d \in Devices, p \in Podcasts :
        [](~InSync(d, p) => <>(InSync(d, p) \/ <<d, p>> \in late \/ d \notin devices))

\* "Synchronize all user devices": a device that has been told a time not before the last
\* change of a podcast, and is not waiting for an answer, agrees with the server about it.
DevicesSynchronized ==
    \A d \in Devices, p \in Podcasts :
        client[d].poll = NoPoll /\ rows[p] # None /\ rows[p].at <= client[d].since
        => InSync(d, p)
================================================================================
