---------------------------------- MODULE Sessions ----------------------------------
(***************************************************************************)
(* Sessions and who is logged in.                                          *)
(*                                                                         *)
(* A request reads its session from the table at its start, works on the   *)
(* copy, and writes the whole copy back at its end.  Requests of one       *)
(* session overlap; the clean up and the commands on accounts run beside   *)
(* them.  Of what a session keeps only the user is modelled: the program   *)
(* stores nothing else.  A password is right or wrong.                     *)
(***************************************************************************)
EXTENDS Naturals, FiniteSets

CONSTANTS
    Handlers,  \* handlers of requests
    Sids,      \* bound: session ids
    Names,     \* user names
    MaxLife,   \* sessionMaxLifetime
    MaxClock,  \* bound: the last moment
    Null       \* no row, no user, no credentials

ASSUME SessionsAssumption ==
    /\ MaxLife \in Nat
    /\ MaxClock \in Nat
    /\ Null \notin Names

VARIABLES
    clock,     \* the time
    users,     \* the table users: what its password column says
    sessions,  \* the table sessions
    issued,    \* the session ids given to clients
    req,       \* what each request is doing
    owner,     \* history: the user a session has by its logins and logouts
    disturbed  \* history: sessions written by a request that was overtaken

sessionVars == <<clock, users, sessions, issued, req, owner, disturbed>>

-----------------------------------------------------------------------------

Times == 0 .. MaxClock
User == Names \cup {Null}
Stored == [user : User, created : Times]

ASSUME NullIsNoSession == Null \notin Stored

Idle == [phase |-> "idle"]

\* decides: the user is what this request made it, not what it read.
\* overtaken (history): another request has changed the row since this one read it.
Busy ==
    [phase : {"start", "auth", "verify", "handle", "destroy", "release"}, sid : Sids,
     auth : User, user : User, decides : BOOLEAN, overtaken : BOOLEAN]

\* One type invariant: every variable has its shape.
SessionsTypeOK ==
    /\ clock \in Times
    /\ users \in [Names -> {"absent", "active", "locked"}]
    /\ sessions \in [Sids -> Stored \cup {Null}]
    /\ issued \subseteq Sids
    /\ req \in [Handlers -> Busy \cup {Idle}]
    /\ owner \in [Sids -> User]
    /\ disturbed \subseteq Sids

SessionsInit ==
    /\ clock = 0
    /\ users = [n \in Names |-> "absent"]
    /\ sessions = [s \in Sids |-> Null]
    /\ issued = {}
    /\ req = [r \in Handlers |-> Idle]
    /\ owner = [s \in Sids |-> Null]
    /\ disturbed = {}

-----------------------------------------------------------------------------
\* Helpers.

\* Session.IsValid
IsValid(row) == row.created + MaxLife >= clock

\* The sessions S have changed: a request that has read one of them is overtaken.
Overtake(q, S) ==
    IF q.phase \notin {"idle", "start"} /\ q.sid \in S THEN [q EXCEPT !.overtaken = TRUE] ELSE q

\* Request r goes on as q, and changes the sessions S.
Proceed(r, q, S) == req' = [x \in Handlers |-> IF x = r THEN q ELSE Overtake(req[x], S)]

\* The rows of S are deleted, and their sessions with them.
Remove(S) ==
    /\ sessions' = [s \in Sids |-> IF s \in S THEN Null ELSE sessions[s]]
    /\ owner' = [s \in Sids |-> IF s \in S THEN Null ELSE owner[s]]
    /\ disturbed' = disturbed \ S

-----------------------------------------------------------------------------
\* The session of a request.

Begin(r, s) ==
    \E a \in User :
        Proceed(r, [phase |-> "start", sid |-> s, auth |-> a, user |-> Null,
                 decides |-> FALSE, overtaken |-> FALSE], {})

SessionExists(s) == sessions[s] # Null

\* The request has a cookie, and Exist finds its session.
Resume(r) ==
    /\ req[r] = Idle
    /\ \E s \in issued : SessionExists(s) /\ Begin(r, s)
    /\ UNCHANGED <<clock, users, sessions, issued, owner, disturbed>>

\* No cookie, or a cookie without a session: the request gets a new session id.
Open(r) ==
    /\ req[r] = Idle
    /\ \E s \in Sids \ issued : issued' = issued \cup {s} /\ Begin(r, s)
    /\ UNCHANGED <<clock, users, sessions, owner, disturbed>>

\* A row that has expired is read as an empty session, and so is one without data.
UserRead(row) == IF row # Null /\ IsValid(row) THEN row.user ELSE Null

\* ReadOrCreate: the session may have been deleted since Exist found it.
Read(r) ==
    LET s == req[r].sid
        row == sessions[s]
    IN  /\ req[r].phase = "start"
        /\ sessions' = IF row # Null THEN sessions
                       ELSE [sessions EXCEPT ![s] = [user |-> Null, created |-> clock]]
        /\ Proceed(r, [req[r] EXCEPT !.phase = "auth", !.user = UserRead(row)], {})
        /\ UNCHANGED <<clock, users, issued, owner, disturbed>>

\* Mutant: the time is rounded up.
SavedAhead(row, user) == IF row = Null THEN Null ELSE [user |-> user, created |-> clock + 1]

\* Mutant: a session that is missing is inserted.
SavedAnyway(row, user) == [user |-> user, created |-> clock]

\* SaveSession only updates.
Saved(row, user) == IF row = Null THEN Null ELSE [user |-> user, created |-> clock]

\* The handler has returned: Release writes the whole session back.
Release(r) ==
    LET s == req[r].sid
        q == req[r]
        row == sessions[s]
        saved == Saved(row, q.user)
        now == IF row # Null /\ q.decides THEN q.user ELSE owner[s]
    IN  /\ q.phase = "release"
        /\ sessions' = [sessions EXCEPT ![s] = saved]
        /\ owner' = [owner EXCEPT ![s] = now]
        /\ disturbed' = IF row # Null /\ q.user = now THEN disturbed \ {s}
                        ELSE IF row # Null /\ q.overtaken THEN disturbed \cup {s}
                        ELSE disturbed
        /\ Proceed(r, Idle, IF row # Null /\ row.user # q.user THEN {s} ELSE {})
        /\ UNCHANGED <<clock, users, issued>>

\* A handler panics, the database fails the session, or the program stops: no Release.
Abort(r) ==
    /\ req[r] # Idle
    /\ Proceed(r, Idle, {})
    /\ UNCHANGED <<clock, users, sessions, issued, owner, disturbed>>

-----------------------------------------------------------------------------
\* Authentication.

\* There are credentials, and they are not the session's user's.
LogsIn(q) == q.auth # Null /\ q.auth # q.user

\* Without need to log in, a request with a session's user goes on to its handler.
PassOn(r) ==
    /\ req[r].phase = "auth"
    /\ ~LogsIn(req[r])
    /\ req[r].user # Null
    /\ Proceed(r, [req[r] EXCEPT !.phase = "handle"], {})
    /\ UNCHANGED <<clock, users, sessions, issued, owner, disturbed>>

\* Mutant: an account that exists will do.
MayLogInLocked(name) == users[name] # "absent"

\* LoginUser and CheckUser refuse an account that is locked or missing.
MayLogIn(name) == users[name] = "active"

\* The account is loaded; the password is yet to be compared with its hash.
LoadAccount(r) ==
    /\ req[r].phase = "auth"
    /\ LogsIn(req[r])
    /\ MayLogIn(req[r].auth)
    /\ Proceed(r, [req[r] EXCEPT !.phase = "verify"], {})
    /\ UNCHANGED <<clock, users, sessions, issued, owner, disturbed>>

\* The password is right.
LogIn(r) ==
    /\ req[r].phase = "verify"
    /\ Proceed(r, [req[r] EXCEPT !.phase = "handle", !.user = req[r].auth, !.decides = TRUE], {})
    /\ UNCHANGED <<clock, users, sessions, issued, owner, disturbed>>

Flushed(q) == [q EXCEPT !.phase = "destroy", !.auth = Null, !.user = Null, !.decides = TRUE]

\* The account or the password is not right, the database fails, or there is no user and
\* AuthenticatedOnly stops the request.
Refuse(r) ==
    /\ \/ req[r].phase = "verify"
       \/ req[r].phase = "auth" /\ (LogsIn(req[r]) \/ req[r].user = Null)
    /\ Proceed(r, Flushed(req[r]), {})
    /\ UNCHANGED <<clock, users, sessions, issued, owner, disturbed>>

\* Any handler but the logout's; and the logout's when the request has no credentials of
\* the session's user.  The credentials are not used after it.
Handle(r) ==
    /\ req[r].phase = "handle"
    /\ Proceed(r, [req[r] EXCEPT !.phase = "release", !.auth = Null], {})
    /\ UNCHANGED <<clock, users, sessions, issued, owner, disturbed>>

LogOut(r) ==
    /\ req[r].phase = "handle"
    /\ req[r].auth = req[r].user
    /\ Proceed(r, Flushed(req[r]), {})
    /\ UNCHANGED <<clock, users, sessions, issued, owner, disturbed>>

\* Mutant: the session is emptied, but its row stays for the clean up.
DestroyLater(r) ==
    /\ req[r].phase = "destroy"
    /\ Proceed(r, [req[r] EXCEPT !.phase = "release", !.decides = FALSE], {})
    /\ UNCHANGED <<clock, users, sessions, issued, owner, disturbed>>

\* The row is deleted.  What is released afterwards decides nothing any more.
Destroy(r) ==
    LET s == req[r].sid
    IN  /\ req[r].phase = "destroy"
        /\ Remove({s})
        /\ Proceed(r, [req[r] EXCEPT !.phase = "release", !.decides = FALSE],
                IF sessions[s] # Null THEN {s} ELSE {})
        /\ UNCHANGED <<clock, users, issued>>

\* The error of Destroy is dropped; Release will write the empty session.
DestroyFails(r) ==
    /\ req[r].phase = "destroy"
    /\ Proceed(r, [req[r] EXCEPT !.phase = "release"], {})
    /\ UNCHANGED <<clock, users, sessions, issued, owner, disturbed>>

-----------------------------------------------------------------------------
\* Beside the requests.

\* CleanSessions.  Its second statement, for empty sessions, deletes what is older than the
\* first one's limit, so there is nothing left for it.
Expired == {s \in Sids : sessions[s] # Null /\ ~IsValid(sessions[s])}

GC ==
    /\ Expired # {}
    /\ Remove(Expired)
    /\ req' = [x \in Handlers |-> Overtake(req[x], Expired)]
    /\ UNCHANGED <<clock, users, issued>>

Becomes(n, state) ==
    /\ users' = [users EXCEPT ![n] = state]
    /\ UNCHANGED <<clock, sessions, issued, req, owner, disturbed>>

AddUser(n) == users[n] = "absent" /\ Becomes(n, "active")

\* The new hash replaces whatever is there, the mark of a locked account too.
ChangePassword(n) == users[n] # "absent" /\ Becomes(n, "active")

LockAccount(n) == users[n] # "absent" /\ Becomes(n, "locked")

\* Sessions do not refer to accounts, and stay.
DeleteUser(n) == users[n] # "absent" /\ Becomes(n, "absent")

Tick ==
    /\ clock < MaxClock
    /\ clock' = clock + 1
    /\ UNCHANGED <<users, sessions, issued, req, owner, disturbed>>

-----------------------------------------------------------------------------

Step(r) ==
    \/ Resume(r) \/ Open(r) \/ Read(r) \/ Release(r) \/ Abort(r)
    \/ PassOn(r) \/ LoadAccount(r) \/ LogIn(r) \/ Refuse(r)
    \/ Handle(r) \/ LogOut(r) \/ Destroy(r) \/ DestroyFails(r)

Accounts(n) == AddUser(n) \/ ChangePassword(n) \/ LockAccount(n) \/ DeleteUser(n)

SessionsNext ==
    \/ \E r \in Handlers : Step(r)
    \/ GC
    \/ \E n \in Names : Accounts(n)
    \/ Tick

SessionsSpec == SessionsInit /\ [][SessionsNext]_sessionVars

-----------------------------------------------------------------------------

\* A session has the user of its last login, and none after its logout, unless a request
\* wrote it back that had read it before another request changed it.  In particular a
\* session that was destroyed does not come back with its user by a late Release alone.
UserIsOwner ==
    \A s \in Sids : sessions[s] # Null => sessions[s].user = owner[s] \/ s \in disturbed

\* The sessions that a user has, or may get by an account loaded before.
Holds(n) ==
    {s \in Sids :
        \/ sessions[s] # Null /\ sessions[s].user = n
        \/ \E r \in Handlers :
              /\ req[r] # Idle
              /\ req[r].sid = s
              /\ req[r].user = n \/ (req[r].phase = "verify" /\ req[r].auth = n)}

\* A user whose account is locked or deleted gets into no further session, whatever
\* sessions, requests and logins are under way.
LockedGainsNothing ==
    [][\A n \in Names : users[n] # "active" => Holds(n)' \subseteq Holds(n)]_sessionVars
================================================================================
