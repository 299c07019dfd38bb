----------------------------------- MODULE Server -----------------------------------
(***************************************************************************)
(* The life of the server process: its start, the requests and the         *)
(* background tasks that share one pool of database connections, and its   *)
(* stop.                                                                   *)
(*                                                                         *)
(* What a request asks of the database is any number of readings and then  *)
(* at most one transaction; which rows it touches is the matter of the     *)
(* other modules.  An error is what the rest of the program can tell of it: *)
(* the tags that Unwrap reaches, and the sentinels that errors.Is finds.   *)
(***************************************************************************)
EXTENDS Naturals, FiniteSets

CONSTANTS
    Requests,    \* requests of clients
    Tasks,       \* background tasks: maintenance, downloader
    Starts,      \* bound: the configurations the server starts with, and whom the requests ask
    MaxOpen,     \* MaxOpenConns: connections of the pool
    None

ASSUME ServerAssumption ==
    /\ Requests \cap Tasks = {}
    /\ MaxOpen \in Nat \ {0}
    /\ IsFiniteSet(Requests) /\ IsFiniteSet(Tasks)

VARIABLES
    conf,       \* config.ServerConf
    phase,      \* how far the process is
    exit,       \* how it ends
    signalled,  \* the context of the process is done
    late,       \* history: the wait for the requests ended by its timeout
    db,         \* Database.db
    at,         \* what each request and task is doing
    gone,       \* requests whose client has disconnected: their context is done
    held,       \* who has a connection of the pool
    lost,       \* connections that were never closed
    err,        \* the error a request is about to answer with
    cause,      \* history: why it fails
    wrote,      \* history: what became of the transaction of a request
    handler,    \* who answers the request
    status      \* the status of the answer, once it is written

process == <<conf, phase, exit, signalled, late, db>>
calls == <<at, gone, held, lost, err, cause, wrote, handler, status>>
vars == <<process, calls>>

Actors == Requests \cup Tasks

-----------------------------------------------------------------------------
\* Errors and their status.

Tags == {"internal", "validation", "data"}
Error == [tags : SUBSET Tags, is : SUBSET {"unknown device"}]

NoError == [tags |-> {}, is |-> {}]
ErrDatabase == [tags |-> {"internal"}, is |-> {}]

\* Mutant: only the outermost error is looked at.
AppliedAlone(e, inner) == [tags |-> e.tags, is |-> {}]

\* The error e of the program, around another one: a copy of e, no longer equal to it.
ApplyFor(e, inner) == [tags |-> e.tags \cup inner.tags, is |-> inner.is]

\* errors.Join: Unwrap, and Flatten with it, sees none of the errors it joins.
Join(e1, e2) == [tags |-> {}, is |-> e1.is \cup e2.is]

\* What a service fails with.
Causes == {"unknown device", "invalid", "database"}

ASSUME NoneIsNoCause == None \notin Causes \cup {"rollback"}

ErrorOf(c) ==
    [tags |-> {IF c = "database" THEN "internal" ELSE "validation"},
     is |-> {c} \cap {"unknown device"}]

\* An error goes up through Wrapf, which has no tag.
Wrapped(e) == ApplyFor(NoError, e)

\* Any of the errors that Flatten finds has the tag.
HasTag(e, tag) == tag \in e.tags

\* errors.Is: a sentinel equals only itself, with every field.
Is(e, sentinel) == sentinel \in e.is

\* checkAndWriteError and CheckAndWriteError ask in this order.
StatusOf(e) ==
    IF Is(e, "unknown device") THEN 404
    ELSE IF HasTag(e, "internal") THEN 500
    ELSE IF HasTag(e, "validation") \/ HasTag(e, "data") THEN 400
    ELSE 500

\* What a handler makes of the error of a service: most ask for its status ("plain").  A page of
\* a podcast calls any error of its look up a missing podcast ("page"), the form of a new
\* podcast may have answered before it asks the service ("form"), and the page of the password
\* tells of the error in words ("password").
Kinds == {"plain", "page", "form", "password"}

\* podcastFromURLParam, doChangePassword, and everybody else.
StatusBy(kind, e) ==
    IF kind = "page" THEN 404 ELSE IF kind = "password" THEN 200 ELSE StatusOf(e)

-----------------------------------------------------------------------------
\* The configuration.

Lists == {"none", "good", "bad"}
Conf == [db : BOOLEAN, driver : {"sqlite", "pg"}, connstr : BOOLEAN,
         address : BOOLEAN, root : BOOLEAN, key : BOOLEAN, cert : BOOLEAN,
         mgmt : {"none", "same", "separate"}, mgmtlist : Lists,
         store : {"", "db", "memory", "other"},
         auth : {"", "basic", "proxy", "other"}, header : BOOLEAN, proxylist : Lists]

ASSUME StartsAssumption == Starts \subseteq Conf \X [Requests -> Kinds]

\* ListenConf.Validate.
ValidListen(c) == c.address /\ c.key = c.cert

\* validateAuth looks at the proxy only; it has no case for an unknown method.
ValidAuth(c) == c.auth = "proxy" => c.header /\ c.proxylist = "good"

\* ServerConf.Validate.
Valid(c) ==
    /\ ValidListen(c)
    /\ c.mgmtlist # "bad"
    /\ c.store # "other"
    /\ c.proxylist # "bad"
    /\ ValidAuth(c)

\* Mutant: an empty method is not replaced.
WithStore(c) == [c EXCEPT !.store = IF @ = "" THEN "db" ELSE @]

\* Validate fills in what is not given.
WithDefaults(c) ==
    [c EXCEPT !.store = IF @ = "" THEN "db" ELSE @, !.auth = IF @ = "" THEN "basic" ELSE @]

-----------------------------------------------------------------------------

Phases == {"init", "config", "build", "listen", "mgmt", "running", "stopping", "closing",
           "exiting", "over"}
Exits == {"refused", "failed", "panic", "fatal", "clean"}

ASSUME NoneIsNoExit == None \notin Exits

InCall == {"opening", "reading", "writing", "closing"}
RequestPlaces == InCall \cup {"new", "asking", "answer", "done"}
TaskPlaces == InCall \cup {"off", "idle", "asking"}

\* One type invariant: every variable has its shape.
TypeOK ==
    /\ conf \in Conf
    /\ phase \in Phases
    /\ exit \in Exits \cup {None}
    /\ signalled \in BOOLEAN /\ late \in BOOLEAN
    /\ db \in {"none", "open", "closed"}
    /\ at \in [Actors -> RequestPlaces \cup TaskPlaces]
    /\ \A r \in Requests : at[r] \in RequestPlaces
    /\ \A t \in Tasks : at[t] \in TaskPlaces
    /\ gone \subseteq Requests
    /\ held \subseteq Actors
    /\ lost \in 0 .. MaxOpen
    /\ err \in [Requests -> Error]
    /\ cause \in [Requests -> Causes \cup {None, "rollback"}]
    /\ wrote \in [Requests -> {"nothing", "kept", "dropped", "unheard"}]
    /\ handler \in [Requests -> Kinds]
    /\ status \in [Requests -> {0, 200, 400, 404, 500}]

Init ==
    /\ \E start \in Starts : conf = start[1] /\ handler = start[2]
    /\ phase = "init" /\ exit = None
    /\ signalled = FALSE /\ late = FALSE
    /\ db = "none"
    /\ at = [a \in Actors |-> IF a \in Requests THEN "new" ELSE "off"]
    /\ gone = {} /\ held = {} /\ lost = 0
    /\ err = [r \in Requests |-> NoError]
    /\ cause = [r \in Requests |-> None]
    /\ wrote = [r \in Requests |-> "nothing"]
    /\ status = [r \in Requests |-> 0]

-----------------------------------------------------------------------------
\* The start.

\* The process leaves its command with the given end; the deferred shutdown follows.
Leave(end) == phase' = "stopping" /\ exit' = end

\* The process is gone at once: os.Exit, or a panic nobody recovers.
Die(end) == phase' = "over" /\ exit' = end

\* prepareSqliteConnstr refuses the connection string; pg has no such step.
BadConnstr(c) == c.driver = "sqlite" /\ ~c.connstr

\* DBConfig.Validate, then MustInvoke of the database, which panics, then its Open.
OpenDatabase ==
    /\ phase = "init"
    /\ \/ ~conf.db /\ Die("refused") /\ UNCHANGED db
       \/ conf.db /\ BadConnstr(conf) /\ Die("panic") /\ UNCHANGED db
       \/ /\ conf.db /\ ~BadConnstr(conf)
          /\ \/ phase' = "config" /\ db' = "open" /\ UNCHANGED exit
             \/ Die("failed") /\ UNCHANGED db
    /\ UNCHANGED <<conf, signalled, late, calls>>

Validate ==
    /\ phase = "config"
    /\ IF Valid(conf)
       THEN phase' = "build" /\ conf' = WithDefaults(conf) /\ UNCHANGED exit
       ELSE Leave("refused") /\ UNCHANGED conf
    /\ UNCHANGED <<signalled, late, db, calls>>

\* newAuthenticator knows two methods.
HasAuthenticator(c) == c.auth \in {"basic", "proxy"}

\* server.New creates what the routes need, then the routes: chi panics at a pattern that does
\* not begin with a slash.
Build ==
    /\ phase = "build"
    /\ IF HasAuthenticator(conf) /\ conf.root
       THEN phase' = "listen" /\ UNCHANGED exit
       ELSE Leave("panic")
    /\ UNCHANGED <<conf, signalled, late, db, calls>>

\* An address or a certificate that newListener cannot use ends the process where it stands.
ListenFails == Die("fatal")

Listen ==
    /\ phase = "listen"
    /\ \/ phase' = "mgmt" /\ UNCHANGED exit
       \/ ListenFails
    /\ UNCHANGED <<conf, signalled, late, db, calls>>

\* The management server has an address of its own.
SeparateMgmt(c) == c.mgmt = "separate"

StartTasks ==
    /\ phase = "mgmt"
    /\ \/ /\ phase' = "running"
          /\ at' = [a \in Actors |-> IF a \in Tasks THEN "idle" ELSE at[a]]
          /\ UNCHANGED exit
       \/ SeparateMgmt(conf) /\ ListenFails /\ UNCHANGED at
    /\ UNCHANGED <<conf, signalled, late, db, gone, held, lost, err, cause, wrote, handler, status>>

Boot == OpenDatabase \/ Validate \/ Build \/ Listen \/ StartTasks

-----------------------------------------------------------------------------
\* The stop.

\* SIGTERM or SIGINT, once NotifyContext listens to them.
Signal ==
    /\ phase \in {"build", "listen", "mgmt", "running"}
    /\ ~signalled
    /\ signalled' = TRUE
    /\ UNCHANGED <<conf, phase, exit, late, db, calls>>

Return ==
    /\ phase = "running" /\ signalled
    /\ Leave("clean")
    /\ UNCHANGED <<conf, signalled, late, db, calls>>

\* A request is between its arrival and its answer.
Running(r) == at[r] \notin {"new", "done"}

\* Mutant: nobody waits for the requests.
StopAtOnce ==
    /\ phase = "stopping"
    /\ phase' = "closing"
    /\ UNCHANGED <<conf, exit, signalled, late, db, calls>>

\* http.Server.Shutdown returns when no request is running ...
HttpStopped ==
    /\ phase = "stopping"
    /\ \A r \in Requests : ~Running(r)
    /\ phase' = "closing"
    /\ UNCHANGED <<conf, exit, signalled, late, db, calls>>

\* Mutant: the shutdown has no timeout.
WaitOn ==
    /\ phase = "stopping" /\ ~late
    /\ late' = TRUE
    /\ UNCHANGED <<conf, phase, exit, signalled, db, calls>>

\* ... or after shutdownInjectorTimeout.
HttpTimeout ==
    /\ phase = "stopping"
    /\ phase' = "closing" /\ late' = TRUE
    /\ UNCHANGED <<conf, exit, signalled, db, calls>>

CloseDatabase ==
    /\ phase = "closing"
    /\ phase' = "exiting" /\ db' = "closed"
    /\ UNCHANGED <<conf, exit, signalled, late, calls>>

Exit ==
    /\ phase = "exiting"
    /\ phase' = "over"
    /\ UNCHANGED <<conf, exit, signalled, late, db, calls>>

Stop == Return \/ HttpStopped \/ HttpTimeout \/ CloseDatabase \/ Exit

-----------------------------------------------------------------------------
\* Calls of the database.  They go on until the process is gone.

Alive == phase # "over"

\* The context of a's calls is done.
Ended(a) == IF a \in Tasks THEN signalled ELSE a \in gone

Used == Cardinality(held) + lost

\* Request a fails with error e, for the reason c; a task only logs its errors.
Failed(a, e, c) ==
    IF a \in Tasks THEN UNCHANGED <<err, cause>>
    ELSE err' = [err EXCEPT ![a] = e] /\ cause' = [cause EXCEPT ![a] = c]

GoTo(a, place) == at' = [at EXCEPT ![a] = place]

\* Mutant: who failed answers, whoever it is.
AfterAny(a) == "answer"

\* Where a is after its call failed before it had a connection.
After(a) == IF a \in Tasks THEN "idle" ELSE "answer"

\* WriteHeader: the first status is the one that is sent.
Write(r, code) == status' = [status EXCEPT ![r] = IF @ = 0 THEN code ELSE @]

\* A bad form is answered at once, and the handler goes on.
Arrive(r) ==
    /\ Alive
    /\ at[r] = "new" /\ phase \in {"mgmt", "running"}
    /\ GoTo(r, "asking")
    /\ IF handler[r] = "form" THEN Write(r, 400) ELSE UNCHANGED status
    /\ UNCHANGED <<process, gone, held, lost, err, cause, wrote, handler>>

Disconnect(r) ==
    /\ Alive
    /\ Running(r) /\ r \notin gone
    /\ gone' = gone \cup {r}
    /\ UNCHANGED <<process, at, held, lost, err, cause, wrote, handler, status>>

\* Connx waits for a connection of the pool.
Connect(a) ==
    /\ Alive
    /\ at[a] = "asking" /\ db = "open" /\ ~Ended(a)
    /\ Used < MaxOpen
    /\ held' = held \cup {a}
    /\ GoTo(a, "opening")
    /\ UNCHANGED <<process, gone, lost, err, cause, wrote, handler, status>>

\* The context is done, or the pool is closed under who waits for it.
ConnectFails(a) ==
    /\ Alive
    /\ at[a] = "asking"
    /\ Ended(a) \/ db = "closed"
    /\ GoTo(a, After(a))
    /\ Failed(a, ApplyFor(ErrDatabase, ErrDatabase), "database")
    /\ UNCHANGED <<process, gone, held, lost, wrote, handler, status>>

\* Who asks after Shutdown follows a nil pointer.  A request recovers; a task takes the
\* process with it.
ConnectPanics(a) ==
    /\ Alive
    /\ at[a] = "asking" /\ db = "closed"
    /\ IF a \in Requests
       THEN /\ GoTo(a, "done") /\ Write(a, 500)
            /\ gone' = gone \ {a}
            /\ UNCHANGED <<phase, exit>>
       ELSE Die("panic") /\ UNCHANGED <<at, status, gone>>
    /\ UNCHANGED <<conf, signalled, late, db, held, lost, err, cause, wrote, handler>>

\* The scripts of a new connection fail: GetConnection returns without closing it.
OpenFails(a) ==
    /\ Alive
    /\ at[a] = "opening" /\ conf.driver = "sqlite" /\ Ended(a)
    /\ held' = held \ {a} /\ lost' = lost + 1
    /\ GoTo(a, After(a))
    /\ Failed(a, ApplyFor(ErrDatabase, ApplyFor(ErrDatabase, NoError)), "database")
    /\ UNCHANGED <<process, gone, wrote, handler, status>>

\* podcastFromURLParam has not found its podcast yet.
LooksUp(a) == a \in Requests /\ handler[a] = "page"

\* InConnectionR or InTransaction goes on with its function.
Opened(a) ==
    /\ Alive
    /\ at[a] = "opening"
    /\ \/ GoTo(a, "reading")
       \/ ~LooksUp(a) /\ GoTo(a, "writing")
    /\ UNCHANGED <<process, gone, held, lost, err, cause, wrote, handler, status>>

Tell(a, what) == wrote' = IF a \in Tasks THEN wrote ELSE [wrote EXCEPT ![a] = what]

\* The function succeeds, and a transaction is committed.  A page that found its podcast goes on
\* as the other handlers.
Succeeds(a) ==
    /\ Alive
    /\ \/ at[a] = "reading" /\ UNCHANGED wrote
       \/ at[a] = "writing" /\ Tell(a, "kept")
    /\ handler' = IF LooksUp(a) THEN [handler EXCEPT ![a] = "plain"] ELSE handler
    /\ GoTo(a, "closing")
    /\ UNCHANGED <<process, gone, held, lost, err, cause, status>>

\* Mutant: the function's error does not end the transaction.
FailsCommitted(a) ==
    /\ Alive
    /\ at[a] \in {"reading", "writing"}
    /\ \E c \in Causes : Failed(a, Wrapped(ErrorOf(c)), c)
    /\ IF at[a] = "writing" THEN Tell(a, "kept") ELSE UNCHANGED wrote
    /\ GoTo(a, "closing")
    /\ UNCHANGED <<process, gone, held, lost, handler, status>>

\* Mutant: an error returns before the deferred close.
FailsAtOnce(a) ==
    /\ Alive
    /\ at[a] \in {"reading", "writing"}
    /\ \E c \in Causes : Failed(a, Wrapped(ErrorOf(c)), c)
    /\ IF at[a] = "writing" THEN Tell(a, "dropped") ELSE UNCHANGED wrote
    /\ GoTo(a, After(a))
    /\ UNCHANGED <<process, gone, held, lost, handler, status>>

\* The function fails, and a transaction is rolled back.
Fails(a) ==
    /\ Alive
    /\ at[a] \in {"reading", "writing"}
    /\ \E c \in Causes : Failed(a, Wrapped(ErrorOf(c)), c)
    /\ IF at[a] = "writing" THEN Tell(a, "dropped") ELSE UNCHANGED wrote
    /\ GoTo(a, "closing")
    /\ UNCHANGED <<process, gone, held, lost, handler, status>>

\* It fails, and so does the rollback: the error of the function is lost.
RollbackFails(a) ==
    /\ Alive
    /\ at[a] = "writing"
    /\ Failed(a, Join(NoError, ApplyFor(ErrDatabase, NoError)), "rollback")
    /\ Tell(a, "dropped")
    /\ GoTo(a, "closing")
    /\ UNCHANGED <<process, gone, held, lost, handler, status>>

\* BeginTxx or Commit fails.  Nothing is kept, unless it is the acknowledgement of a COMMIT of
\* PostgreSQL that got lost, or was not waited for.
TransactionFails(a) ==
    /\ Alive
    /\ at[a] = "writing"
    /\ Failed(a, ApplyFor(ErrDatabase, NoError), "database")
    /\ \/ Tell(a, "dropped")
       \/ conf.driver = "pg" /\ Tell(a, "unheard")
    /\ GoTo(a, "closing")
    /\ UNCHANGED <<process, gone, held, lost, handler, status>>

\* The call is over: the next one, or none.
GoOn(a) ==
    \/ GoTo(a, After(a))
    \/ a \in Tasks /\ GoTo(a, "asking")
    \/ a \in Requests /\ cause[a] = None /\ wrote[a] = "nothing" /\ GoTo(a, "asking")

CloseConnection(a) ==
    /\ Alive
    /\ at[a] = "closing"
    /\ held' = held \ {a}
    /\ GoOn(a)
    /\ UNCHANGED <<process, gone, lost, err, cause, wrote, handler, status>>

\* PRAGMA optimize is interrupted, or finds the database locked.
OptimizeMayFail(a) == Ended(a) \/ \E b \in Actors \ {a} : at[b] = "writing"

\* CloseConnection returns before it closes, and the connection stays out of the pool.
CloseFails(a) ==
    /\ Alive
    /\ at[a] = "closing" /\ conf.driver = "sqlite" /\ OptimizeMayFail(a)
    /\ held' = held \ {a} /\ lost' = lost + 1
    /\ GoOn(a)
    /\ UNCHANGED <<process, gone, err, cause, wrote, handler, status>>

Answer(r) ==
    /\ Alive
    /\ at[r] = "answer"
    /\ Write(r, IF cause[r] = None THEN 200 ELSE StatusBy(handler[r], err[r]))
    /\ err' = [err EXCEPT ![r] = NoError]
    /\ GoTo(r, "done")
    /\ gone' = gone \ {r}
    /\ UNCHANGED <<process, held, lost, cause, wrote, handler>>

-----------------------------------------------------------------------------
\* Background tasks.

\* The timer of a task and the end of its context may both be ready: select takes any.
Wake(t) ==
    /\ Alive
    /\ at[t] = "idle"
    /\ GoTo(t, "asking")
    /\ UNCHANGED <<process, gone, held, lost, err, cause, wrote, handler, status>>

Finish(t) ==
    /\ Alive
    /\ at[t] = "idle" /\ signalled
    /\ GoTo(t, "off")
    /\ UNCHANGED <<process, gone, held, lost, err, cause, wrote, handler, status>>

-----------------------------------------------------------------------------

\* A call that has its connection goes on.
Call(a) ==
    \/ OpenFails(a) \/ Opened(a) \/ Succeeds(a) \/ Fails(a) \/ RollbackFails(a)
    \/ TransactionFails(a) \/ CloseConnection(a) \/ CloseFails(a)

Next ==
    \/ Boot \/ Signal \/ Stop
    \/ \E r \in Requests : Arrive(r) \/ Disconnect(r) \/ Answer(r)
    \/ \E t \in Tasks : Wake(t) \/ Finish(t)
    \/ \E a \in Actors : Connect(a) \/ ConnectFails(a) \/ ConnectPanics(a) \/ Call(a)

Spec == Init /\ [][Next]_vars

\* Queries end, timers fire and the process goes on.  The pool gives a free connection to
\* any of those who wait.  Nothing is assumed of signals and clients.
Fairness ==
    /\ WF_vars(Boot) /\ WF_vars(Stop)
    /\ \A r \in Requests : WF_vars(Answer(r))
    /\ \A a \in Actors : SF_vars(Connect(a)) /\ WF_vars(ConnectFails(a)) /\ WF_vars(Call(a))

FairSpec == Spec /\ Fairness

-----------------------------------------------------------------------------
\* Properties.

\* A connection is held only during a call: no path through GetConnection, InConnectionR and
\* InTransaction ends with the connection in nobody's hands.  With sqlite, what the scripts
\* around a connection lose is counted in lost, and never more than the pool has.
NoConnectionKept ==
    /\ held = {a \in Actors : at[a] \in InCall}
    /\ Used <= MaxOpen

\* The database is closed after the http server has stopped: no request is running then,
\* unless the five seconds of the shutdown were not enough for it.
ServedBeforeClose ==
    db = "closed" /\ Alive => late \/ \A r \in Requests : ~Running(r)

\* The answer says what became of the transaction, whatever fails on the way: 200 only when it
\* is committed (or there was none), and an error only when nothing of it is left.  The page of
\* the password says it in words, always with 200, and a bad form has its 400 before its
\* transaction.  With PostgreSQL, and there only, a transaction may be kept behind a 500: when
\* the commit itself failed.
AnswerTellsOutcome ==
    \A r \in Requests : at[r] = "done" =>
        /\ status[r] = 200 /\ handler[r] # "password" => wrote[r] \in {"nothing", "kept"}
        /\ status[r] # 200 /\ wrote[r] = "kept" => handler[r] = "form"
        /\ wrote[r] = "unheard" => conf.driver = "pg" /\ cause[r] = "database"

StatusOfCause(c) ==
    IF c = "unknown device" THEN 404 ELSE IF c = "invalid" THEN 400 ELSE 500

\* Through Wrapf, ApplyFor, InTransaction and the handlers that ask for it, a failure keeps its
\* status, unless the rollback failed too or the database was closed: then it is 500.  A page
\* whose podcast could not be looked up answers 404 to any failure, that of the database
\* included, and a bad form keeps its 400.
StatusFollowsCause ==
    \A r \in Requests : at[r] = "done" /\ cause[r] # None =>
        /\ handler[r] = "plain" => status[r] = StatusOfCause(cause[r])
        /\ handler[r] = "page" => status[r] = 404 /\ wrote[r] = "nothing"
        /\ handler[r] = "form" => status[r] = 400
        /\ handler[r] = "password" => status[r] = 200

\* What Validate lets pass and the process panics at, while it starts, is an unknown method of
\* authentication, a web root that chi refuses, and a connection string that sqlite refuses: no
\* request has come by then.  Later only a background task does, that still asks for a connection
\* while the process stops.
PanicsExplained ==
    exit = "panic" =>
        \/ BadConnstr(conf) /\ db = "none" /\ phase = "over"
        \/ (conf.auth = "other" \/ ~conf.root) /\ \A r \in Requests : at[r] = "new"
        \/ signalled /\ db = "closed" /\ phase = "over"

\* Who waits for a connection gets one, or an error, unless every connection of the pool is
\* lost.
WaitersServed ==
    \A a \in Actors : (at[a] = "asking") ~> (at[a] # "asking" \/ lost = MaxOpen \/ ~Alive)

\* After a signal the process ends, whatever its requests and tasks are doing.
StopEnds == signalled ~> ~Alive

=============================================================================
