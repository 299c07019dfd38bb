-------------------------------- MODULE RequestProofs --------------------------------
(***************************************************************************)
(* Theorems about what a request goes through: its session (Sessions, with *)
(* the commands on accounts beside it) and the process that answers it     *)
(* (Server).                                                               *)
(*                                                                         *)
(* Sessions: for any number of requests, session ids and names, and any    *)
(* life of a session.  What a request writes back is right when nobody has *)
(* overtaken it: then its user is still the user of the row, or it has     *)
(* logged in itself.                                                       *)
(*                                                                         *)
(* Server: for any number of requests and background tasks, any size of    *)
(* the pool and any configurations.  The parts of the inductive invariant  *)
(* are about the pool, the order of the stop, the outcome of each request, *)
(* and who can panic.  Each holds on its own once the types are known.     *)
(***************************************************************************)
EXTENDS Sessions, Server, FiniteSetTheorems, TLAPS

\* The user that the table has for a session.
UserIn(table, s) == IF table[s] = Null THEN Null ELSE table[s].user

\* A request that was not overtaken and has not decided on a user has the row's, u; or none
\* yet, when the row has expired.
Follows(q, u) ==
    /\ q.phase \in {"auth", "handle", "release"} /\ ~q.decides /\ ~q.overtaken
       => q.user = u \/ (q.phase = "auth" /\ q.user = Null)
    /\ q.phase = "destroy" => q.decides /\ q.user = Null

InStep == \A r \in Handlers : Follows(req[r], UserIn(sessions, req[r].sid))

NoRowNoOwner == \A s \in Sids : sessions[s] = Null => owner[s] = Null

\* The inductive invariant.
SessionsInv == SessionsTypeOK /\ UserIsOwner /\ NoRowNoOwner /\ InStep

-----------------------------------------------------------------------------
\* The requests of sessions.

\* A request that is under way has its fields.
LEMMA BusyFacts ==
    ASSUME SessionsTypeOK, NEW r \in Handlers, req[r] # Idle
    PROVE  /\ req[r] \in Busy /\ req[r].sid \in Sids /\ req[r].user \in User
           /\ req[r].auth \in User /\ req[r].decides \in BOOLEAN /\ req[r].overtaken \in BOOLEAN
           /\ req[r].phase \in {"start", "auth", "verify", "handle", "destroy", "release"}
           /\ sessions[req[r].sid] \in Stored \cup {Null}
           /\ sessions[req[r].sid] # Null => sessions[req[r].sid] \in Stored
  BY DEF SessionsTypeOK, Busy

LEMMA IdleFacts ==
    /\ Idle.phase = "idle"
    /\ \A q \in Busy : q # Idle /\ q.phase # "idle"
  BY DEF Idle, Busy

\* Being overtaken changes nothing else of a request.
LEMMA OvertakeFacts ==
    ASSUME NEW q \in Busy \cup {Idle}, NEW S
    PROVE  /\ Overtake(q, S) \in Busy \cup {Idle}
           /\ q = Idle <=> Overtake(q, S) = Idle
           /\ q # Idle =>
                 /\ Overtake(q, S).phase = q.phase /\ Overtake(q, S).sid = q.sid
                 /\ Overtake(q, S).auth = q.auth /\ Overtake(q, S).user = q.user
                 /\ Overtake(q, S).decides = q.decides
                 /\ ~Overtake(q, S).overtaken =>
                       ~q.overtaken /\ (q.phase = "start" \/ q.sid \notin S)
  <1>1. CASE q = Idle
    BY <1>1, IdleFacts DEF Overtake
  <1>2. CASE q \in Busy /\ q.phase # "start" /\ q.sid \in S
    <2>1. Overtake(q, S) = [q EXCEPT !.overtaken = TRUE]
      BY <1>2, IdleFacts DEF Overtake
    <2>2. [q EXCEPT !.overtaken = TRUE] \in Busy
      BY <1>2 DEF Busy
    <2>3. /\ Overtake(q, S).phase = q.phase /\ Overtake(q, S).sid = q.sid
          /\ Overtake(q, S).auth = q.auth /\ Overtake(q, S).user = q.user
          /\ Overtake(q, S).decides = q.decides /\ Overtake(q, S).overtaken
      BY <1>2, <2>1 DEF Busy
    <2> QED BY <1>2, <2>1, <2>2, <2>3, IdleFacts
  <1>3. CASE q \in Busy /\ (q.phase = "start" \/ q.sid \notin S)
    <2>1. Overtake(q, S) = q
      BY <1>3 DEF Overtake
    <2> QED BY <1>3, <2>1, IdleFacts
  <1> QED BY <1>1, <1>2, <1>3

\* What changes the users of the sessions S only, and tells a request, keeps it in step.
LEMMA OvertakenInStep ==
    ASSUME SessionsInv, NEW S, \A s \in Sids \ S : UserIn(sessions', s) = UserIn(sessions, s),
           NEW x \in Handlers, req'[x] = Overtake(req[x], S)
    PROVE  /\ req'[x] \in Busy \cup {Idle}
           /\ Follows(req'[x], UserIn(sessions', req'[x].sid))
  <1>1. req[x] \in Busy \cup {Idle}
    BY DEF SessionsInv, SessionsTypeOK
  <1>2. CASE req[x] = Idle
    <2>1. req'[x] = Idle
      BY <1>1, <1>2, OvertakeFacts
    <2> QED BY <2>1, IdleFacts DEF Follows
  <1>3. CASE req[x] # Idle
    <2> DEFINE o == req[x]
               n == req'[x]
    <2>1. /\ n \in Busy \cup {Idle}
          /\ n.phase = o.phase /\ n.sid = o.sid /\ n.user = o.user /\ n.decides = o.decides
          /\ ~n.overtaken => ~o.overtaken /\ (o.phase = "start" \/ o.sid \notin S)
      BY <1>1, <1>3, OvertakeFacts
    <2>2. o.sid \in Sids
      BY <1>3, BusyFacts DEF SessionsInv
    <2>3. Follows(o, UserIn(sessions, o.sid))
      BY DEF SessionsInv, InStep
    <2> HIDE DEF o, n
    <2>4. ASSUME n.phase \in {"auth", "handle", "release"}, ~n.decides, ~n.overtaken
          PROVE  n.user = UserIn(sessions', n.sid) \/ (n.phase = "auth" /\ n.user = Null)
      <3>1. UserIn(sessions', o.sid) = UserIn(sessions, o.sid)
        BY <2>1, <2>2, <2>4
      <3>2. o.user = UserIn(sessions, o.sid) \/ (o.phase = "auth" /\ o.user = Null)
        BY <2>1, <2>3, <2>4 DEF Follows
      <3> QED BY <2>1, <3>1, <3>2
    <2>5. Follows(n, UserIn(sessions', n.sid))
      BY <2>1, <2>3, <2>4 DEF Follows
    <2> QED BY <2>1, <2>5 DEF n
  <1> QED BY <1>2, <1>3

\* The same of all requests, in a step of none of them.
LEMMA OvertakeKeeps ==
    ASSUME SessionsInv, NEW S, \A s \in Sids \ S : UserIn(sessions', s) = UserIn(sessions, s),
           req' = [x \in Handlers |-> Overtake(req[x], S)]
    PROVE  req' \in [Handlers -> Busy \cup {Idle}] /\ InStep'
  <1>1. \A x \in Handlers : req'[x] = Overtake(req[x], S)
    OBVIOUS
  <1>2. \A x \in Handlers : /\ req'[x] \in Busy \cup {Idle}
                            /\ Follows(req'[x], UserIn(sessions', req'[x].sid))
    BY <1>1, OvertakenInStep
  <1> QED BY <1>2 DEF InStep

\* A step of request r that changes the users of the sessions S only, and tells the others.
LEMMA StepKeeps ==
    ASSUME SessionsInv, NEW r \in Handlers, NEW q \in Busy \cup {Idle}, NEW S, Proceed(r, q, S),
           \A s \in Sids \ S : UserIn(sessions', s) = UserIn(sessions, s),
           q # Idle => Follows(q, UserIn(sessions', q.sid))
    PROVE  req' \in [Handlers -> Busy \cup {Idle}] /\ InStep'
  <1>1. req' = [x \in Handlers |-> IF x = r THEN q ELSE Overtake(req[x], S)]
    BY DEF Proceed
  <1>2. ASSUME NEW x \in Handlers
        PROVE  /\ req'[x] \in Busy \cup {Idle}
               /\ Follows(req'[x], UserIn(sessions', req'[x].sid))
    <2>1. CASE x = r
      <3>1. req'[x] = q
        BY <1>1, <2>1
      <3>2. CASE q = Idle
        BY <3>1, <3>2, IdleFacts DEF Follows
      <3>3. CASE q # Idle
        BY <3>1, <3>3
      <3> QED BY <3>2, <3>3
    <2>2. CASE x # r
      <3>1. req'[x] = Overtake(req[x], S)
        BY <1>1, <2>2
      <3> QED BY <3>1, OvertakenInStep
    <2> QED BY <2>1, <2>2
  <1> QED BY <1>1, <1>2 DEF InStep

\* A step of a request in memory.
LEMMA QuietStep ==
    ASSUME SessionsInv, NEW r \in Handlers, NEW q \in Busy \cup {Idle}, Proceed(r, q, {}),
           UNCHANGED <<clock, users, sessions, issued, owner, disturbed>>,
           q # Idle => Follows(q, UserIn(sessions, q.sid))
    PROVE  SessionsInv'
  <1>1. req' \in [Handlers -> Busy \cup {Idle}] /\ InStep'
    BY StepKeeps DEF SessionsInv
  <1>2. SessionsTypeOK'
    BY <1>1 DEF SessionsInv, SessionsTypeOK
  <1>3. UserIsOwner' /\ NoRowNoOwner'
    BY DEF SessionsInv, UserIsOwner, NoRowNoOwner
  <1> QED BY <1>1, <1>2, <1>3 DEF SessionsInv

\* A request goes on with other fields.
LEMMA NewBusy ==
    ASSUME NEW s \in Sids, NEW a \in User, NEW u \in User, NEW d \in BOOLEAN, NEW o \in BOOLEAN,
           NEW ph \in {"start", "auth", "verify", "handle", "destroy", "release"}
    PROVE  [phase |-> ph, sid |-> s, auth |-> a, user |-> u, decides |-> d,
            overtaken |-> o] \in Busy
  BY DEF Busy

LEMMA ExceptBusy ==
    ASSUME NEW q \in Busy, NEW a \in User, NEW u \in User, NEW d \in BOOLEAN,
           NEW ph \in {"start", "auth", "verify", "handle", "destroy", "release"}
    PROVE  /\ [q EXCEPT !.phase = ph] \in Busy
           /\ [q EXCEPT !.phase = ph, !.auth = a] \in Busy
           /\ [q EXCEPT !.phase = ph, !.user = u] \in Busy
           /\ [q EXCEPT !.phase = ph, !.decides = d] \in Busy
           /\ [q EXCEPT !.phase = ph, !.user = u, !.decides = d] \in Busy
           /\ [q EXCEPT !.phase = ph, !.auth = a, !.user = u, !.decides = d] \in Busy
  BY DEF Busy

\* The steps that read nothing and write nothing in the tables.
LEMMA InMemorySteps ==
    ASSUME SessionsInv, NEW r \in Handlers,
           \/ Abort(r) \/ PassOn(r) \/ LoadAccount(r) \/ LogIn(r) \/ Refuse(r) \/ Handle(r)
           \/ LogOut(r) \/ DestroyFails(r)
    PROVE  SessionsInv'
  <1> DEFINE q == req[r]
  <1>1. UNCHANGED <<clock, users, sessions, issued, owner, disturbed>>
    BY DEF Abort, PassOn, LoadAccount, LogIn, Refuse, Handle, LogOut, DestroyFails
  <1>2. Null \in User /\ TRUE \in BOOLEAN /\ FALSE \in BOOLEAN
    BY DEF User
  <1>3. CASE Abort(r)
    BY <1>1, <1>3, QuietStep DEF Abort
  <1>4. CASE ~Abort(r)
    <2>1. /\ q.phase \in {"auth", "verify", "handle", "destroy"}
          /\ q # Idle
      BY <1>4, IdleFacts DEF PassOn, LoadAccount, LogIn, Refuse, Handle, LogOut, DestroyFails
    <2>2. /\ q \in Busy /\ q.sid \in Sids /\ q.user \in User /\ q.auth \in User
          /\ q.decides \in BOOLEAN /\ q.overtaken \in BOOLEAN
      BY <2>1, BusyFacts DEF SessionsInv
    <2>3. Follows(q, UserIn(sessions, q.sid))
      BY DEF SessionsInv, InStep
    <2> HIDE DEF q
    <2>4. CASE PassOn(r)
      <3> DEFINE n == [q EXCEPT !.phase = "handle"]
      <3>0. n \in Busy
        BY <2>2, ExceptBusy
      <3>1. n \in Busy /\ n.phase = "handle" /\ n.sid = q.sid /\ n.user = q.user
            /\ n.decides = q.decides /\ n.overtaken = q.overtaken
        BY <2>2, <3>0 DEF Busy
      <3>2. Proceed(r, n, {}) /\ q.phase = "auth" /\ q.user # Null
        BY <2>4 DEF PassOn, q
      <3> HIDE DEF n
      <3>3. Follows(n, UserIn(sessions, n.sid))
        BY <2>3, <3>1, <3>2 DEF Follows
      <3> QED BY <1>1, <3>1, <3>2, <3>3, QuietStep
    <2>5. CASE LoadAccount(r)
      <3> DEFINE n == [q EXCEPT !.phase = "verify"]
      <3>0. n \in Busy
        BY <2>2, ExceptBusy
      <3>1. n \in Busy /\ n.phase = "verify"
        BY <2>2, <3>0 DEF Busy
      <3>2. Proceed(r, n, {})
        BY <2>5 DEF LoadAccount, q
      <3> HIDE DEF n
      <3> QED BY <1>1, <3>1, <3>2, QuietStep DEF Follows
    <2>6. CASE LogIn(r)
      <3> DEFINE n == [q EXCEPT !.phase = "handle", !.user = q.auth, !.decides = TRUE]
      <3>0. n \in Busy
        BY <1>2, <2>2, ExceptBusy
      <3>1. n \in Busy /\ n.decides /\ n.phase = "handle"
        BY <2>2, <3>0 DEF Busy
      <3>2. Proceed(r, n, {})
        BY <2>6 DEF LogIn, q
      <3> HIDE DEF n
      <3> QED BY <1>1, <3>1, <3>2, QuietStep DEF Follows
    <2>7. CASE Refuse(r) \/ LogOut(r)
      <3> DEFINE n == Flushed(q)
      <3>0. n \in Busy
        BY <1>2, <2>2, ExceptBusy DEF Flushed
      <3>1. n \in Busy /\ n.decides /\ n.user = Null
        BY <2>2, <3>0 DEF Busy, Flushed
      <3>2. Proceed(r, n, {})
        BY <2>7 DEF Refuse, LogOut, q
      <3> HIDE DEF n
      <3> QED BY <1>1, <3>1, <3>2, QuietStep DEF Follows
    <2>8. CASE Handle(r)
      <3> DEFINE n == [q EXCEPT !.phase = "release", !.auth = Null]
      <3>0. n \in Busy
        BY <1>2, <2>2, ExceptBusy
      <3>1. n \in Busy /\ n.phase = "release" /\ n.sid = q.sid /\ n.user = q.user
            /\ n.decides = q.decides /\ n.overtaken = q.overtaken
        BY <2>2, <3>0 DEF Busy
      <3>2. Proceed(r, n, {}) /\ q.phase = "handle"
        BY <2>8 DEF Handle, q
      <3> HIDE DEF n
      <3>3. Follows(n, UserIn(sessions, n.sid))
        BY <2>3, <3>1, <3>2 DEF Follows
      <3> QED BY <1>1, <3>1, <3>2, <3>3, QuietStep
    <2>9. CASE DestroyFails(r)
      <3> DEFINE n == [q EXCEPT !.phase = "release"]
      <3>0. n \in Busy
        BY <2>2, ExceptBusy
      <3>1. n \in Busy /\ n.decides = q.decides /\ n.phase = "release"
        BY <2>2, <3>0 DEF Busy
      <3>2. Proceed(r, n, {}) /\ q.phase = "destroy"
        BY <2>9 DEF DestroyFails, q
      <3>3. q.decides
        BY <2>3, <3>2 DEF Follows
      <3> HIDE DEF n
      <3> QED BY <1>1, <3>1, <3>2, <3>3, QuietStep DEF Follows
    <2> QED BY <1>4, <2>4, <2>5, <2>6, <2>7, <2>8, <2>9
  <1> QED BY <1>3, <1>4

LEMMA BeginStep ==
    ASSUME SessionsInv, NEW r \in Handlers, Resume(r) \/ Open(r)
    PROVE  SessionsInv'
  <1>1. PICK s \in Sids, a \in User :
           /\ Proceed(r, [phase |-> "start", sid |-> s, auth |-> a, user |-> Null,
                       decides |-> FALSE, overtaken |-> FALSE], {})
           /\ issued' \subseteq Sids
    BY DEF Resume, Open, Begin, SessionsInv, SessionsTypeOK
  <1> DEFINE n == [phase |-> "start", sid |-> s, auth |-> a, user |-> Null,
                   decides |-> FALSE, overtaken |-> FALSE]
  <1>2. n \in Busy /\ n.phase = "start"
    BY DEF Busy, User
  <1>3. UNCHANGED <<clock, users, sessions, owner, disturbed>>
    BY DEF Resume, Open
  <1>4. Proceed(r, n, {})
    BY <1>1
  <1> HIDE DEF n
  <1>5. req' \in [Handlers -> Busy \cup {Idle}] /\ InStep'
    BY <1>2, <1>3, <1>4, StepKeeps DEF Follows
  <1>6. SessionsTypeOK'
    BY <1>1, <1>3, <1>5 DEF SessionsInv, SessionsTypeOK
  <1>7. UserIsOwner' /\ NoRowNoOwner'
    BY <1>3 DEF SessionsInv, UserIsOwner, NoRowNoOwner
  <1> QED BY <1>5, <1>6, <1>7 DEF SessionsInv

\* The row that Read inserts has no user, like a row that is not there.
LEMMA ReadStep ==
    ASSUME SessionsInv, NEW r \in Handlers, Read(r)
    PROVE  SessionsInv'
  <1> DEFINE q == req[r]
             s == q.sid
             row == sessions[s]
             new == [user |-> Null, created |-> clock]
             u == IF row # Null /\ IsValid(row) THEN row.user ELSE Null
             n == [q EXCEPT !.phase = "auth", !.user = u]
  <1>1. /\ q.phase = "start" /\ q # Idle
        /\ sessions' = IF row # Null THEN sessions ELSE [sessions EXCEPT ![s] = new]
        /\ Proceed(r, n, {})
        /\ UNCHANGED <<clock, users, issued, owner, disturbed>>
    BY IdleFacts DEF Read, UserRead
  <1>2. q \in Busy /\ s \in Sids /\ row \in Stored \cup {Null} /\ (row # Null => row \in Stored)
    BY <1>1, BusyFacts DEF SessionsInv
  <1>3. new \in Stored /\ new # Null /\ new.user = Null
    <2>1. new \in Stored
      BY DEF Stored, User, SessionsInv, SessionsTypeOK
    <2> QED BY <2>1, NullIsNoSession
  <1>4. u \in User /\ (u = UserIn(sessions, s) \/ u = Null)
    BY <1>2 DEF UserIn, User, Stored
  <1>5. \A x \in Sids : sessions'[x] = IF x = s /\ row = Null THEN new ELSE sessions[x]
    BY <1>1, <1>2 DEF SessionsInv, SessionsTypeOK
  <1> HIDE DEF new, u
  <1>6. n \in Busy
    BY <1>2, <1>4, ExceptBusy
  <1>7. n.phase = "auth" /\ n.user = u /\ n.sid = s
    BY <1>2, <1>6 DEF Busy
  <1> HIDE DEF n
  <1>8. \A x \in Sids : UserIn(sessions', x) = UserIn(sessions, x)
    BY <1>3, <1>5 DEF UserIn
  <1>9. req' \in [Handlers -> Busy \cup {Idle}] /\ InStep'
    <2>1. Follows(n, UserIn(sessions', n.sid))
      BY <1>2, <1>4, <1>7, <1>8 DEF Follows
    <2> QED BY <1>1, <1>6, <1>8, <2>1, StepKeeps
  <1>10. SessionsTypeOK'
    <2>1. sessions' \in [Sids -> Stored \cup {Null}]
      BY <1>1, <1>2, <1>3 DEF SessionsInv, SessionsTypeOK
    <2> QED BY <1>1, <1>9, <2>1 DEF SessionsInv, SessionsTypeOK
  <1>11. UserIsOwner' /\ NoRowNoOwner'
    BY <1>1, <1>2, <1>3, <1>5 DEF SessionsInv, UserIsOwner, NoRowNoOwner
  <1> QED BY <1>9, <1>10, <1>11 DEF SessionsInv

LEMMA ReleaseStep ==
    ASSUME SessionsInv, NEW r \in Handlers, Release(r)
    PROVE  SessionsInv'
  <1> DEFINE q == req[r]
             s == q.sid
             row == sessions[s]
             saved == Saved(row, q.user)
             now == IF row # Null /\ q.decides THEN q.user ELSE owner[s]
             S == IF row # Null /\ row.user # q.user THEN {s} ELSE {}
  <1>1. /\ q.phase = "release" /\ q # Idle
        /\ sessions' = [sessions EXCEPT ![s] = saved]
        /\ owner' = [owner EXCEPT ![s] = now]
        /\ disturbed' = IF row # Null /\ q.user = now THEN disturbed \ {s}
                        ELSE IF row # Null /\ q.overtaken THEN disturbed \cup {s}
                        ELSE disturbed
        /\ Proceed(r, Idle, S)
        /\ UNCHANGED <<clock, users, issued>>
    BY IdleFacts DEF Release
  <1>2. /\ q \in Busy /\ s \in Sids /\ q.user \in User /\ row \in Stored \cup {Null}
        /\ q.decides \in BOOLEAN /\ q.overtaken \in BOOLEAN
    BY <1>1, BusyFacts DEF SessionsInv
  <1>3. /\ row = Null => saved = Null
        /\ row # Null => saved \in Stored /\ saved # Null /\ saved.user = q.user
    <2>1. row # Null => saved \in Stored /\ saved.user = q.user
      BY <1>2 DEF Saved, Stored, SessionsInv, SessionsTypeOK
    <2> QED BY <2>1, NullIsNoSession DEF Saved
  <1>4. Follows(q, UserIn(sessions, s))
    BY DEF SessionsInv, InStep
  <1> HIDE DEF q, saved
  <1>5. \A x \in Sids : /\ sessions'[x] = IF x = s THEN saved ELSE sessions[x]
                        /\ owner'[x] = IF x = s THEN now ELSE owner[x]
    BY <1>1, <1>2 DEF SessionsInv, SessionsTypeOK
  <1>6. now \in User
    BY <1>2 DEF SessionsInv, SessionsTypeOK
  <1>7. req' \in [Handlers -> Busy \cup {Idle}] /\ InStep'
    <2>1. \A x \in Sids \ S : UserIn(sessions', x) = UserIn(sessions, x)
      BY <1>3, <1>5 DEF UserIn
    <2> QED BY <1>1, <2>1, StepKeeps
  <1>8. SessionsTypeOK'
    <2>1. sessions' \in [Sids -> Stored \cup {Null}] /\ owner' \in [Sids -> User]
          /\ disturbed' \subseteq Sids
      BY <1>1, <1>2, <1>3, <1>6 DEF SessionsInv, SessionsTypeOK
    <2> QED BY <1>1, <1>7, <2>1 DEF SessionsInv, SessionsTypeOK
  <1>9. NoRowNoOwner'
    BY <1>3, <1>5 DEF SessionsInv, NoRowNoOwner
  <1>10. UserIsOwner'
    <2>1. ASSUME NEW x \in Sids, sessions'[x] # Null, sessions'[x].user # owner'[x]
          PROVE  x \in disturbed'
      <3>1. CASE x # s
        <4>1. x \in disturbed
          BY <1>5, <2>1, <3>1 DEF SessionsInv, UserIsOwner
        <4> QED BY <1>1, <3>1, <4>1
      <3>2. CASE x = s
        <4>1. row # Null /\ q.user # now
          BY <1>3, <1>5, <2>1, <3>2
        <4>2. ~q.decides /\ now = owner[s]
          BY <4>1
        <4>3. CASE q.overtaken
          BY <1>1, <3>2, <4>1, <4>3
        <4>4. CASE ~q.overtaken
          <5>1. q.user = row.user
            BY <1>1, <1>4, <4>1, <4>2, <4>4 DEF Follows, UserIn
          <5>2. s \in disturbed
            BY <1>2, <4>1, <4>2, <5>1 DEF SessionsInv, UserIsOwner
          <5> QED BY <1>1, <3>2, <4>1, <5>2
        <4> QED BY <4>3, <4>4
      <3> QED BY <3>1, <3>2
    <2> QED BY <2>1 DEF UserIsOwner
  <1> QED BY <1>7, <1>8, <1>9, <1>10 DEF SessionsInv

\* What deleting rows does to the tables.
LEMMA RemoveFacts ==
    ASSUME SessionsInv, NEW S, Remove(S)
    PROVE  /\ sessions' \in [Sids -> Stored \cup {Null}] /\ owner' \in [Sids -> User]
           /\ disturbed' \subseteq Sids
           /\ UserIsOwner' /\ NoRowNoOwner'
           /\ \A s \in Sids : sessions'[s] = IF s \in S THEN Null ELSE sessions[s]
  <1>1. \A s \in Sids : /\ sessions'[s] = IF s \in S THEN Null ELSE sessions[s]
                        /\ owner'[s] = IF s \in S THEN Null ELSE owner[s]
    BY DEF Remove
  <1>2. sessions' \in [Sids -> Stored \cup {Null}] /\ owner' \in [Sids -> User]
        /\ disturbed' \subseteq Sids
    BY DEF Remove, SessionsInv, SessionsTypeOK, User
  <1>3. UserIsOwner' /\ NoRowNoOwner'
    BY <1>1 DEF Remove, SessionsInv, UserIsOwner, NoRowNoOwner
  <1> QED BY <1>1, <1>2, <1>3

LEMMA DestroyStep ==
    ASSUME SessionsInv, NEW r \in Handlers, Destroy(r)
    PROVE  SessionsInv'
  <1> DEFINE q == req[r]
             s == q.sid
             S == IF sessions[s] # Null THEN {s} ELSE {}
             n == [q EXCEPT !.phase = "release", !.decides = FALSE]
  <1>1. /\ q.phase = "destroy" /\ q # Idle /\ Remove({s}) /\ Proceed(r, n, S)
        /\ UNCHANGED <<clock, users, issued>>
    BY IdleFacts DEF Destroy
  <1>2. q \in Busy /\ s \in Sids
    BY <1>1, BusyFacts DEF SessionsInv
  <1>3. n \in Busy
    <2>1. FALSE \in BOOLEAN /\ Null \in User
      BY DEF User
    <2> QED BY <1>2, <2>1, ExceptBusy
  <1>4. n.phase = "release" /\ n.sid = s /\ n.user = q.user
    BY <1>2, <1>3 DEF Busy
  <1>5. q.user = Null
    BY <1>1 DEF SessionsInv, InStep, Follows
  <1> HIDE DEF n
  <1>6. req' \in [Handlers -> Busy \cup {Idle}] /\ InStep'
    <2>1. \A x \in Sids \ S : UserIn(sessions', x) = UserIn(sessions, x)
      BY <1>1, RemoveFacts DEF UserIn
    <2>2. Follows(n, UserIn(sessions', n.sid))
      BY <1>1, <1>2, <1>4, <1>5, RemoveFacts DEF Follows, UserIn
    <2> QED BY <1>1, <1>3, <2>1, <2>2, StepKeeps
  <1>7. SessionsTypeOK' /\ UserIsOwner' /\ NoRowNoOwner'
    BY <1>1, <1>6, RemoveFacts DEF SessionsInv, SessionsTypeOK
  <1> QED BY <1>6, <1>7 DEF SessionsInv

LEMMA GCStep ==
    ASSUME SessionsInv, GC
    PROVE  SessionsInv'
  <1>1. PICK S : /\ Remove(S) /\ req' = [x \in Handlers |-> Overtake(req[x], S)]
                 /\ UNCHANGED <<clock, users, issued>>
    BY DEF GC
  <1>2. \A x \in Sids \ S : UserIn(sessions', x) = UserIn(sessions, x)
    BY <1>1, RemoveFacts DEF UserIn
  <1>3. req' \in [Handlers -> Busy \cup {Idle}] /\ InStep'
    BY <1>1, <1>2, OvertakeKeeps
  <1>4. SessionsTypeOK' /\ UserIsOwner' /\ NoRowNoOwner'
    BY <1>1, <1>3, RemoveFacts DEF SessionsInv, SessionsTypeOK
  <1> QED BY <1>3, <1>4 DEF SessionsInv

\* The commands on accounts and the time touch no session.
LEMMA OtherSteps ==
    ASSUME SessionsInv, Tick \/ (\E n \in Names : Accounts(n)) \/ UNCHANGED sessionVars
    PROVE  SessionsInv'
  <1>1. UNCHANGED <<sessions, issued, req, owner, disturbed>>
    BY DEF Tick, Accounts, AddUser, ChangePassword, LockAccount, DeleteUser, Becomes, sessionVars
  <1>2. clock' \in Times
    BY SessionsAssumption DEF Tick, Accounts, AddUser, ChangePassword, LockAccount, DeleteUser,
       Becomes, sessionVars, SessionsInv, SessionsTypeOK, Times
  <1>3. users' \in [Names -> {"absent", "active", "locked"}]
    BY DEF Tick, Accounts, AddUser, ChangePassword, LockAccount, DeleteUser,
       Becomes, sessionVars, SessionsInv, SessionsTypeOK
  <1>4. SessionsTypeOK'
    BY <1>1, <1>2, <1>3 DEF SessionsInv, SessionsTypeOK
  <1>5. UserIsOwner' /\ NoRowNoOwner' /\ InStep'
    BY <1>1 DEF SessionsInv, UserIsOwner, NoRowNoOwner, InStep
  <1> QED BY <1>4, <1>5 DEF SessionsInv

-----------------------------------------------------------------------------

LEMMA SessionsInvHolds == SessionsSpec => []SessionsInv
  <1>1. SessionsInit => SessionsInv
    <2> SUFFICES ASSUME SessionsInit PROVE SessionsInv
      OBVIOUS
    <2>1. SessionsTypeOK
      BY SessionsAssumption DEF SessionsInit, SessionsTypeOK, Times, User
    <2>2. UserIsOwner /\ NoRowNoOwner /\ InStep
      BY IdleFacts DEF SessionsInit, UserIsOwner, NoRowNoOwner, InStep, Follows
    <2> QED BY <2>1, <2>2 DEF SessionsInv
  <1>2. SessionsInv /\ [SessionsNext]_sessionVars => SessionsInv'
    <2> SUFFICES ASSUME SessionsInv, [SessionsNext]_sessionVars PROVE SessionsInv'
      OBVIOUS
    <2>1. ASSUME NEW r \in Handlers, Step(r) PROVE SessionsInv'
      BY <2>1, InMemorySteps, BeginStep, ReadStep, ReleaseStep, DestroyStep DEF Step
    <2>2. CASE GC
      BY <2>2, GCStep
    <2>3. CASE Tick \/ (\E n \in Names : Accounts(n)) \/ UNCHANGED sessionVars
      BY <2>3, OtherSteps
    <2> QED BY <2>1, <2>2, <2>3 DEF SessionsNext
  <1> QED BY <1>1, <1>2, PTL DEF SessionsSpec

\* Accounts, sessions and requests keep their shapes while requests of one session read and
\* write it back (service/sessions.go:77, :136).
THEOREM SessionsTypeCorrect == SessionsSpec => []SessionsTypeOK
  <1>1. SessionsInv => SessionsTypeOK
    BY DEF SessionsInv
  <1> QED BY <1>1, SessionsInvHolds, PTL

\* Only a request that was overtaken gives a session another user than its logins and
\* logouts do (service/sessions.go:77, Release).
THEOREM OwnersKept == SessionsSpec => []UserIsOwner
  <1>1. SessionsInv => UserIsOwner
    BY DEF SessionsInv
  <1> QED BY <1>1, SessionsInvHolds, PTL

-----------------------------------------------------------------------------

\* Others being told changes nothing of what they hold.
LEMMA GoOnHolds ==
    ASSUME SessionsTypeOK, NEW r \in Handlers, NEW q, NEW S, Proceed(r, q, S), NEW n \in Names,
           \A s \in Sids : sessions'[s] # Null /\ sessions'[s].user = n => s \in Holds(n),
           q = Idle \/ (q.sid \in Holds(n)) \/ (q.user # n /\ ~(q.phase = "verify" /\ q.auth = n))
    PROVE  Holds(n)' \subseteq Holds(n)
  <1>1. SUFFICES ASSUME NEW s \in Sids, NEW x \in Handlers, req'[x] # Idle, req'[x].sid = s,
                        req'[x].user = n \/ (req'[x].phase = "verify" /\ req'[x].auth = n)
                 PROVE  s \in Holds(n)
    BY DEF Holds
  <1>2. CASE x = r
    <2>1. req'[x] = q
      BY <1>2 DEF Proceed
    <2> QED BY <1>1, <2>1
  <1>3. CASE x # r
    <2>1. req'[x] = Overtake(req[x], S) /\ req[x] \in Busy \cup {Idle}
      BY <1>3 DEF Proceed, SessionsTypeOK
    <2>2. /\ req[x] # Idle /\ req[x].sid = s
          /\ req[x].user = n \/ (req[x].phase = "verify" /\ req[x].auth = n)
      BY <1>1, <2>1, OvertakeFacts
    <2> QED BY <2>2 DEF Holds
  <1> QED BY <1>2, <1>3

\* A request only logs in as a user whose account it has loaded.
LEMMA StepHolds ==
    ASSUME SessionsTypeOK, NEW r \in Handlers, Step(r), NEW n \in Names, users[n] # "active"
    PROVE  Holds(n)' \subseteq Holds(n)
  <1> DEFINE q == req[r]
  <1>1. n # Null /\ n \in User
    BY SessionsAssumption DEF User
  <1>2. (q # Idle /\ (q.user = n \/ (q.phase = "verify" /\ q.auth = n))) => q.sid \in Holds(n)
    BY BusyFacts DEF Holds
  <1>3. q # Idle => q \in Busy
    BY BusyFacts
  <1>4. CASE Resume(r) \/ Open(r)
    <2>1. PICK s \in Sids, a \in User :
             Proceed(r, [phase |-> "start", sid |-> s, auth |-> a, user |-> Null,
                      decides |-> FALSE, overtaken |-> FALSE], {})
      BY <1>4 DEF Resume, Open, Begin, SessionsTypeOK
    <2>2. sessions' = sessions
      BY <1>4 DEF Resume, Open
    <2>3. \A s2 \in Sids : sessions'[s2] # Null /\ sessions'[s2].user = n => s2 \in Holds(n)
      BY <2>2 DEF Holds
    <2> QED BY <1>1, <2>1, <2>3, GoOnHolds
  <1>5. CASE Read(r)
    <2> DEFINE s == q.sid
               row == sessions[s]
               u == IF row # Null /\ IsValid(row) THEN row.user ELSE Null
               m == [q EXCEPT !.phase = "auth", !.user = u]
    <2>1. /\ q # Idle /\ Proceed(r, m, {})
          /\ sessions' = IF row # Null THEN sessions
                         ELSE [sessions EXCEPT ![s] = [user |-> Null, created |-> clock]]
      BY <1>5, IdleFacts DEF Read, UserRead
    <2>2. q \in Busy /\ s \in Sids /\ m.phase = "auth" /\ m.user = u /\ m.sid = s
      BY <2>1, BusyFacts DEF Busy
    <2>3. u = n => s \in Holds(n)
      BY <1>1, <2>2 DEF Holds
    <2>4. \A x \in Sids : sessions'[x] # Null /\ sessions'[x].user = n => x \in Holds(n)
      BY <1>1, <2>1, <2>2 DEF Holds, SessionsTypeOK
    <2> HIDE DEF m, u
    <2> QED BY <2>1, <2>2, <2>3, <2>4, GoOnHolds
  <1>6. CASE Release(r)
    <2> DEFINE s == q.sid
               row == sessions[s]
    <2>1. /\ q # Idle /\ sessions' = [sessions EXCEPT ![s] = Saved(row, q.user)]
          /\ Proceed(r, Idle, IF row # Null /\ row.user # q.user THEN {s} ELSE {})
      BY <1>6, IdleFacts DEF Release
    <2>2. Saved(row, q.user) # Null => Saved(row, q.user).user = q.user
      BY DEF Saved
    <2>3. \A x \in Sids : sessions'[x] # Null /\ sessions'[x].user = n => x \in Holds(n)
      BY <1>2, <2>1, <2>2 DEF Holds, SessionsTypeOK
    <2> QED BY <2>1, <2>3, GoOnHolds
  <1>7. CASE Destroy(r)
    <2> DEFINE m == [q EXCEPT !.phase = "release", !.decides = FALSE]
    <2>1. /\ q # Idle /\ Remove({q.sid})
          /\ Proceed(r, m, IF sessions[q.sid] # Null THEN {q.sid} ELSE {})
      BY <1>7, IdleFacts DEF Destroy
    <2>2. m.phase = "release" /\ m.sid = q.sid /\ m.user = q.user
      BY <1>3, <2>1 DEF Busy
    <2>3. \A x \in Sids : sessions'[x] # Null /\ sessions'[x].user = n => x \in Holds(n)
      BY <2>1 DEF Remove, Holds
    <2> HIDE DEF m
    <2> QED BY <1>2, <2>1, <2>2, <2>3, GoOnHolds
  <1>8. CASE \/ Abort(r) \/ PassOn(r) \/ LoadAccount(r) \/ LogIn(r) \/ Refuse(r) \/ Handle(r)
             \/ LogOut(r) \/ DestroyFails(r)
    <2>1. sessions' = sessions
      BY <1>8 DEF Abort, PassOn, LoadAccount, LogIn, Refuse, Handle, LogOut, DestroyFails
    <2>2. \A x \in Sids : sessions'[x] # Null /\ sessions'[x].user = n => x \in Holds(n)
      BY <2>1 DEF Holds
    <2>3. CASE Abort(r)
      BY <2>2, <2>3, GoOnHolds DEF Abort
    <2>4. CASE PassOn(r) \/ Handle(r) \/ DestroyFails(r)
      <3>1. PICK m : /\ Proceed(r, m, {}) /\ m.sid = q.sid /\ m.user = q.user
                     /\ m.phase \in {"handle", "release"} /\ q # Idle
        BY <1>3, <2>4, IdleFacts DEF PassOn, Handle, DestroyFails, Busy
      <3> QED BY <1>2, <2>2, <3>1, GoOnHolds
    <2>5. CASE LoadAccount(r)
      <3> DEFINE m == [q EXCEPT !.phase = "verify"]
      <3>1. Proceed(r, m, {}) /\ q # Idle /\ q.auth # n
        BY <2>5, IdleFacts DEF LoadAccount, MayLogIn
      <3>2. m.sid = q.sid /\ m.user = q.user /\ m.auth = q.auth
        BY <1>3, <3>1 DEF Busy
      <3> HIDE DEF m
      <3> QED BY <1>2, <2>2, <3>1, <3>2, GoOnHolds
    <2>6. CASE LogIn(r)
      <3> DEFINE m == [q EXCEPT !.phase = "handle", !.user = q.auth, !.decides = TRUE]
      <3>1. Proceed(r, m, {}) /\ q # Idle /\ q.phase = "verify"
        BY <2>6, IdleFacts DEF LogIn
      <3>2. m.sid = q.sid /\ m.user = q.auth /\ m.phase = "handle"
        BY <1>3, <3>1 DEF Busy
      <3> HIDE DEF m
      <3> QED BY <1>2, <2>2, <3>1, <3>2, GoOnHolds
    <2>7. CASE Refuse(r) \/ LogOut(r)
      <3>1. PICK m : Proceed(r, m, {}) /\ m.user = Null /\ m.phase = "destroy"
        <4>1. Proceed(r, Flushed(q), {}) /\ q # Idle
          BY <2>7, IdleFacts DEF Refuse, LogOut
        <4>2. Flushed(q).user = Null /\ Flushed(q).phase = "destroy"
          BY <1>3, <4>1 DEF Flushed, Busy
        <4> QED BY <4>1, <4>2
      <3> QED BY <1>1, <2>2, <3>1, GoOnHolds
    <2> QED BY <1>8, <2>3, <2>4, <2>5, <2>6, <2>7
  <1> QED BY <1>4, <1>5, <1>6, <1>7, <1>8 DEF Step

\* While an account is locked or gone, its user gets into no further session
\* (service/users.go:60, server/middlewares.go:111).
THEOREM LockedStayOut == SessionsSpec => LockedGainsNothing
  <1>1. ASSUME SessionsTypeOK, [SessionsNext]_sessionVars, NEW n \in Names, users[n] # "active"
        PROVE  Holds(n)' \subseteq Holds(n)
    <2>1. ASSUME NEW r \in Handlers, Step(r) PROVE Holds(n)' \subseteq Holds(n)
      BY <1>1, <2>1, StepHolds
    <2>2. CASE GC
      <3>1. SUFFICES ASSUME NEW s \in Sids, s \in Holds(n)' PROVE s \in Holds(n)
        BY DEF Holds
      <3>2. PICK S : /\ Remove(S) /\ \A x \in Handlers : req'[x] = Overtake(req[x], S)
        BY <2>2 DEF GC
      <3>3. CASE sessions'[s] # Null /\ sessions'[s].user = n
        BY <3>2, <3>3 DEF Remove, Holds
      <3>4. ASSUME NEW x \in Handlers, req'[x] # Idle, req'[x].sid = s,
                   req'[x].user = n \/ (req'[x].phase = "verify" /\ req'[x].auth = n)
            PROVE  s \in Holds(n)
        <4>1. req[x] \in Busy \cup {Idle}
          BY <1>1 DEF SessionsTypeOK
        <4>2. /\ req[x] # Idle /\ req[x].sid = s
              /\ req[x].user = n \/ (req[x].phase = "verify" /\ req[x].auth = n)
          BY <3>2, <3>4, <4>1, OvertakeFacts
        <4> QED BY <4>2 DEF Holds
      <3> QED BY <3>1, <3>3, <3>4 DEF Holds
    <2>3. CASE Tick \/ (\E m \in Names : Accounts(m)) \/ UNCHANGED sessionVars
      <3>1. sessions' = sessions /\ req' = req
        BY <2>3 DEF Tick, Accounts, AddUser, ChangePassword, LockAccount, DeleteUser, Becomes,
                    sessionVars
      <3> QED BY <3>1 DEF Holds
    <2> QED BY <1>1, <2>1, <2>2, <2>3 DEF SessionsNext
  <1>2. SessionsTypeOK /\ [SessionsNext]_sessionVars =>
           [\A n \in Names : users[n] # "active" => Holds(n)' \subseteq Holds(n)]_sessionVars
    BY <1>1
  <1> QED BY <1>2, SessionsTypeCorrect, PTL DEF SessionsSpec, LockedGainsNothing

-----------------------------------------------------------------------------
\* Server.

\* The pool.
PoolInv == NoConnectionKept

\* The database is closed last, and after the requests unless the wait was cut short.
StopInv ==
    /\ db = "closed" => phase \in {"exiting", "over"}
    /\ phase \in {"closing", "exiting"} => late \/ \A r \in Requests : ~Running(r)

\* What is known of a request at each place: the cause c of its failure, what it wrote, its error
\* e, its kind of handler k, its status s, and the driver d of the database.
Known == {"asking", "opening", "reading", "writing", "closing", "answer"}

OutcomeOf(place, c, w, e, k, s, d) ==
    /\ place = "new" => s = 0
    /\ place \in Known => s = IF k = "form" THEN 400 ELSE 0
    /\ place \in {"new", "asking", "opening", "reading", "writing"} =>
          c = None /\ w = "nothing"
    /\ place = "writing" => k # "page"
    /\ place \in {"closing", "answer"} =>
          /\ c = None => w \in {"nothing", "kept"}
          /\ c # None => w # "kept" /\ StatusOf(e) = StatusOfCause(c)
          /\ k = "page" => w = "nothing"
    /\ w = "unheard" => d = "pg" /\ c = "database"
    /\ place = "done" =>
          /\ s = 200 /\ k # "password" => w \in {"nothing", "kept"}
          /\ s # 200 /\ w = "kept" => k = "form"
          /\ c # None /\ k = "plain" => s = StatusOfCause(c)
          /\ c # None /\ k = "page" => s = 404 /\ w = "nothing"
          /\ c # None /\ k = "form" => s = 400
          /\ c # None /\ k = "password" => s = 200

OutcomeInv ==
    \A r \in Requests :
        OutcomeOf(at[r], cause[r], wrote[r], err[r], handler[r], status[r], conf.driver)

\* Who can panic.
PanicInv ==
    /\ phase = "build" => conf.auth # ""
    /\ phase \in {"init", "config", "build", "listen", "mgmt", "running"} => exit # "panic"
    /\ phase \in {"init", "config", "build", "listen"} => \A r \in Requests : at[r] = "new"
    /\ phase = "init" => db = "none"
    /\ phase \in {"init", "config", "build", "listen", "mgmt"} => \A t \in Tasks : at[t] = "off"
    /\ phase \in {"stopping", "closing", "exiting"} =>
          signalled \/ \A t \in Tasks : at[t] = "off"
    /\ PanicsExplained

ServerInv == TypeOK /\ PoolInv /\ StopInv /\ OutcomeInv /\ PanicInv

-----------------------------------------------------------------------------
\* Errors.

LEMMA ErrorsTyped ==
    /\ NoError \in Error /\ ErrDatabase \in Error
    /\ \A e1 \in Error, e2 \in Error : ApplyFor(e1, e2) \in Error /\ Join(e1, e2) \in Error
    /\ \A c \in Causes : ErrorOf(c) \in Error
    /\ \A e \in Error : Wrapped(e) \in Error
  <1>1. NoError \in Error /\ ErrDatabase \in Error
    BY DEF NoError, ErrDatabase, Error, Tags
  <1>2. \A e1 \in Error, e2 \in Error : ApplyFor(e1, e2) \in Error /\ Join(e1, e2) \in Error
    BY DEF ApplyFor, Join, Error
  <1>3. \A c \in Causes : ErrorOf(c) \in Error
    BY DEF ErrorOf, Error, Tags, Causes
  <1>4. \A e \in Error : Wrapped(e) \in Error
    BY <1>1, <1>2 DEF Wrapped
  <1>5. QED
    BY <1>1, <1>2, <1>3, <1>4

\* The status of each failure, however it was wrapped.
LEMMA StatusOfFailures ==
    /\ \A c \in Causes : StatusOf(Wrapped(ErrorOf(c))) = StatusOfCause(c)
    /\ StatusOf(ApplyFor(ErrDatabase, NoError)) = StatusOfCause("database")
    /\ StatusOf(ApplyFor(ErrDatabase, ErrDatabase)) = StatusOfCause("database")
    /\ StatusOf(ApplyFor(ErrDatabase, ApplyFor(ErrDatabase, NoError))) = StatusOfCause("database")
    /\ StatusOf(Join(NoError, ApplyFor(ErrDatabase, NoError))) = StatusOfCause("rollback")
  <1>1. ASSUME NEW c \in Causes
        PROVE  StatusOf(Wrapped(ErrorOf(c))) = StatusOfCause(c)
    <2>1. Wrapped(ErrorOf(c)).is = {c} \cap {"unknown device"}
      BY DEF Wrapped, ErrorOf, ApplyFor, NoError
    <2>2. Wrapped(ErrorOf(c)).tags = {IF c = "database" THEN "internal" ELSE "validation"}
      BY DEF Wrapped, ErrorOf, ApplyFor, NoError
    <2>3. CASE c = "unknown device"
      BY <2>1, <2>3 DEF StatusOf, HasTag, Is, StatusOfCause
    <2>4. CASE c = "invalid"
      BY <2>1, <2>2, <2>4 DEF StatusOf, HasTag, Is, StatusOfCause
    <2>5. CASE c = "database"
      BY <2>1, <2>2, <2>5 DEF StatusOf, HasTag, Is, StatusOfCause
    <2>6. QED
      BY <2>3, <2>4, <2>5 DEF Causes
  <1>2. \A e : e.is = {} /\ e.tags = {"internal"} => StatusOf(e) = 500
    BY DEF StatusOf, HasTag, Is
  <1>3. \A e : e.is = {} /\ e.tags = {} => StatusOf(e) = 500
    BY DEF StatusOf, HasTag, Is
  <1>4. StatusOfCause("database") = 500 /\ StatusOfCause("rollback") = 500
    BY DEF StatusOfCause
  <1>5. /\ ApplyFor(ErrDatabase, NoError).is = {}
        /\ ApplyFor(ErrDatabase, NoError).tags = {"internal"}
    BY DEF ApplyFor, ErrDatabase, NoError
  <1>6. /\ ApplyFor(ErrDatabase, ErrDatabase).is = {}
        /\ ApplyFor(ErrDatabase, ErrDatabase).tags = {"internal"}
    BY DEF ApplyFor, ErrDatabase
  <1>7. /\ ApplyFor(ErrDatabase, ApplyFor(ErrDatabase, NoError)).is = {}
        /\ ApplyFor(ErrDatabase, ApplyFor(ErrDatabase, NoError)).tags = {"internal"}
    BY DEF ApplyFor, ErrDatabase, NoError
  <1>8. /\ Join(NoError, ApplyFor(ErrDatabase, NoError)).is = {}
        /\ Join(NoError, ApplyFor(ErrDatabase, NoError)).tags = {}
    BY DEF Join, ApplyFor, ErrDatabase, NoError
  <1>9. QED
    BY <1>1, <1>2, <1>3, <1>4, <1>5, <1>6, <1>7, <1>8

\* Every error has a status that says so, but for the page of the password.
LEMMA StatusTyped ==
    \A e : StatusOf(e) \in {400, 404, 500} /\ \A k : StatusBy(k, e) \in {200, 400, 404, 500}
  BY DEF StatusOf, StatusBy, HasTag, Is

\* Only the first status counts.
LEMMA WriteFacts ==
    ASSUME TypeOK, NEW r \in Requests, NEW code, Write(r, code)
    PROVE  /\ \A x \in Requests \ {r} : status'[x] = status[x]
           /\ status'[r] = IF status[r] = 0 THEN code ELSE status[r]
           /\ code \in {200, 400, 404, 500} =>
                 status' \in [Requests -> {0, 200, 400, 404, 500}]
  BY DEF TypeOK, Write

LEMMA StatusOfCauseTyped == \A c : StatusOfCause(c) \in {400, 404, 500}
  BY DEF StatusOfCause

-----------------------------------------------------------------------------
\* Types.

\* The defaults fill in the method and leave the driver and the web root alone.
LEMMA DefaultsFacts ==
    ASSUME NEW c \in Conf
    PROVE  /\ WithDefaults(c).auth # "" /\ WithDefaults(c).driver = c.driver
           /\ WithDefaults(c).connstr = c.connstr
  <1>1. c.auth \in {"", "basic", "proxy", "other"} /\ c = [c EXCEPT !.store = c.store]
    BY DEF Conf
  <1> DEFINE d == [c EXCEPT !.store = IF @ = "" THEN "db" ELSE @]
  <1>2. d \in Conf /\ d.driver = c.driver /\ d.connstr = c.connstr
    BY DEF Conf, d
  <1>3. WithDefaults(c) = [d EXCEPT !.auth = IF @ = "" THEN "basic" ELSE @]
    BY DEF WithDefaults, d
  <1> HIDE DEF d
  <1>4. WithDefaults(c).auth = IF d.auth = "" THEN "basic" ELSE d.auth
    BY <1>2, <1>3 DEF Conf
  <1>5. WithDefaults(c).driver = d.driver /\ WithDefaults(c).connstr = d.connstr
    BY <1>2, <1>3 DEF Conf
  <1>6. QED
    BY <1>2, <1>4, <1>5

LEMMA DefaultsTyped ==
    ASSUME NEW c \in Conf
    PROVE  WithDefaults(c) \in Conf
  <1> DEFINE d == [c EXCEPT !.store = IF @ = "" THEN "db" ELSE @]
  <1>1. d \in Conf
    BY DEF Conf, d
  <1>2. WithDefaults(c) = [d EXCEPT !.auth = IF @ = "" THEN "basic" ELSE @]
    BY DEF WithDefaults, d
  <1> HIDE DEF d
  <1>3. [d EXCEPT !.auth = IF @ = "" THEN "basic" ELSE @] \in Conf
    BY <1>1 DEF Conf
  <1> QED BY <1>2, <1>3

\* What a failure writes down has its type.
LEMMA FailedTyped ==
    ASSUME TypeOK, NEW a \in Actors, NEW e \in Error, NEW c \in Causes \cup {"rollback"},
           Failed(a, e, c)
    PROVE  err' \in [Requests -> Error] /\ cause' \in [Requests -> Causes \cup {None, "rollback"}]
  BY DEF TypeOK, Failed, Actors

\* The place of a request or a task.
LEMMA PlaceTyped ==
    ASSUME TypeOK, NEW a \in Actors, NEW place, GoTo(a, place),
           a \in Requests => place \in RequestPlaces, a \in Tasks => place \in TaskPlaces
    PROVE  /\ at' \in [Actors -> RequestPlaces \cup TaskPlaces]
           /\ \A r \in Requests : at'[r] \in RequestPlaces
           /\ \A t \in Tasks : at'[t] \in TaskPlaces
  BY DEF TypeOK, GoTo, Actors

LEMMA AfterTyped ==
    ASSUME NEW a \in Actors
    PROVE  /\ a \in Requests => After(a) \in RequestPlaces
           /\ a \in Tasks => After(a) \in TaskPlaces
  BY ServerAssumption DEF After, Actors, RequestPlaces, TaskPlaces

LEMMA GoOnTyped ==
    ASSUME TypeOK, NEW a \in Actors, GoOn(a)
    PROVE  /\ at' \in [Actors -> RequestPlaces \cup TaskPlaces]
           /\ \A r \in Requests : at'[r] \in RequestPlaces
           /\ \A t \in Tasks : at'[t] \in TaskPlaces
  <1>1. "asking" \in RequestPlaces /\ "asking" \in TaskPlaces
    BY DEF RequestPlaces, TaskPlaces
  <1>2. CASE GoTo(a, After(a))
    BY <1>2, PlaceTyped, AfterTyped
  <1>3. CASE GoTo(a, "asking")
    BY <1>1, <1>3, PlaceTyped
  <1>4. QED
    BY <1>2, <1>3 DEF GoOn

Outcomes == {"nothing", "kept", "dropped", "unheard"}

LEMMA TellTyped ==
    ASSUME TypeOK, NEW a \in Actors, NEW what \in Outcomes, Tell(a, what)
    PROVE  wrote' \in [Requests -> Outcomes]
  BY DEF TypeOK, Tell, Actors, Outcomes

\* The parts of the type invariant that calls leave alone, and those of the process.
ProcessTyped ==
    /\ conf \in Conf /\ phase \in Phases /\ exit \in Exits \cup {None}
    /\ signalled \in BOOLEAN /\ late \in BOOLEAN /\ db \in {"none", "open", "closed"}

CallsTyped ==
    /\ at \in [Actors -> RequestPlaces \cup TaskPlaces]
    /\ \A r \in Requests : at[r] \in RequestPlaces
    /\ \A t \in Tasks : at[t] \in TaskPlaces
    /\ gone \subseteq Requests /\ held \subseteq Actors /\ lost \in 0 .. MaxOpen
    /\ err \in [Requests -> Error] /\ cause \in [Requests -> Causes \cup {None, "rollback"}]
    /\ wrote \in [Requests -> Outcomes] /\ handler \in [Requests -> Kinds]
    /\ status \in [Requests -> {0, 200, 400, 404, 500}]

LEMMA TypeParts ==
    /\ TypeOK <=> ProcessTyped /\ CallsTyped
    /\ TypeOK' <=> ProcessTyped' /\ CallsTyped'
  BY DEF TypeOK, ProcessTyped, CallsTyped, Outcomes

LEMMA InitTyped == Init => TypeOK
  <1>1. SUFFICES ASSUME Init PROVE TypeOK
    OBVIOUS
  <1>2. conf \in Conf /\ handler \in [Requests -> Kinds]
    BY <1>1, StartsAssumption DEF Init
  <1>3. lost \in 0 .. MaxOpen
    BY <1>1, ServerAssumption DEF Init
  <1>4. /\ at \in [Actors -> RequestPlaces \cup TaskPlaces]
        /\ \A r \in Requests : at[r] \in RequestPlaces
        /\ \A t \in Tasks : at[t] \in TaskPlaces
    BY <1>1, ServerAssumption DEF Init, Actors, RequestPlaces, TaskPlaces
  <1>5. err \in [Requests -> Error]
    BY <1>1, ErrorsTyped DEF Init
  <1>6. QED
    BY <1>1, <1>2, <1>3, <1>4, <1>5 DEF Init, TypeOK, Phases

LEMMA HeldFinite ==
    ASSUME TypeOK
    PROVE  IsFiniteSet(Actors) /\ IsFiniteSet(held) /\ Cardinality(held) \in Nat
  <1>1. IsFiniteSet(Actors)
    BY ServerAssumption, FS_Union DEF Actors
  <1>2. held \in SUBSET Actors
    BY DEF TypeOK
  <1>3. IsFiniteSet(held)
    BY <1>1, <1>2, FS_Subset
  <1>4. QED
    BY <1>1, <1>3, FS_CardinalityType

\* A connection that is lost was held.
LEMMA LostTyped ==
    ASSUME TypeOK, PoolInv, NEW a \in Actors, at[a] \in InCall, lost' = lost + 1
    PROVE  lost' \in 0 .. MaxOpen
  <1>1. IsFiniteSet(held)
    BY HeldFinite
  <1>2. Cardinality(held) \in Nat /\ Cardinality(held) # 0
    BY <1>1, FS_CardinalityType, FS_EmptySet DEF PoolInv, NoConnectionKept
  <1>3. QED
    BY <1>2, ServerAssumption DEF TypeOK, PoolInv, NoConnectionKept, Used

\* The steps of the process.
LEMMA ProcessSteps ==
    ASSUME TypeOK, Boot \/ Signal \/ Stop
    PROVE  TypeOK'
  <1>0. ProcessTyped /\ CallsTyped
    BY TypeParts
  <1>1. CASE OpenDatabase
    BY <1>0, <1>1, TypeParts
      DEF OpenDatabase, Die, ProcessTyped, CallsTyped, calls, Phases, Exits
  <1>2. CASE Validate
    BY <1>0, <1>2, TypeParts, DefaultsTyped
      DEF Validate, Leave, ProcessTyped, CallsTyped, calls, Phases, Exits
  <1>3. CASE Build
    BY <1>0, <1>3, TypeParts DEF Build, Leave, ProcessTyped, CallsTyped, calls, Phases, Exits
  <1>4. CASE Listen
    BY <1>0, <1>4, TypeParts DEF Listen, Die, ListenFails, ProcessTyped, CallsTyped, calls,
        Phases, Exits
  <1>5. CASE StartTasks
    <2>1. /\ at' \in [Actors -> RequestPlaces \cup TaskPlaces]
          /\ \A r \in Requests : at'[r] \in RequestPlaces
          /\ \A t \in Tasks : at'[t] \in TaskPlaces
      BY <1>0, <1>5, ServerAssumption DEF StartTasks, CallsTyped, Actors, TaskPlaces
    <2>2. CallsTyped'
      BY <1>0, <1>5, <2>1 DEF StartTasks, CallsTyped
    <2>3. ProcessTyped'
      BY <1>0, <1>5 DEF StartTasks, Die, ListenFails, ProcessTyped, Phases, Exits
    <2>4. QED
      BY <2>2, <2>3, TypeParts
  <1>6. CASE Signal
    BY <1>0, <1>6, TypeParts DEF Signal, ProcessTyped, CallsTyped, calls
  <1>7. CASE Stop
    <2>1. UNCHANGED calls /\ conf' = conf /\ signalled' = signalled
      BY <1>7 DEF Stop, Return, HttpStopped, HttpTimeout, CloseDatabase, Exit
    <2>2. phase' \in Phases /\ exit' \in Exits \cup {None}
      BY <1>0, <1>7 DEF Stop, Return, HttpStopped, HttpTimeout, CloseDatabase, Exit, Leave,
                        ProcessTyped, Phases, Exits
    <2>3. late' \in BOOLEAN /\ db' \in {"none", "open", "closed"}
      BY <1>0, <1>7 DEF Stop, Return, HttpStopped, HttpTimeout, CloseDatabase, Exit, ProcessTyped
    <2>4. QED
      BY <1>0, <2>1, <2>2, <2>3, TypeParts DEF ProcessTyped, CallsTyped, calls
  <1>8. QED
    BY <1>1, <1>2, <1>3, <1>4, <1>5, <1>6, <1>7 DEF Boot

\* The steps of a request or task that has no connection.
LEMMA OutsideSteps ==
    ASSUME TypeOK, NEW a \in Actors,
           \/ a \in Requests /\ (Arrive(a) \/ Disconnect(a) \/ Answer(a))
           \/ a \in Tasks /\ (Wake(a) \/ Finish(a))
           \/ Connect(a) \/ ConnectFails(a) \/ ConnectPanics(a)
    PROVE  TypeOK'
  <1>0. ProcessTyped /\ CallsTyped
    BY TypeParts
  <1>1. ASSUME NEW place, GoTo(a, place), UNCHANGED <<process, err, cause, wrote, lost>>,
               handler' = handler, status' \in [Requests -> {0, 200, 400, 404, 500}],
               gone' \subseteq Requests, held' \subseteq Actors,
               a \in Requests => place \in RequestPlaces, a \in Tasks => place \in TaskPlaces
        PROVE  TypeOK'
    BY <1>0, <1>1, PlaceTyped, TypeParts DEF CallsTyped, ProcessTyped, process
  <1>2. CASE a \in Requests /\ Arrive(a)
    <2>1. status' \in [Requests -> {0, 200, 400, 404, 500}]
      BY <1>0, <1>2, WriteFacts DEF Arrive, CallsTyped
    <2>2. QED
      BY <1>0, <1>1, <1>2, <2>1, ServerAssumption DEF Arrive, CallsTyped, RequestPlaces
  <1>3. CASE a \in Requests /\ Disconnect(a)
    BY <1>0, <1>3, TypeParts DEF Disconnect, CallsTyped, ProcessTyped, process
  <1>4. CASE a \in Requests /\ Answer(a)
    <2>1. /\ at' \in [Actors -> RequestPlaces \cup TaskPlaces]
          /\ \A r \in Requests : at'[r] \in RequestPlaces
          /\ \A t \in Tasks : at'[t] \in TaskPlaces
      BY <1>4, PlaceTyped, ServerAssumption DEF Answer, RequestPlaces
    <2>2. status' \in [Requests -> {0, 200, 400, 404, 500}]
      BY <1>0, <1>4, StatusTyped, WriteFacts DEF Answer
    <2>3. err' \in [Requests -> Error] /\ gone' \subseteq Requests
      BY <1>0, <1>4, ErrorsTyped DEF Answer, CallsTyped
    <2>4. QED
      BY <1>0, <1>4, <2>1, <2>2, <2>3, TypeParts DEF Answer, CallsTyped, ProcessTyped, process
  <1>5. CASE a \in Tasks /\ Wake(a)
    BY <1>0, <1>1, <1>5, ServerAssumption DEF Wake, CallsTyped, TaskPlaces
  <1>6. CASE a \in Tasks /\ Finish(a)
    BY <1>0, <1>1, <1>6, ServerAssumption DEF Finish, CallsTyped, TaskPlaces
  <1>7. CASE Connect(a)
    BY <1>0, <1>1, <1>7 DEF Connect, CallsTyped, RequestPlaces, TaskPlaces, InCall
  <1>8. CASE ConnectFails(a)
    <2>1. ApplyFor(ErrDatabase, ErrDatabase) \in Error
      BY ErrorsTyped
    <2>2. err' \in [Requests -> Error] /\ cause' \in [Requests -> Causes \cup {None, "rollback"}]
      BY <1>8, <2>1, FailedTyped DEF ConnectFails, Causes
    <2>3. /\ at' \in [Actors -> RequestPlaces \cup TaskPlaces]
          /\ \A r \in Requests : at'[r] \in RequestPlaces
          /\ \A t \in Tasks : at'[t] \in TaskPlaces
      BY <1>8, PlaceTyped, AfterTyped DEF ConnectFails
    <2>4. QED
      BY <1>0, <1>8, <2>2, <2>3, TypeParts DEF ConnectFails, CallsTyped, ProcessTyped, process
  <1>9. CASE ConnectPanics(a)
    <2>1. CASE a \in Requests
      <3>1. /\ at' \in [Actors -> RequestPlaces \cup TaskPlaces]
            /\ \A r \in Requests : at'[r] \in RequestPlaces
            /\ \A t \in Tasks : at'[t] \in TaskPlaces
        BY <1>9, <2>1, PlaceTyped, ServerAssumption DEF ConnectPanics, RequestPlaces
      <3>2. status' \in [Requests -> {0, 200, 400, 404, 500}]
        BY <1>9, <2>1, WriteFacts DEF ConnectPanics
      <3>3. QED
        BY <1>0, <1>9, <2>1, <3>1, <3>2, TypeParts DEF ConnectPanics, CallsTyped, ProcessTyped
    <2>2. CASE a \notin Requests
      BY <1>0, <1>9, <2>2, TypeParts
        DEF ConnectPanics, Die, CallsTyped, ProcessTyped, Phases, Exits
    <2>3. QED
      BY <2>1, <2>2
  <1>10. QED
    BY <1>2, <1>3, <1>4, <1>5, <1>6, <1>7, <1>8, <1>9

\* The steps of a call.
LEMMA CallSteps ==
    ASSUME TypeOK, PoolInv, NEW a \in Actors, Call(a)
    PROVE  TypeOK'
  <1>0. ProcessTyped /\ CallsTyped
    BY TypeParts
  <1>1. {"reading", "writing", "closing"} \subseteq RequestPlaces \cap TaskPlaces
    BY DEF RequestPlaces, TaskPlaces, InCall
  <1>2. ASSUME UNCHANGED <<process, gone, status>>, held' \subseteq Actors, lost' \in 0 .. MaxOpen,
               err' \in [Requests -> Error],
               cause' \in [Requests -> Causes \cup {None, "rollback"}],
               wrote' \in [Requests -> Outcomes], handler' \in [Requests -> Kinds],
               at' \in [Actors -> RequestPlaces \cup TaskPlaces],
               \A r \in Requests : at'[r] \in RequestPlaces,
               \A t \in Tasks : at'[t] \in TaskPlaces
        PROVE  TypeOK'
    BY <1>0, <1>2, TypeParts DEF CallsTyped, ProcessTyped, process
  <1>3. CASE OpenFails(a)
    <2>1. ApplyFor(ErrDatabase, ApplyFor(ErrDatabase, NoError)) \in Error
      BY ErrorsTyped
    <2>2. err' \in [Requests -> Error] /\ cause' \in [Requests -> Causes \cup {None, "rollback"}]
      BY <1>3, <2>1, FailedTyped DEF OpenFails, Causes
    <2>3. /\ at' \in [Actors -> RequestPlaces \cup TaskPlaces]
          /\ \A r \in Requests : at'[r] \in RequestPlaces
          /\ \A t \in Tasks : at'[t] \in TaskPlaces
      BY <1>3, PlaceTyped, AfterTyped DEF OpenFails
    <2>4. lost' \in 0 .. MaxOpen
      BY <1>3, LostTyped DEF OpenFails, InCall
    <2>5. QED
      BY <1>0, <1>2, <1>3, <2>2, <2>3, <2>4 DEF OpenFails, CallsTyped
  <1>4. CASE Opened(a)
    <2>1. /\ at' \in [Actors -> RequestPlaces \cup TaskPlaces]
          /\ \A r \in Requests : at'[r] \in RequestPlaces
          /\ \A t \in Tasks : at'[t] \in TaskPlaces
      BY <1>1, <1>4, PlaceTyped DEF Opened
    <2>2. QED
      BY <1>0, <1>2, <1>4, <2>1 DEF Opened, CallsTyped
  <1>5. ASSUME GoTo(a, "closing"), UNCHANGED <<process, gone, held, lost, status>>,
               err' \in [Requests -> Error],
               cause' \in [Requests -> Causes \cup {None, "rollback"}],
               wrote' \in [Requests -> Outcomes], handler' \in [Requests -> Kinds]
        PROVE  TypeOK'
    <2>1. /\ at' \in [Actors -> RequestPlaces \cup TaskPlaces]
          /\ \A r \in Requests : at'[r] \in RequestPlaces
          /\ \A t \in Tasks : at'[t] \in TaskPlaces
      BY <1>1, <1>5, PlaceTyped
    <2>2. QED
      BY <1>0, <1>2, <1>5, <2>1 DEF CallsTyped
  <1>6. CASE Succeeds(a)
    <2>1. wrote' \in [Requests -> Outcomes]
      BY <1>0, <1>6, TellTyped DEF Succeeds, CallsTyped, Outcomes
    <2>2. handler' \in [Requests -> Kinds]
      BY <1>0, <1>6 DEF Succeeds, LooksUp, CallsTyped, Kinds
    <2>3. QED
      BY <1>0, <1>5, <1>6, <2>1, <2>2 DEF Succeeds, CallsTyped
  <1>7. CASE Fails(a)
    <2>1. PICK c \in Causes : Failed(a, Wrapped(ErrorOf(c)), c)
      BY <1>7 DEF Fails
    <2>2. Wrapped(ErrorOf(c)) \in Error
      BY ErrorsTyped
    <2>3. err' \in [Requests -> Error] /\ cause' \in [Requests -> Causes \cup {None, "rollback"}]
      BY <2>1, <2>2, FailedTyped
    <2>4. wrote' \in [Requests -> Outcomes]
      BY <1>0, <1>7, TellTyped DEF Fails, CallsTyped, Outcomes
    <2>5. QED
      BY <1>0, <1>5, <1>7, <2>3, <2>4 DEF Fails, CallsTyped
  <1>8. CASE RollbackFails(a)
    <2>1. Join(NoError, ApplyFor(ErrDatabase, NoError)) \in Error
      BY ErrorsTyped
    <2>2. err' \in [Requests -> Error] /\ cause' \in [Requests -> Causes \cup {None, "rollback"}]
      BY <1>8, <2>1, FailedTyped DEF RollbackFails
    <2>3. wrote' \in [Requests -> Outcomes]
      BY <1>8, TellTyped DEF RollbackFails, Outcomes
    <2>4. QED
      BY <1>0, <1>5, <1>8, <2>2, <2>3 DEF RollbackFails, CallsTyped
  <1>9. CASE TransactionFails(a)
    <2>1. ApplyFor(ErrDatabase, NoError) \in Error
      BY ErrorsTyped
    <2>2. err' \in [Requests -> Error] /\ cause' \in [Requests -> Causes \cup {None, "rollback"}]
      BY <1>9, <2>1, FailedTyped DEF TransactionFails, Causes
    <2>3. wrote' \in [Requests -> Outcomes]
      BY <1>9, TellTyped DEF TransactionFails, Outcomes
    <2>4. QED
      BY <1>0, <1>5, <1>9, <2>2, <2>3 DEF TransactionFails, CallsTyped
  <1>10. CASE CloseConnection(a)
    <2>1. /\ at' \in [Actors -> RequestPlaces \cup TaskPlaces]
          /\ \A r \in Requests : at'[r] \in RequestPlaces
          /\ \A t \in Tasks : at'[t] \in TaskPlaces
      BY <1>10, GoOnTyped DEF CloseConnection
    <2>2. QED
      BY <1>0, <1>2, <1>10, <2>1 DEF CloseConnection, CallsTyped
  <1>11. CASE CloseFails(a)
    <2>1. /\ at' \in [Actors -> RequestPlaces \cup TaskPlaces]
          /\ \A r \in Requests : at'[r] \in RequestPlaces
          /\ \A t \in Tasks : at'[t] \in TaskPlaces
      BY <1>11, GoOnTyped DEF CloseFails
    <2>2. lost' \in 0 .. MaxOpen
      BY <1>11, LostTyped DEF CloseFails, InCall
    <2>3. QED
      BY <1>0, <1>2, <1>11, <2>1, <2>2 DEF CloseFails, CallsTyped
  <1>12. QED
    BY <1>3, <1>4, <1>6, <1>7, <1>8, <1>9, <1>10, <1>11 DEF Call

LEMMA TypeStep ==
    ASSUME TypeOK, PoolInv, [Next]_vars
    PROVE  TypeOK'
  <1>1. CASE UNCHANGED vars
    BY <1>1 DEF TypeOK, vars, process, calls
  <1>2. CASE Boot \/ Signal \/ Stop
    BY <1>2, ProcessSteps
  <1>3. CASE \E r \in Requests : Arrive(r) \/ Disconnect(r) \/ Answer(r)
    BY <1>3, OutsideSteps DEF Actors
  <1>4. CASE \E t \in Tasks : Wake(t) \/ Finish(t)
    BY <1>4, OutsideSteps DEF Actors
  <1>5. CASE \E a \in Actors : Connect(a) \/ ConnectFails(a) \/ ConnectPanics(a) \/ Call(a)
    BY <1>5, OutsideSteps, CallSteps
  <1>6. QED
    BY <1>1, <1>2, <1>3, <1>4, <1>5 DEF Next

-----------------------------------------------------------------------------
\* The pool.

\* A step that moves a between places without a connection, or between places with one.
LEMMA MovePool ==
    ASSUME TypeOK, PoolInv, NEW a \in Actors, NEW place, GoTo(a, place),
           at[a] \in InCall <=> place \in InCall, UNCHANGED <<held, lost>>
    PROVE  PoolInv'
  <1>1. \A b \in Actors : at'[b] \in InCall <=> at[b] \in InCall
    BY DEF GoTo, TypeOK
  <1>2. held' = {b \in Actors : at'[b] \in InCall}
    BY <1>1 DEF PoolInv, NoConnectionKept
  <1>3. Used' = Used
    BY DEF Used
  <1>4. QED
    BY <1>2, <1>3 DEF PoolInv, NoConnectionKept

\* A step that ends a call: its connection goes back to the pool, or is lost.
LEMMA LeavePool ==
    ASSUME TypeOK, PoolInv, NEW a \in Actors, at[a] \in InCall,
           NEW place, GoTo(a, place), place \notin InCall,
           held' = held \ {a}, lost' \in {lost, lost + 1}
    PROVE  PoolInv'
  <1>1. held' = {b \in Actors : at'[b] \in InCall}
    BY DEF GoTo, TypeOK, PoolInv, NoConnectionKept
  <1>2. a \in held
    BY DEF PoolInv, NoConnectionKept
  <1>3. Cardinality(held \ {a}) = Cardinality(held) - 1
    BY <1>2, HeldFinite, FS_RemoveElement
  <1>4. Used' <= Used
    BY <1>3, HeldFinite DEF Used, TypeOK
  <1>5. Used \in Nat /\ Used' \in Nat
    <2>1. Cardinality(held \ {a}) \in Nat
      BY HeldFinite, FS_RemoveElement, FS_CardinalityType
    <2>2. QED
      BY <2>1, HeldFinite DEF Used, TypeOK
  <1>6. QED
    BY <1>1, <1>4, <1>5, ServerAssumption DEF PoolInv, NoConnectionKept

LEMMA GoOnPool ==
    ASSUME TypeOK, PoolInv, NEW a \in Actors, at[a] = "closing", GoOn(a),
           held' = held \ {a}, lost' \in {lost, lost + 1}
    PROVE  PoolInv'
  <1>1. at[a] \in InCall /\ After(a) \notin InCall /\ "asking" \notin InCall
    BY DEF InCall, After
  <1>2. CASE GoTo(a, After(a))
    BY <1>1, <1>2, LeavePool
  <1>3. CASE GoTo(a, "asking")
    BY <1>1, <1>3, LeavePool
  <1>4. QED
    BY <1>2, <1>3 DEF GoOn

LEMMA PoolStep ==
    ASSUME TypeOK, PoolInv, PanicInv, [Next]_vars
    PROVE  PoolInv'
  <1>1. CASE UNCHANGED calls
    BY <1>1 DEF PoolInv, NoConnectionKept, Used, calls
  <1>2. CASE StartTasks
    <2>1. UNCHANGED <<held, lost>>
      BY <1>2 DEF StartTasks
    <2>2. CASE UNCHANGED at
      BY <2>1, <2>2 DEF PoolInv, NoConnectionKept, Used
    <2>3. CASE at' = [a \in Actors |-> IF a \in Tasks THEN "idle" ELSE at[a]]
      <3>1. \A t \in Tasks : at[t] = "off"
        BY <1>2 DEF StartTasks, PanicInv
      <3>2. QED
        BY <2>1, <2>3, <3>1 DEF PoolInv, NoConnectionKept, Used, InCall
    <2>4. QED
      BY <1>2, <2>2, <2>3 DEF StartTasks
  <1>3. ASSUME NEW r \in Requests, Arrive(r) \/ Disconnect(r) \/ Answer(r)
        PROVE  PoolInv'
    <2>1. r \in Actors
      BY DEF Actors
    <2>2. CASE Arrive(r)
      BY <2>1, <2>2, MovePool DEF Arrive, InCall
    <2>3. CASE Disconnect(r)
      BY <2>3 DEF Disconnect, PoolInv, NoConnectionKept, Used
    <2>4. CASE Answer(r)
      BY <2>1, <2>4, MovePool DEF Answer, InCall
    <2>5. QED
      BY <1>3, <2>2, <2>3, <2>4
  <1>4. ASSUME NEW t \in Tasks, Wake(t) \/ Finish(t)
        PROVE  PoolInv'
    BY <1>4, MovePool DEF Wake, Finish, InCall, Actors
  <1>5. ASSUME NEW a \in Actors, Connect(a)
        PROVE  PoolInv'
    <2>1. held' = {b \in Actors : at'[b] \in InCall}
      BY <1>5 DEF Connect, GoTo, TypeOK, PoolInv, NoConnectionKept, InCall
    <2>2. Cardinality(held \cup {a}) \in {Cardinality(held), Cardinality(held) + 1}
      BY HeldFinite, FS_AddElement
    <2>3. Cardinality(held \cup {a}) \in Nat
      BY HeldFinite, FS_AddElement, FS_CardinalityType
    <2>4. Used' <= MaxOpen
      BY <1>5, <2>2, <2>3, HeldFinite, ServerAssumption DEF Connect, Used, TypeOK
    <2>5. QED
      BY <2>1, <2>4 DEF PoolInv, NoConnectionKept
  <1>6. ASSUME NEW a \in Actors, ConnectFails(a) \/ ConnectPanics(a)
        PROVE  PoolInv'
    <2>1. CASE ConnectFails(a)
      BY <2>1, MovePool DEF ConnectFails, InCall, After
    <2>2. CASE ConnectPanics(a) /\ a \in Requests
      BY <2>2, MovePool DEF ConnectPanics, InCall
    <2>3. CASE ConnectPanics(a) /\ a \notin Requests
      BY <2>3 DEF ConnectPanics, PoolInv, NoConnectionKept, Used
    <2>4. QED
      BY <1>6, <2>1, <2>2, <2>3
  <1>7. ASSUME NEW a \in Actors, Call(a)
        PROVE  PoolInv'
    <2>1. CASE OpenFails(a)
      BY <2>1, LeavePool DEF OpenFails, InCall, After
    <2>2. CASE Opened(a)
      BY <2>2, MovePool DEF Opened, InCall
    <2>3. CASE Succeeds(a)
      BY <2>3, MovePool DEF Succeeds, InCall
    <2>4. CASE Fails(a)
      BY <2>4, MovePool DEF Fails, InCall
    <2>5. CASE RollbackFails(a) \/ TransactionFails(a)
      BY <2>5, MovePool DEF RollbackFails, TransactionFails, InCall
    <2>6. CASE CloseConnection(a)
      BY <2>6, GoOnPool DEF CloseConnection
    <2>7. CASE CloseFails(a)
      BY <2>7, GoOnPool DEF CloseFails
    <2>8. QED
      BY <1>7, <2>1, <2>2, <2>3, <2>4, <2>5, <2>6, <2>7 DEF Call
  <1>8. CASE (Boot /\ ~StartTasks) \/ Signal \/ Stop \/ UNCHANGED vars
    BY <1>1, <1>8 DEF Boot, OpenDatabase, Validate, Build, Listen, Signal, Stop, Return,
                      HttpStopped, HttpTimeout, CloseDatabase, Exit, vars
  <1>9. QED
    BY <1>2, <1>3, <1>4, <1>5, <1>6, <1>7, <1>8 DEF Next, Boot

-----------------------------------------------------------------------------
\* The order of the stop.

\* No request arrives once the process stops.
LEMMA StopStep ==
    ASSUME TypeOK, StopInv, [Next]_vars
    PROVE  StopInv'
  <1>1. ASSUME UNCHANGED <<phase, late, db>>,
               phase \in {"closing", "exiting"} =>
                   \A r \in Requests : ~Running(r) => at'[r] = at[r] \/ ~Running(r)'
        PROVE  StopInv'
    BY <1>1 DEF StopInv, Running
  <1>2. CASE Boot
    BY <1>2 DEF Boot, OpenDatabase, Validate, Build, Listen, StartTasks, Leave, Die,
        ListenFails, StopInv
  <1>3. CASE Signal \/ UNCHANGED vars
    BY <1>1, <1>3 DEF Signal, vars, process, calls
  <1>4. CASE Stop
    <2>1. CASE Return
      BY <2>1 DEF Return, Leave, StopInv
    <2>2. CASE HttpStopped
      BY <2>2 DEF HttpStopped, StopInv, Running, calls
    <2>3. CASE HttpTimeout
      BY <2>3 DEF HttpTimeout, StopInv
    <2>4. CASE CloseDatabase
      BY <2>4 DEF CloseDatabase, StopInv, Running, calls
    <2>5. CASE Exit
      BY <2>5 DEF Exit, StopInv
    <2>6. QED
      BY <1>4, <2>1, <2>2, <2>3, <2>4, <2>5 DEF Stop
  <1>5. ASSUME NEW r \in Requests, Arrive(r) \/ Disconnect(r) \/ Answer(r)
        PROVE  StopInv'
    <2>1. CASE Arrive(r)
      BY <2>1 DEF Arrive, process, StopInv
    <2>2. CASE Disconnect(r)
      BY <1>1, <2>2 DEF Disconnect, process
    <2>3. CASE Answer(r)
      BY <1>1, <2>3 DEF Answer, process, GoTo, Running, TypeOK
    <2>4. QED
      BY <1>5, <2>1, <2>2, <2>3
  <1>6. ASSUME NEW a \in Actors, UNCHANGED process, NEW place, GoTo(a, place),
               a \in Requests => Running(a)
        PROVE  StopInv'
    BY <1>1, <1>6 DEF process, GoTo, Running, TypeOK
  <1>7. ASSUME NEW t \in Tasks, Wake(t) \/ Finish(t)
        PROVE  StopInv'
    BY <1>6, <1>7, ServerAssumption DEF Wake, Finish, Actors
  <1>8. ASSUME NEW a \in Actors, Connect(a) \/ ConnectFails(a) \/ ConnectPanics(a)
        PROVE  StopInv'
    <2>1. CASE Connect(a)
      BY <1>6, <2>1 DEF Connect, Running
    <2>2. CASE ConnectFails(a)
      BY <1>6, <2>2 DEF ConnectFails, Running
    <2>3. CASE ConnectPanics(a) /\ a \in Requests
      BY <1>6, <2>3 DEF ConnectPanics, Running, process
    <2>4. CASE ConnectPanics(a) /\ a \notin Requests
      BY <2>4 DEF ConnectPanics, Die, StopInv
    <2>5. QED
      BY <1>8, <2>1, <2>2, <2>3, <2>4
  <1>9. ASSUME NEW a \in Actors, Call(a)
        PROVE  StopInv'
    <2>1. at[a] \in InCall /\ UNCHANGED process
      BY <1>9 DEF Call, OpenFails, Opened, Succeeds, Fails, RollbackFails, TransactionFails,
                  CloseConnection, CloseFails, InCall
    <2>2. \E place : GoTo(a, place)
      BY <1>9 DEF Call, OpenFails, Opened, Succeeds, Fails, RollbackFails, TransactionFails,
                  CloseConnection, CloseFails, GoOn
    <2>3. QED
      BY <1>6, <2>1, <2>2 DEF Running, InCall
  <1>10. QED
    BY <1>2, <1>3, <1>4, <1>5, <1>7, <1>8, <1>9 DEF Next

-----------------------------------------------------------------------------
\* Outcomes.

\* A step of one actor keeps the outcomes when it keeps its own.
LEMMA OneOutcome ==
    ASSUME TypeOK, OutcomeInv, NEW a \in Actors, NEW place, GoTo(a, place),
           \A r \in Requests \ {a} : /\ cause'[r] = cause[r] /\ wrote'[r] = wrote[r]
                                     /\ err'[r] = err[r] /\ status'[r] = status[r]
                                     /\ handler'[r] = handler[r],
           conf' = conf,
           a \in Requests => OutcomeOf(place, cause'[a], wrote'[a], err'[a], handler'[a],
                         status'[a], conf'.driver)
    PROVE  OutcomeInv'
  <1>1. SUFFICES ASSUME NEW r \in Requests
                 PROVE  OutcomeOf(at'[r], cause'[r], wrote'[r], err'[r], handler'[r],
                         status'[r], conf'.driver)
    BY DEF OutcomeInv
  <1>2. CASE r = a
    BY <1>2 DEF GoTo, TypeOK
  <1>3. CASE r # a
    <2>1. at'[r] = at[r]
      BY <1>3 DEF GoTo, TypeOK, Actors
    <2>2. OutcomeOf(at[r], cause[r], wrote[r], err[r], handler[r], status[r],
                         conf.driver)
      BY DEF OutcomeInv
    <2>3. QED
      BY <1>3, <2>1, <2>2
  <1>4. QED
    BY <1>2, <1>3

\* A failure before, or in, a call.
LEMMA FailureOutcome ==
    ASSUME TypeOK, OutcomeInv, NEW a \in Actors, NEW place \in {"closing", "answer", "idle"},
           GoTo(a, place), NEW e, NEW c \in Causes \cup {"rollback"}, Failed(a, e, c),
           StatusOf(e) = StatusOfCause(c), UNCHANGED status,
           at[a] \in {"asking", "opening", "reading", "writing"}, UNCHANGED <<conf, handler>>,
           \/ UNCHANGED wrote
           \/ at[a] = "writing" /\ Tell(a, "dropped")
           \/ /\ at[a] = "writing" /\ Tell(a, "unheard")
              /\ conf.driver = "pg" /\ c = "database"
    PROVE  OutcomeInv'
  <1>1. \A r \in Requests \ {a} : /\ cause'[r] = cause[r] /\ wrote'[r] = wrote[r]
                                  /\ err'[r] = err[r] /\ status'[r] = status[r]
                                  /\ handler'[r] = handler[r]
    BY DEF Failed, Tell, TypeOK
  <1>2. ASSUME a \in Requests
        PROVE  OutcomeOf(place, cause'[a], wrote'[a], err'[a], handler'[a],
                         status'[a], conf'.driver)
    <2>1. a \notin Tasks
      BY <1>2, ServerAssumption
    <2>2. cause'[a] = c /\ err'[a] = e
      BY <1>2, <2>1 DEF Failed, TypeOK
    <2>3. /\ wrote[a] = "nothing" /\ status[a] = IF handler[a] = "form" THEN 400 ELSE 0
          /\ at[a] = "writing" => handler[a] # "page"
      BY <1>2 DEF OutcomeInv, OutcomeOf, Known
    <2>4. /\ wrote'[a] # "kept"
          /\ wrote'[a] = "unheard" => conf.driver = "pg" /\ c = "database"
          /\ handler[a] = "page" => wrote'[a] = "nothing"
      BY <1>2, <2>1, <2>3 DEF Tell, TypeOK
    <2>5. c # None
      BY NoneIsNoCause
    <2>6. place \in {"closing", "answer"} => place \in Known
      BY DEF Known
    <2>7. QED
      BY <2>2, <2>3, <2>4, <2>5, <2>6 DEF OutcomeOf
  <1>3. QED
    BY <1>1, <1>2, OneOutcome

\* A step that leaves what is known of a request alone.
LEMMA MoveOutcome ==
    ASSUME TypeOK, OutcomeInv, NEW a \in Actors, NEW place, GoTo(a, place),
           UNCHANGED <<cause, wrote, err, handler, status, conf>>,
           \/ /\ at[a] \in {"asking", "opening", "reading", "writing"}
              /\ place \in {"asking", "opening", "reading", "writing"}
              /\ place = "writing" => ~LooksUp(a)
           \/ at[a] \in {"closing", "answer"} /\ place \in {"closing", "answer", "idle"}
           \/ a \in Tasks
    PROVE  OutcomeInv'
  <1>1. ASSUME a \in Requests
        PROVE  OutcomeOf(place, cause'[a], wrote'[a], err'[a], handler'[a],
                         status'[a], conf'.driver)
    BY <1>1, ServerAssumption DEF OutcomeInv, OutcomeOf, Known, LooksUp
  <1>2. QED
    BY <1>1, OneOutcome

LEMMA GoOnOutcome ==
    ASSUME TypeOK, OutcomeInv, NEW a \in Actors, at[a] = "closing", GoOn(a),
           UNCHANGED <<cause, wrote, err, handler, status, conf>>
    PROVE  OutcomeInv'
  <1>1. CASE GoTo(a, After(a))
    BY <1>1, MoveOutcome DEF After
  <1>2. CASE a \in Tasks /\ GoTo(a, "asking")
    BY <1>2, MoveOutcome
  <1>3. CASE a \in Requests /\ cause[a] = None /\ wrote[a] = "nothing" /\ GoTo(a, "asking")
    <2>1. OutcomeOf("asking", cause'[a], wrote'[a], err'[a], handler'[a], status'[a],
                    conf'.driver)
      BY <1>3 DEF OutcomeOf, OutcomeInv, Known
    <2>2. QED
      BY <1>3, <2>1, OneOutcome
  <1>4. QED
    BY <1>1, <1>2, <1>3 DEF GoOn

LEMMA OutcomeStep ==
    ASSUME TypeOK, OutcomeInv, PanicInv, [Next]_vars
    PROVE  OutcomeInv'
  <1>1. CASE UNCHANGED calls /\ conf'.driver = conf.driver
    BY <1>1 DEF OutcomeInv, calls
  <1>2. CASE StartTasks
    <2>1. UNCHANGED <<cause, wrote, err, handler, status, conf>>
      BY <1>2 DEF StartTasks
    <2>2. \A r \in Requests : at'[r] = at[r]
      BY <1>2, ServerAssumption DEF StartTasks, Actors, TypeOK
    <2>3. QED
      BY <2>1, <2>2 DEF OutcomeInv
  <1>3. ASSUME NEW r \in Requests, Arrive(r) \/ Disconnect(r) \/ Answer(r)
        PROVE  OutcomeInv'
    <2>1. r \in Actors /\ r \notin Tasks
      BY ServerAssumption DEF Actors
    <2>2. CASE Arrive(r)
      <3>1. OutcomeOf("new", cause[r], wrote[r], err[r], handler[r], status[r], conf.driver)
        BY <2>2 DEF Arrive, OutcomeInv
      <3>2. /\ status'[r] = IF handler[r] = "form" THEN 400 ELSE 0
            /\ \A x \in Requests \ {r} : status'[x] = status[x]
        BY <2>2, <3>1, WriteFacts DEF Arrive, OutcomeOf
      <3>3. UNCHANGED <<cause, wrote, err, handler, conf>>
        BY <2>2 DEF Arrive, process
      <3>4. OutcomeOf("asking", cause'[r], wrote'[r], err'[r], handler'[r],
                      status'[r], conf'.driver)
        BY <3>1, <3>2, <3>3 DEF OutcomeOf
      <3>5. GoTo(r, "asking")
        BY <2>2 DEF Arrive
      <3>6. QED
        BY <2>1, <3>2, <3>3, <3>4, <3>5, OneOutcome
    <2>3. CASE Disconnect(r)
      BY <2>3 DEF Disconnect, OutcomeInv, process
    <2>4. CASE Answer(r)
      <3>1. OutcomeOf("answer", cause[r], wrote[r], err[r], handler[r], status[r],
                         conf.driver)
        BY <2>4 DEF Answer, OutcomeInv
      <3>2. /\ status[r] = IF handler[r] = "form" THEN 400 ELSE 0
            /\ status'[r] = IF handler[r] = "form" THEN 400
                            ELSE IF cause[r] = None THEN 200 ELSE StatusBy(handler[r], err[r])
        BY <2>4, <3>1, WriteFacts DEF Answer, OutcomeOf, Known
      <3>3. handler[r] = "plain" =>
                StatusBy(handler[r], err[r]) = StatusOf(err[r]) /\ StatusOf(err[r]) # 200
        BY StatusTyped DEF StatusBy
      <3>4. OutcomeOf("done", cause'[r], wrote'[r], err'[r], handler'[r],
                      status'[r], conf'.driver)
        <4>1. /\ UNCHANGED <<cause, wrote, handler, conf>>
              /\ handler[r] = "page" => StatusBy(handler[r], err[r]) = 404
              /\ handler[r] = "password" => StatusBy(handler[r], err[r]) = 200
              /\ handler[r] \in Kinds
          BY <2>4 DEF Answer, process, StatusBy, TypeOK
        <4>2. /\ cause[r] = None => wrote[r] \in {"nothing", "kept"}
              /\ cause[r] # None => wrote[r] # "kept"
              /\ cause[r] # None => StatusOf(err[r]) = StatusOfCause(cause[r])
              /\ handler[r] = "page" => wrote[r] = "nothing"
              /\ wrote[r] = "unheard" => conf.driver = "pg" /\ cause[r] = "database"
          BY <3>1 DEF OutcomeOf
        <4>3. QED
          BY <3>2, <3>3, <4>1, <4>2 DEF OutcomeOf, Known, Kinds
      <3>5. \A x \in Requests \ {r} : /\ cause'[x] = cause[x] /\ wrote'[x] = wrote[x]
                                      /\ err'[x] = err[x] /\ status'[x] = status[x]
                                      /\ handler'[x] = handler[x]
        BY <2>4, WriteFacts DEF Answer, TypeOK
      <3>6. QED
        BY <2>1, <2>4, <3>4, <3>5, OneOutcome DEF Answer, process
    <2>5. QED
      BY <1>3, <2>2, <2>3, <2>4
  <1>4. ASSUME NEW t \in Tasks, Wake(t) \/ Finish(t)
        PROVE  OutcomeInv'
    BY <1>4, MoveOutcome DEF Wake, Finish, Actors, process
  <1>5. ASSUME NEW a \in Actors, Connect(a) \/ ConnectFails(a) \/ ConnectPanics(a)
        PROVE  OutcomeInv'
    <2>1. CASE Connect(a)
      BY <2>1, MoveOutcome DEF Connect, process
    <2>2. CASE ConnectFails(a)
      BY <2>2, FailureOutcome, StatusOfFailures DEF ConnectFails, After, Causes, process
    <2>3. CASE ConnectPanics(a) /\ a \in Requests
      <3>1. cause[a] = None /\ wrote[a] = "nothing"
        BY <2>3 DEF ConnectPanics, OutcomeInv, OutcomeOf
      <3>2. OutcomeOf("done", cause'[a], wrote'[a], err'[a], handler'[a],
                         status'[a], conf'.driver)
        BY <2>3, <3>1 DEF ConnectPanics, OutcomeOf, TypeOK, Known
      <3>3. \A x \in Requests \ {a} : /\ cause'[x] = cause[x] /\ wrote'[x] = wrote[x]
                                      /\ err'[x] = err[x] /\ status'[x] = status[x]
                                      /\ handler'[x] = handler[x]
        BY <2>3, WriteFacts DEF ConnectPanics, TypeOK
      <3>4. QED
        BY <2>3, <3>2, <3>3, OneOutcome DEF ConnectPanics
    <2>4. CASE ConnectPanics(a) /\ a \notin Requests
      BY <2>4 DEF ConnectPanics, OutcomeInv
    <2>5. QED
      BY <1>5, <2>1, <2>2, <2>3, <2>4
  <1>6. ASSUME NEW a \in Actors, Call(a)
        PROVE  OutcomeInv'
    <2>1. CASE OpenFails(a)
      BY <2>1, FailureOutcome, StatusOfFailures DEF OpenFails, After, Causes, process
    <2>2. CASE Opened(a)
      BY <2>2, MoveOutcome DEF Opened, process
    <2>3. CASE Succeeds(a)
      <3>1. \A x \in Requests \ {a} : /\ cause'[x] = cause[x] /\ wrote'[x] = wrote[x]
                                      /\ err'[x] = err[x] /\ status'[x] = status[x]
                                      /\ handler'[x] = handler[x]
        BY <2>3 DEF Succeeds, Tell, TypeOK, LooksUp
      <3>2. a \in Requests => OutcomeOf("closing", cause'[a], wrote'[a], err'[a], handler'[a],
                         status'[a], conf'.driver)
        <4>1. SUFFICES ASSUME a \in Requests
                       PROVE  OutcomeOf("closing", cause'[a], wrote'[a], err'[a], handler'[a],
                                        status'[a], conf'.driver)
          OBVIOUS
        <4>2. /\ at[a] \in {"reading", "writing"} /\ cause'[a] = cause[a]
              /\ status'[a] = status[a] /\ conf' = conf
          BY <2>3 DEF Succeeds, process
        <4>3. /\ cause[a] = None /\ wrote[a] = "nothing"
              /\ status[a] = IF handler[a] = "form" THEN 400 ELSE 0
          BY <4>1, <4>2 DEF OutcomeInv, OutcomeOf, Known
        <4>4. handler'[a] # "page" /\ (handler'[a] = "form" <=> handler[a] = "form")
          BY <2>3, <4>1 DEF Succeeds, LooksUp, TypeOK
        <4>5. wrote'[a] \in {"nothing", "kept"}
          BY <2>3, <4>1, <4>3, ServerAssumption DEF Succeeds, Tell, TypeOK
        <4>6. QED
          BY <4>2, <4>3, <4>4, <4>5 DEF OutcomeOf, Known
      <3>3. QED
        BY <2>3, <3>1, <3>2, OneOutcome DEF Succeeds, process
    <2>4. CASE Fails(a)
      <3>1. PICK c \in Causes : Failed(a, Wrapped(ErrorOf(c)), c)
        BY <2>4 DEF Fails
      <3>2. StatusOf(Wrapped(ErrorOf(c))) = StatusOfCause(c)
        BY StatusOfFailures
      <3>3. QED
        BY <2>4, <3>1, <3>2, FailureOutcome DEF Fails, process
    <2>5. CASE RollbackFails(a)
      BY <2>5, FailureOutcome, StatusOfFailures DEF RollbackFails, process
    <2>6. CASE TransactionFails(a)
      BY <2>6, FailureOutcome, StatusOfFailures DEF TransactionFails, Causes, process
    <2>7. CASE CloseConnection(a)
      BY <2>7, GoOnOutcome DEF CloseConnection, process
    <2>8. CASE CloseFails(a)
      BY <2>8, GoOnOutcome DEF CloseFails, process
    <2>9. QED
      BY <1>6, <2>1, <2>2, <2>3, <2>4, <2>5, <2>6, <2>7, <2>8 DEF Call
  <1>7. CASE (Boot /\ ~StartTasks) \/ Signal \/ Stop \/ UNCHANGED vars
    <2>1. CASE Validate
      <3>1. conf'.driver = conf.driver
        BY <2>1, DefaultsFacts DEF Validate, TypeOK
      <3>2. QED
        BY <1>1, <2>1, <3>1 DEF Validate
    <2>2. CASE (Boot /\ ~StartTasks /\ ~Validate) \/ Signal \/ Stop \/ UNCHANGED vars
      BY <1>1, <2>2 DEF Boot, OpenDatabase, Build, Listen, Signal, Stop, Return,
                        HttpStopped, HttpTimeout, CloseDatabase, Exit, vars, process
    <2>3. QED
      BY <1>7, <2>1, <2>2
  <1>8. QED
    BY <1>2, <1>3, <1>4, <1>5, <1>6, <1>7 DEF Next, Boot

-----------------------------------------------------------------------------
\* Panics.

LEMMA PanicStep ==
    ASSUME TypeOK, StopInv, PanicInv, [Next]_vars
    PROVE  PanicInv'
  <1>1. CASE OpenDatabase
    BY <1>1 DEF OpenDatabase, Die, calls, PanicInv, PanicsExplained, BadConnstr
  <1>2. CASE Validate
    <2>1. Valid(conf) => conf'.auth # ""
      <3>1. WithDefaults(conf).auth # ""
        BY DefaultsFacts DEF TypeOK
      <3>2. QED
        BY <1>2, <3>1 DEF Validate
    <2>2. QED
      BY <1>2, <2>1 DEF Validate, Leave, calls, PanicInv, PanicsExplained, BadConnstr
  <1>3. CASE Build
    <2>1. conf.auth \notin {"basic", "proxy"} => conf.auth = "other"
      BY <1>3 DEF Build, HasAuthenticator, PanicInv, TypeOK, Conf
    <2>2. QED
      BY <1>3, <2>1 DEF Build, HasAuthenticator, Leave, calls, PanicInv, PanicsExplained, BadConnstr
  <1>4. CASE Listen
    BY <1>4 DEF Listen, Die, ListenFails, calls, PanicInv, PanicsExplained, BadConnstr
  <1>5. CASE StartTasks
    BY <1>5 DEF StartTasks, Die, ListenFails, PanicInv, PanicsExplained, BadConnstr
  <1>6. CASE Signal
    BY <1>6 DEF Signal, calls, PanicInv, PanicsExplained, BadConnstr
  <1>7. CASE Stop
    <2>1. CASE Return
      BY <2>1 DEF Return, Leave, calls, PanicInv, PanicsExplained, BadConnstr
    <2>2. CASE HttpStopped \/ HttpTimeout
      BY <2>2 DEF HttpStopped, HttpTimeout, calls, PanicInv, PanicsExplained, BadConnstr
    <2>3. CASE CloseDatabase
      BY <2>3 DEF CloseDatabase, calls, PanicInv, PanicsExplained, BadConnstr
    <2>4. CASE Exit
      BY <2>4 DEF Exit, calls, PanicInv, PanicsExplained, BadConnstr
    <2>5. QED
      BY <1>7, <2>1, <2>2, <2>3, <2>4 DEF Stop
  <1>8. CASE UNCHANGED vars
    BY <1>8 DEF vars, process, calls, PanicInv, PanicsExplained, BadConnstr
  <1>9. ASSUME NEW a \in Actors, UNCHANGED process, NEW place, GoTo(a, place),
               a \in Tasks => at[a] # "off",
               a \in Requests => at[a] # "new" \/ phase \in {"mgmt", "running"}
        PROVE  PanicInv'
    <2>1. /\ (\A t \in Tasks : at[t] = "off") => \A t \in Tasks : at'[t] = "off"
          /\ (\A r \in Requests : at[r] = "new") =>
                phase \in {"mgmt", "running"} \/ \A r \in Requests : at'[r] = "new"
      BY <1>9 DEF GoTo, TypeOK, Actors
    <2>2. phase' = phase /\ exit' = exit /\ conf' = conf /\ db' = db /\ signalled' = signalled
      BY <1>9 DEF process
    <2>3. QED
      BY <2>1, <2>2 DEF PanicInv, PanicsExplained, BadConnstr
  <1>10. ASSUME NEW r \in Requests, Arrive(r) \/ Disconnect(r) \/ Answer(r)
         PROVE  PanicInv'
    <2>1. r \in Actors /\ r \notin Tasks
      BY ServerAssumption DEF Actors
    <2>2. CASE Disconnect(r)
      BY <2>2 DEF Disconnect, process, PanicInv, PanicsExplained, BadConnstr
    <2>3. CASE Arrive(r) \/ Answer(r)
      BY <1>9, <2>1, <2>3 DEF Arrive, Answer
    <2>4. QED
      BY <1>10, <2>2, <2>3
  <1>11. ASSUME NEW t \in Tasks, Wake(t) \/ Finish(t)
         PROVE  PanicInv'
    BY <1>9, <1>11 DEF Wake, Finish, Actors
  <1>12. ASSUME NEW a \in Actors, Connect(a) \/ ConnectFails(a)
         PROVE  PanicInv'
    BY <1>9, <1>12 DEF Connect, ConnectFails
  <1>13. ASSUME NEW a \in Actors, ConnectPanics(a)
         PROVE  PanicInv'
    <2>1. CASE a \in Requests
      <3>1. a \notin Tasks /\ UNCHANGED process
        BY <1>13, <2>1, ServerAssumption DEF ConnectPanics, process
      <3>2. QED
        BY <1>9, <1>13, <2>1, <3>1 DEF ConnectPanics
    <2>2. CASE a \notin Requests
      <3>1. a \in Tasks /\ at[a] # "off"
        BY <1>13, <2>2 DEF ConnectPanics, Actors
      <3>2. phase = "exiting"
        BY <1>13 DEF ConnectPanics, StopInv, Alive
      <3>3. signalled
        BY <3>1, <3>2 DEF PanicInv
      <3>4. QED
        BY <1>13, <2>2, <3>3 DEF ConnectPanics, Die, PanicInv, PanicsExplained, BadConnstr
    <2>3. QED
      BY <2>1, <2>2
  <1>14. ASSUME NEW a \in Actors, Call(a)
         PROVE  PanicInv'
    <2>1. at[a] \in InCall /\ UNCHANGED process
      BY <1>14 DEF Call, OpenFails, Opened, Succeeds, Fails, RollbackFails, TransactionFails,
                   CloseConnection, CloseFails, InCall
    <2>2. \E place : GoTo(a, place)
      BY <1>14 DEF Call, OpenFails, Opened, Succeeds, Fails, RollbackFails, TransactionFails,
                   CloseConnection, CloseFails, GoOn
    <2>3. QED
      BY <1>9, <2>1, <2>2 DEF InCall
  <1>15. QED
    BY <1>1, <1>2, <1>3, <1>4, <1>5, <1>6, <1>7, <1>8, <1>10, <1>11, <1>12, <1>13, <1>14
      DEF Next, Boot

-----------------------------------------------------------------------------
\* Theorems.

LEMMA InitInv == Init => ServerInv
  <1>1. SUFFICES ASSUME Init PROVE ServerInv
    OBVIOUS
  <1>2. TypeOK
    BY <1>1, InitTyped
  <1>3. PoolInv
    <2>1. held = {} /\ lost = 0 /\ Used = 0
      BY <1>1, FS_EmptySet DEF Init, Used
    <2>2. \A a \in Actors : at[a] \notin InCall
      BY <1>1 DEF Init, InCall
    <2>3. QED
      BY <2>1, <2>2, ServerAssumption DEF PoolInv, NoConnectionKept
  <1>4. StopInv
    BY <1>1 DEF Init, StopInv
  <1>5. OutcomeInv
    BY <1>1 DEF Init, OutcomeInv, OutcomeOf, Known, Actors
  <1>6. PanicInv
    <2>1. exit # "panic" /\ phase = "init" /\ db = "none"
      BY <1>1, NoneIsNoExit DEF Init, Exits
    <2>2. (\A t \in Tasks : at[t] = "off") /\ \A r \in Requests : at[r] = "new"
      BY <1>1, ServerAssumption DEF Init, Actors
    <2>3. QED
      BY <2>1, <2>2 DEF PanicInv, PanicsExplained
  <1>7. QED
    BY <1>2, <1>3, <1>4, <1>5, <1>6 DEF ServerInv

LEMMA Inductive == Spec => []ServerInv
  <1>1. ServerInv /\ [Next]_vars => ServerInv'
    BY TypeStep, PoolStep, StopStep, OutcomeStep, PanicStep DEF ServerInv
  <1>2. QED
    BY InitInv, <1>1, PTL DEF Spec

\* Every variable keeps its shape, in newAuthenticator's configurations and in the pool.
THEOREM ServerTypeCorrect == Spec => []TypeOK
  <1>1. ServerInv => TypeOK
    BY DEF ServerInv
  <1>2. QED
    BY <1>1, Inductive, PTL

\* InConnectionR and InTransaction give back every connection they take, or it is counted as
\* lost by CloseConnection or GetConnection.
THEOREM ConnectionsReturned == Spec => []NoConnectionKept
  <1>1. ServerInv => NoConnectionKept
    BY DEF ServerInv, PoolInv
  <1>2. QED
    BY <1>1, Inductive, PTL

\* shutdownInjector closes the database after the requests, unless they outlast its timeout.
THEOREM RequestsServedFirst == Spec => []ServedBeforeClose
  <1>1. ServerInv => ServedBeforeClose
    BY DEF ServerInv, StopInv, ServedBeforeClose, Alive
  <1>2. QED
    BY <1>1, Inductive, PTL

\* What a request is told of its transaction by the handler that ran InTransaction, with either
\* database.
THEOREM AnswersTrue == Spec => []AnswerTellsOutcome
  <1>1. ServerInv => AnswerTellsOutcome
    BY DEF ServerInv, OutcomeInv, OutcomeOf, AnswerTellsOutcome
  <1>2. QED
    BY <1>1, Inductive, PTL

\* checkAndWriteError finds the status of a failure under whatever wraps it, and the web handlers
\* that do not ask it answer as they are written.
THEOREM StatusesKept == Spec => []StatusFollowsCause
  <1>1. ServerInv => StatusFollowsCause
    BY DEF ServerInv, OutcomeInv, OutcomeOf, StatusFollowsCause
  <1>2. QED
    BY <1>1, Inductive, PTL

\* The process panics only at a configuration that nobody looked at, before it takes a request,
\* or while it stops.
THEOREM PanicsOnlyThere == Spec => []PanicsExplained
  <1>1. ServerInv => PanicsExplained
    BY DEF ServerInv, PanicInv
  <1>2. QED
    BY <1>1, Inductive, PTL
======================================================================================
