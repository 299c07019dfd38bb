--------------------------- MODULE EpisodeStoreProofs ---------------------------
(***************************************************************************)
(* Theorems about EpisodeStore for every choice of its constants: any      *)
(* number of requests, batches of any length, tables of any size.          *)
(*                                                                         *)
(* What the committed tables satisfy is not inductive alone: a commit      *)
(* publishes the view of a transaction, so the view has to be consistent   *)
(* too, and the second loop of AddAction keeps it consistent only because  *)
(* the first one made the podcast and the device of every action ready.    *)
(* The last part proves that EpisodeStore implements EpisodeService.       *)
(***************************************************************************)
EXTENDS EpisodeStore, EpisodeTablesProofs, SequenceTheorems, FiniteSetTheorems,
        WellFoundedInduction

\* What holds of a transaction in progress.
ViewOK(v) ==
    v.phase # "idle" =>
        /\ Consistent(v.work)
        /\ v.batch \in Batches
        /\ v.next \in 1 .. Len(v.batch) + 1
        /\ v.phase \in {"resolve", "panicked"} => v.next <= Len(v.batch)
        /\ v.phase = "resolve" => \A k \in 1 .. v.next - 1 : Ready(v.work, v.batch[k])
        /\ v.phase = "save" => \A k \in 1 .. Len(v.batch) : Ready(v.work, v.batch[k])

\* The inductive invariant.
IInv ==
    /\ TypeOK
    /\ Consistent(db)
    /\ \A r \in Requests : ViewOK(tx[r])

-----------------------------------------------------------------------------

\* The actions of a batch are uploads, and there is at least one.
LEMMA BatchFacts ==
    ASSUME NEW batch \in Batches
    PROVE  /\ Len(batch) \in Nat \ {0}
           /\ \A k \in 1 .. Len(batch) : batch[k] \in Upload
  BY StoreAssumption

\* A transaction at an action of its batch.
LEMMA CurrentFacts ==
    ASSUME NEW v \in TxState, ViewOK(v), v.phase # "idle", v.next <= Len(v.batch)
    PROVE  /\ v.next \in 1 .. Len(v.batch)
           /\ v.batch[v.next] \in Upload
           /\ v.work \in Tables
           /\ Len(v.batch) \in Nat \ {0}
  BY BatchFacts DEF ViewOK, TxState

\* No transaction.
LEMMA NoTxFacts == NoTx \in TxState /\ ViewOK(NoTx)
  BY EmptyConsistent DEF NoTx, TxState, ViewOK, Phases

\* An open snapshot that goes out of date keeps its view.
LEMMA MarkStaleFacts ==
    ASSUME NEW txs \in [Requests -> TxState], NEW others,
           \A r \in Requests : ViewOK(txs[r])
    PROVE  /\ MarkStale(txs, others) \in [Requests -> TxState]
           /\ \A r \in Requests : ViewOK(MarkStale(txs, others)[r])
  <1> DEFINE m == MarkStale(txs, others)
  <1>1. ASSUME NEW r \in Requests PROVE m[r] \in TxState /\ ViewOK(m[r])
    <2>1. m[r] = txs[r] \/ m[r] = [txs[r] EXCEPT !.stale = TRUE]
      BY DEF MarkStale
    <2>2. CASE m[r] = txs[r]
      BY <2>2
    <2>3. CASE m[r] = [txs[r] EXCEPT !.stale = TRUE]
      <3>1. /\ m[r].phase = txs[r].phase /\ m[r].batch = txs[r].batch
            /\ m[r].next = txs[r].next /\ m[r].work = txs[r].work
            /\ m[r] \in TxState
        BY <2>3 DEF TxState
      <3> HIDE DEF m
      <3> QED BY <3>1 DEF ViewOK
    <2> QED BY <2>1, <2>2, <2>3
  <1>2. m = [r \in Requests |-> m[r]]
    BY DEF MarkStale
  <1> QED BY <1>1, <1>2

\* A step that changes the transaction of r only, to v.
LEMMA OneTransaction ==
    ASSUME IInv, NEW r \in Requests, NEW v \in TxState, ViewOK(v),
           tx' = [tx EXCEPT ![r] = v], UNCHANGED db, writer' \in Requests \cup {None}
    PROVE  IInv'
  <1>1. tx' \in [Requests -> TxState]
    BY DEF IInv, TypeOK
  <1>2. \A q \in Requests : tx'[q] = IF q = r THEN v ELSE tx[q]
    BY DEF IInv, TypeOK
  <1>3. \A q \in Requests : ViewOK(tx'[q])
    BY <1>2 DEF IInv
  <1> QED BY <1>1, <1>3 DEF IInv, TypeOK

-----------------------------------------------------------------------------
\* The steps of AddAction.

LEMMA BeginStep ==
    ASSUME IInv, NEW r \in Requests, NEW batch \in Batches, Begin(r, batch)
    PROVE  IInv'
  <1> DEFINE v == [NoTx EXCEPT !.phase = "resolve", !.batch = batch, !.work = db]
  <1>1. /\ v.phase = "resolve" /\ v.batch = batch /\ v.work = db /\ v.next = 1
        /\ v \in TxState
    BY DEF NoTx, TxState, IInv, TypeOK, Phases
  <1>2. tx' = [tx EXCEPT ![r] = v] /\ UNCHANGED db /\ writer' \in Requests \cup {None}
    BY DEF Begin, IInv, TypeOK
  <1> HIDE DEF v
  <1>3. ViewOK(v)
    BY <1>1, BatchFacts DEF ViewOK, IInv
  <1> QED BY <1>1, <1>2, <1>3, OneTransaction

LEMMA ResolveStep ==
    ASSUME IInv, NEW r \in Requests, Resolve(r)
    PROVE  IInv'
  <1> DEFINE w == tx[r]
             a == Current(r)
             t == EnsureDevice(EnsurePodcast(w.work, a.podcast), a.device)
             last == w.next = Len(w.batch)
             v == [w EXCEPT !.work = t, !.phase = IF last THEN "save" ELSE "resolve",
                            !.next = IF last THEN 1 ELSE @ + 1]
  <1>1. w \in TxState /\ ViewOK(w) /\ w.phase = "resolve"
    BY DEF Resolve, IInv, TypeOK
  <1>2. w.next <= Len(w.batch)
    BY <1>1 DEF ViewOK
  <1>3. /\ w.next \in 1 .. Len(w.batch) /\ a \in Upload /\ w.work \in Tables
        /\ a = w.batch[w.next] /\ Len(w.batch) \in Nat \ {0}
    BY <1>1, <1>2, CurrentFacts DEF Current
  <1>4. a.podcast \in Podcasts /\ a.device \in Devices
    BY <1>3 DEF Resolve, Upload, EpisodeRow
  <1>5. EnsurePodcast(w.work, a.podcast) \in Tables /\ t \in Tables /\ Consistent(t)
    BY <1>1, <1>3, <1>4, EnsurePodcastConsistent, EnsureDeviceConsistent DEF ViewOK
  <1>6. \A b \in Upload : Ready(w.work, b) => Ready(t, b)
    BY <1>3, <1>4, <1>5, ReadyKept
  <1>7. Ready(t, a)
    BY <1>3, ResolveMakesReady
  <1>8. tx' = [tx EXCEPT ![r] = v] /\ UNCHANGED db /\ writer' \in Requests \cup {None}
    BY DEF Resolve, Writing, IInv, TypeOK
  <1>9. /\ v.work = t /\ v.batch = w.batch
        /\ v.phase = IF last THEN "save" ELSE "resolve"
        /\ v.next = IF last THEN 1 ELSE w.next + 1
        /\ v \in TxState
    <2> DEFINE n == IF last THEN 1 ELSE w.next + 1
               ph == IF last THEN "save" ELSE "resolve"
    <2>1. n \in Nat
      BY <1>3
    <2>2. ph \in Phases
      BY DEF Phases
    <2>3. v = [w EXCEPT !.work = t, !.phase = ph, !.next = n]
      OBVIOUS
    <2> HIDE DEF n, ph, t
    <2>4. /\ v.work = t /\ v.batch = w.batch /\ v.phase = ph /\ v.next = n
          /\ v \in TxState
      BY <1>1, <1>5, <2>1, <2>2, <2>3 DEF TxState
    <2> QED BY <2>4 DEF n, ph
  <1>10. \A k \in 1 .. w.next : w.batch[k] \in Upload /\ Ready(t, w.batch[k])
    <2> SUFFICES ASSUME NEW k \in 1 .. w.next
                 PROVE  w.batch[k] \in Upload /\ Ready(t, w.batch[k])
      OBVIOUS
    <2>1. w.batch[k] \in Upload
      BY <1>1, <1>3, BatchFacts DEF ViewOK
    <2>2. CASE k = w.next
      BY <1>3, <1>7, <2>1, <2>2
    <2>3. CASE k # w.next
      BY <1>1, <1>3, <1>6, <2>1, <2>3 DEF ViewOK
    <2> QED BY <2>1, <2>2, <2>3
  <1> HIDE DEF v, t, a
  <1>11. ViewOK(v)
    BY <1>1, <1>3, <1>5, <1>9, <1>10 DEF ViewOK
  <1> QED BY <1>8, <1>9, <1>11, OneTransaction

LEMMA ResolvePanicsStep ==
    ASSUME IInv, NEW r \in Requests, ResolvePanics(r)
    PROVE  IInv'
  <1> DEFINE w == tx[r]
             a == Current(r)
             t == EnsurePodcast(w.work, a.podcast)
             v == [w EXCEPT !.work = t, !.phase = "panicked"]
  <1>1. w \in TxState /\ ViewOK(w) /\ w.phase = "resolve"
    BY DEF ResolvePanics, IInv, TypeOK
  <1>2. w.next <= Len(w.batch)
    BY <1>1 DEF ViewOK
  <1>3. a \in Upload /\ w.work \in Tables
    BY <1>1, <1>2, CurrentFacts DEF Current
  <1>4. t \in Tables /\ Consistent(t)
    BY <1>1, <1>3, EnsurePodcastConsistent DEF ViewOK, Upload, EpisodeRow
  <1>5. tx' = [tx EXCEPT ![r] = v] /\ UNCHANGED db /\ writer' \in Requests \cup {None}
    BY DEF ResolvePanics, Writing, IInv, TypeOK
  <1>6. /\ v.work = t /\ v.batch = w.batch /\ v.phase = "panicked" /\ v.next = w.next
        /\ v \in TxState
    BY <1>1, <1>4 DEF TxState, Phases
  <1> HIDE DEF v, t, a
  <1>7. ViewOK(v)
    BY <1>1, <1>2, <1>4, <1>6 DEF ViewOK
  <1> QED BY <1>5, <1>6, <1>7, OneTransaction

LEMMA SaveStep ==
    ASSUME IInv, NEW r \in Requests, Save(r)
    PROVE  IInv'
  <1> DEFINE w == tx[r]
             a == Current(r)
             h == CHOOSE x \in FreeHistIds(w.work) : TRUE
  <1>1. w \in TxState /\ ViewOK(w) /\ w.phase = "save" /\ w.next <= Len(w.batch)
    BY DEF Save, IInv, TypeOK
  <1>2. /\ w.next \in 1 .. Len(w.batch) /\ a \in Upload /\ w.work \in Tables
        /\ a = w.batch[w.next] /\ Len(w.batch) \in Nat \ {0}
    BY <1>1, CurrentFacts DEF Current
  <1>3. h \in FreeHistIds(w.work)
    BY DEF Save
  <1>4. PICK i \in TargetIds(w.work, a) :
           tx' = [tx EXCEPT ![r].work = SaveAction(w.work, a, i, h), ![r].next = @ + 1]
    BY DEF Save
  <1> DEFINE t == SaveAction(w.work, a, i, h)
             v == [w EXCEPT !.work = t, !.next = @ + 1]
  <1>5. t \in Tables /\ Consistent(t)
    BY <1>1, <1>2, <1>3, SaveActionConsistent DEF ViewOK
  <1>6. \A k \in 1 .. Len(w.batch) : Ready(t, w.batch[k])
    BY <1>1, <1>2, ReadyKept, BatchFacts DEF ViewOK
  <1>7. tx' = [tx EXCEPT ![r] = v] /\ UNCHANGED db /\ writer' \in Requests \cup {None}
    BY <1>4 DEF Save, Writing, IInv, TypeOK
  <1>8. /\ v.work = t /\ v.batch = w.batch /\ v.phase = "save" /\ v.next = w.next + 1
        /\ v \in TxState
    <2> DEFINE n == w.next + 1
    <2>1. n \in Nat
      BY <1>2
    <2> HIDE DEF n, t
    <2>2. /\ v.work = t /\ v.batch = w.batch /\ v.phase = "save" /\ v.next = n
          /\ v \in TxState
      BY <1>1, <1>5, <2>1 DEF TxState, n
    <2> QED BY <2>2 DEF n
  <1> HIDE DEF v, t, a
  <1>9. ViewOK(v)
    BY <1>1, <1>2, <1>5, <1>6, <1>8 DEF ViewOK
  <1> QED BY <1>7, <1>8, <1>9, OneTransaction

LEMMA CommitStep ==
    ASSUME IInv, NEW r \in Requests, Commit(r)
    PROVE  IInv'
  <1> DEFINE txs == [tx EXCEPT ![r] = NoTx]
  <1>1. db' = tx[r].work /\ tx' = MarkStale(txs, Requests \ {r}) /\ writer' = None
    BY DEF Commit
  <1>2. tx[r] \in TxState /\ ViewOK(tx[r]) /\ tx[r].phase = "save"
    BY DEF Commit, IInv, TypeOK
  <1>3. db' \in Tables /\ Consistent(db')
    BY <1>1, <1>2 DEF ViewOK, TxState
  <1>4. txs \in [Requests -> TxState] /\ \A q \in Requests : ViewOK(txs[q])
    BY NoTxFacts DEF IInv, TypeOK
  <1> HIDE DEF txs
  <1>5. tx' \in [Requests -> TxState] /\ \A q \in Requests : ViewOK(tx'[q])
    BY <1>1, <1>4, MarkStaleFacts
  <1> QED BY <1>1, <1>3, <1>5 DEF IInv, TypeOK

LEMMA RollbackStep ==
    ASSUME IInv, NEW r \in Requests, Rollback(r)
    PROVE  IInv'
  BY NoTxFacts, OneTransaction DEF Rollback, IInv, TypeOK

\* A transaction of another operation, which commits t.
LEMMA WriteStep ==
    ASSUME IInv, NEW t \in Tables, Consistent(t), Write(t)
    PROVE  IInv'
  <1>1. db' = t /\ tx' = MarkStale(tx, Requests) /\ writer' = writer
    BY DEF Write
  <1>2. tx' \in [Requests -> TxState] /\ \A q \in Requests : ViewOK(tx'[q])
    BY <1>1, MarkStaleFacts DEF IInv, TypeOK
  <1> QED BY <1>1, <1>2 DEF IInv, TypeOK

LEMMA OtherWritersStep ==
    ASSUME IInv, OtherWriters
    PROVE  IInv'
  <1>1. db \in Tables /\ Consistent(db)
    BY DEF IInv, TypeOK
  <1>2. ASSUME NEW d \in Devices, UpdateDevice(d) PROVE IInv'
    BY <1>1, <1>2, EnsureDeviceConsistent, WriteStep DEF UpdateDevice
  <1>3. ASSUME NEW d \in Devices, DeleteDevice(d) PROVE IInv'
    BY <1>1, <1>3, WithoutDeviceConsistent, WriteStep DEF DeleteDevice
  <1>4. ASSUME NEW p \in Podcasts, Subscribe(p) PROVE IInv'
    BY <1>1, <1>4, EnsurePodcastConsistent, WriteStep DEF Subscribe
  <1>5. ASSUME NEW p \in Podcasts, Unsubscribe(p) PROVE IInv'
    BY <1>1, <1>5, UnsubscribedConsistent, WriteStep DEF Unsubscribe
  <1>6. ASSUME NEW p \in Podcasts, DeletePodcast(p) PROVE IInv'
    BY <1>1, <1>6, WithoutPodcastConsistent, WriteStep DEF DeletePodcast
  <1>7. ASSUME NEW f \in Feeds, UpdateEpisodeInfo(f[1], f[2]) PROVE IInv'
    <2>1. f[2] \in Guids
      BY StoreAssumption
    <2> QED BY <1>1, <1>7, <2>1, FeedGuidConsistent, WriteStep DEF UpdateEpisodeInfo
  <1> QED BY <1>2, <1>3, <1>4, <1>5, <1>6, <1>7 DEF OtherWriters

-----------------------------------------------------------------------------

\* The invariant is inductive.
LEMMA IInvInductive ==
    /\ Init => IInv
    /\ IInv /\ [Next]_vars => IInv'
  <1>1. ASSUME Init PROVE IInv
    <2>1. tx \in [Requests -> TxState] /\ \A r \in Requests : ViewOK(tx[r])
      BY <1>1, NoTxFacts DEF Init
    <2> QED BY <1>1, <2>1, EmptyConsistent DEF Init, IInv, TypeOK
  <1>2. ASSUME IInv, [Next]_vars PROVE IInv'
    <2>1. ASSUME NEW r \in Requests, AddAction(r) PROVE IInv'
      BY <1>2, <2>1, BeginStep, ResolveStep, ResolvePanicsStep, SaveStep, CommitStep,
         RollbackStep DEF AddAction
    <2>2. CASE OtherWriters
      BY <1>2, <2>2, OtherWritersStep
    <2>3. CASE UNCHANGED vars
      BY <1>2, <2>3 DEF vars, IInv, TypeOK
    <2> QED BY <1>2, <2>1, <2>2, <2>3 DEF Next
  <1> QED BY <1>1, <1>2

\* Every variable keeps its shape, whatever the requests and the other writers do.
THEOREM TypeCorrect == Spec => []TypeOK
  <1>1. IInv => TypeOK
    BY DEF IInv
  <1> QED BY <1>1, IInvInductive, PTL DEF Spec

\* What the server shows of an episode is always the newest of its recorded actions.
THEOREM LatestShown == Spec => []LatestActionShown
  <1>1. IInv => LatestActionShown
    BY DEF IInv, Consistent, LatestActionShown
  <1> QED BY <1>1, IInvInductive, PTL DEF Spec

\* Racing uploads of a new episode never leave two rows for it.
THEOREM UrlsStayUnique == Spec => []OneRowPerUrl
  <1>1. IInv => OneRowPerUrl
    BY DEF IInv, Consistent, OneRowPerUrl
  <1> QED BY <1>1, IInvInductive, PTL DEF Spec

\* Rows refer to rows that exist, although podcasts and devices are deleted meanwhile.
THEOREM ReferencesHold == Spec => []RowsReferToRows
  <1>1. IInv => RowsReferToRows
    BY DEF IInv, Consistent, RowsReferToRows
  <1> QED BY <1>1, IInvInductive, PTL DEF Spec

-----------------------------------------------------------------------------
\* Action properties.  A transaction commits its view, so the view has to extend the
\* database of that moment: the write lock keeps others from committing once the
\* transaction has written, and before its first write the snapshot is checked.

\* What holds of the transaction v of request r beside the database s.
SnapshotOK(s, v, isWriter) ==
    /\ v.phase # "idle" /\ ~v.stale => ExtendsBy(s, v.work, v.batch)
    /\ v.phase = "save" /\ ~v.stale =>
          \A k \in 1 .. v.next - 1 : RecordedSince(s, v.work, v.batch[k])
    /\ isWriter => v.phase # "idle" /\ ~v.stale
    /\ v.phase = "save" /\ v.next > 1 => isWriter

\* The inductive invariant, with the snapshots.
SInv == IInv /\ \A r \in Requests : SnapshotOK(db, tx[r], writer = r)

\* A snapshot extends itself.
LEMMA ExtendsSelf ==
    ASSUME NEW s \in Tables, NEW batch
    PROVE  ExtendsBy(s, s, batch)
  <1>1. \A i \in DOMAIN s.episodes : s.episodes[i].ts \in Nat
    BY TablesDef, TablesAssumption DEF EpisodeRow
  <1> QED BY <1>1 DEF ExtendsBy, Extends

\* The first loop adds the podcast and the device of an action of its batch.
LEMMA ExtendsResolve ==
    ASSUME NEW s \in Tables, NEW t \in Tables, NEW batch, NEW a \in Upload,
           a \in Named(batch), ExtendsBy(s, t, batch)
    PROVE  /\ ExtendsBy(s, EnsurePodcast(t, a.podcast), batch)
           /\ ExtendsBy(s, EnsureDevice(EnsurePodcast(t, a.podcast), a.device), batch)
  <1> DEFINE e == EnsurePodcast(t, a.podcast)
             u == EnsureDevice(e, a.device)
  <1>1. /\ e.devices = t.devices /\ e.episodes = t.episodes /\ e.hist = t.hist
        /\ e.podcasts = [t.podcasts EXCEPT ![a.podcast] = "subscribed"]
        /\ e \in Tables
    BY EnsurePodcastConsistent DEF EnsurePodcast, Tables, Upload, EpisodeRow
  <1>2. /\ u.devices = e.devices \cup {a.device} /\ u.episodes = e.episodes /\ u.hist = e.hist
        /\ u.podcasts = e.podcasts
    BY <1>1 DEF EnsureDevice, Tables
  <1>3. \A p \in Podcasts : e.podcasts[p] = IF p = a.podcast THEN "subscribed" ELSE t.podcasts[p]
    BY <1>1, TablesDef
  <1> HIDE DEF e, u
  <1>4. Extends(s, e) /\ Extends(s, u)
    BY <1>1, <1>2, <1>3 DEF ExtendsBy, Extends
  <1>5. e.devices \subseteq u.devices /\ u.devices \subseteq t.devices \cup {a.device}
    BY <1>1, <1>2
  <1>6. u.devices \subseteq s.devices \cup {b.device : b \in Named(batch)}
    BY <1>5 DEF ExtendsBy
  <1>7. \A p \in Podcasts : e.podcasts[p] # s.podcasts[p] => p \in {b.podcast : b \in Named(batch)}
    BY <1>3 DEF ExtendsBy
  <1> QED BY <1>2, <1>4, <1>5, <1>6, <1>7 DEF ExtendsBy, e, u

\* The second loop adds rows, and moves an episode on to a newer action only.
LEMMA ExtendsSave ==
    ASSUME NEW s \in Tables, NEW t \in Tables, NEW batch, NEW a \in Upload, Consistent(t),
           NEW i \in TargetIds(t, a), NEW h \in FreeHistIds(t), ExtendsBy(s, t, batch)
    PROVE  /\ ExtendsBy(s, SaveAction(t, a, i, h), batch)
           /\ RecordedSince(s, SaveAction(t, a, i, h), a)
           /\ \A b : RecordedSince(s, t, b) => RecordedSince(s, SaveAction(t, a, i, h), b)
  <1> DEFINE row == EpisodeAfter(t, a, i)
             u == SaveAction(t, a, i, h)
  <1>1. /\ u.devices = t.devices /\ u.podcasts = t.podcasts
        /\ u.episodes = PutRow(t.episodes, i, row)
        /\ u.hist = PutRow(t.hist, h, [episode |-> i, action |-> a.action,
                                       device |-> a.device, ts |-> a.ts])
    BY DEF SaveAction, Tables
  <1>2. h \notin DOMAIN t.hist
    BY DEF FreeHistIds
  <1>3. /\ DOMAIN u.episodes = DOMAIN t.episodes \cup {i}
        /\ DOMAIN u.hist = DOMAIN t.hist \cup {h}
        /\ u.episodes[i] = row
        /\ u.hist[h].episode = i /\ u.hist[h].action = a.action
        /\ u.hist[h].device = a.device /\ u.hist[h].ts = a.ts
        /\ \A j \in DOMAIN t.episodes : j # i => u.episodes[j] = t.episodes[j]
        /\ \A k \in DOMAIN t.hist : u.hist[k] = t.hist[k]
    BY <1>1, <1>2 DEF PutRow
  <1>4. ASSUME i \in DOMAIN t.episodes
        PROVE  /\ row.podcast = t.episodes[i].podcast /\ row.url = t.episodes[i].url
               /\ row.guid = t.episodes[i].guid /\ t.episodes[i].ts <= row.ts
    <2>1. t.episodes[i].ts \in Nat /\ a.ts \in Nat /\ t.episodes[i] \in EpisodeRow
      BY <1>4, TablesDef, TablesAssumption DEF Upload, EpisodeRow
    <2>2. CASE t.episodes[i].ts < a.ts
      <3>1. row = [t.episodes[i] EXCEPT !.action = a.action, !.device = a.device, !.ts = a.ts]
        BY <1>4, <2>2 DEF EpisodeAfter
      <3>2. /\ row.podcast = t.episodes[i].podcast /\ row.url = t.episodes[i].url
            /\ row.guid = t.episodes[i].guid /\ row.ts = a.ts
        BY <2>1, <3>1 DEF EpisodeRow
      <3> QED BY <2>1, <2>2, <3>2
    <2>3. CASE ~(t.episodes[i].ts < a.ts)
      BY <1>4, <2>1, <2>3 DEF EpisodeAfter
    <2> QED BY <2>2, <2>3
  <1>5. row.podcast = a.podcast
    <2>1. CASE i \in DOMAIN t.episodes
      BY <1>4, <2>1 DEF TargetIds, MatchingEpisodes, FreeEpisodeIds
    <2>2. CASE i \notin DOMAIN t.episodes
      BY <2>2 DEF EpisodeAfter
    <2> QED BY <2>1, <2>2
  <1>6. /\ \A k \in DOMAIN t.hist : t.hist[k].episode \in DOMAIN t.episodes
        /\ \A j \in DOMAIN t.episodes : t.episodes[j].ts \in Nat
        /\ \A j \in DOMAIN s.episodes : s.episodes[j].ts \in Nat
    BY TablesDef, TablesAssumption DEF Consistent, RefsHold, EpisodeRow
  <1>7. row.ts \in Nat
    BY TablesDef, TablesAssumption DEF EpisodeAfter, Upload, EpisodeRow
  <1> HIDE DEF u, row
  <1>8. \A j \in DOMAIN t.episodes : /\ j \in DOMAIN u.episodes
                                     /\ u.episodes[j].podcast = t.episodes[j].podcast
                                     /\ u.episodes[j].url = t.episodes[j].url
                                     /\ u.episodes[j].guid = t.episodes[j].guid
                                     /\ t.episodes[j].ts <= u.episodes[j].ts
                                     /\ u.episodes[j].ts \in Nat
    BY <1>3, <1>4, <1>6, <1>7
  <1>9. Extends(s, u)
    <2>1. \A k \in DOMAIN s.hist : k \in DOMAIN u.hist /\ u.hist[k] = s.hist[k]
      BY <1>3 DEF ExtendsBy, Extends
    <2>2. ASSUME NEW j \in DOMAIN s.episodes
          PROVE  /\ j \in DOMAIN u.episodes
                 /\ u.episodes[j].podcast = s.episodes[j].podcast
                 /\ u.episodes[j].url = s.episodes[j].url
                 /\ u.episodes[j].guid = s.episodes[j].guid
                 /\ s.episodes[j].ts <= u.episodes[j].ts
      BY <1>6, <1>8 DEF ExtendsBy, Extends
    <2> QED BY <1>1, <2>1, <2>2 DEF ExtendsBy, Extends, u
  <1>10. ExtendsBy(s, u, batch)
    BY <1>1, <1>9 DEF ExtendsBy, u
  <1>11. RecordedSince(s, u, a)
    BY <1>2, <1>3, <1>5 DEF RecordedSince, ExtendsBy, Extends
  <1>12. ASSUME NEW b, RecordedSince(s, t, b) PROVE RecordedSince(s, u, b)
    BY <1>3, <1>6, <1>8, <1>12 DEF RecordedSince
  <1> QED BY <1>10, <1>11, <1>12 DEF u

\* A step of request r that leaves the database and the other requests alone.
LEMMA OneSnapshot ==
    ASSUME SInv, IInv', NEW r \in Requests, UNCHANGED db,
           \A q \in Requests \ {r} : tx'[q] = tx[q],
           writer' = writer \/ (writer \in {None, r} /\ writer' \in {None, r}),
           SnapshotOK(db, tx'[r], writer' = r)
    PROVE  SInv'
  <1>1. ASSUME NEW q \in Requests PROVE SnapshotOK(db', tx'[q], writer' = q)
    <2>1. CASE q = r
      BY <2>1
    <2>2. CASE q # r
      <3>1. tx'[q] = tx[q] /\ db' = db
        BY <2>2
      <3>2. writer' = q <=> writer = q
        BY <2>2, StoreAssumption
      <3>3. SnapshotOK(db, tx[q], writer = q)
        BY DEF SInv
      <3> QED BY <3>1, <3>2, <3>3 DEF SnapshotOK
    <2> QED BY <2>1, <2>2
  <1> QED BY <1>1 DEF SInv

LEMMA BeginSnapshot ==
    ASSUME SInv, IInv', NEW r \in Requests, NEW batch \in Batches, Begin(r, batch)
    PROVE  SInv'
  <1>1. tx'[r] = [NoTx EXCEPT !.phase = "resolve", !.batch = batch, !.work = db]
    BY DEF Begin, SInv, IInv, TypeOK
  <1>2. /\ tx'[r].phase = "resolve" /\ tx'[r].work = db /\ ~tx'[r].stale
    BY <1>1 DEF NoTx
  <1>3. \A q \in Requests \ {r} : tx'[q] = tx[q]
    BY DEF Begin, SInv, IInv, TypeOK
  <1>4. writer # r
    BY DEF Begin, SInv, SnapshotOK
  <1>5. SnapshotOK(db, tx'[r], writer' = r)
    BY <1>2, <1>4, ExtendsSelf DEF SnapshotOK, Begin, SInv, IInv, TypeOK
  <1> QED BY <1>3, <1>5, OneSnapshot DEF Begin

LEMMA ResolveSnapshot ==
    ASSUME SInv, IInv', NEW r \in Requests, Resolve(r) \/ ResolvePanics(r)
    PROVE  SInv'
  <1> DEFINE w == tx[r]
             a == Current(r)
             e == EnsurePodcast(w.work, a.podcast)
             u == EnsureDevice(e, a.device)
  <1>1. w \in TxState /\ ViewOK(w) /\ w.phase = "resolve" /\ tx \in [Requests -> TxState]
    BY DEF Resolve, ResolvePanics, SInv, IInv, TypeOK
  <1>2. w.next <= Len(w.batch)
    BY <1>1 DEF ViewOK
  <1>3. w.next \in 1 .. Len(w.batch) /\ a \in Upload /\ w.work \in Tables /\ a = w.batch[w.next]
    BY <1>1, <1>2, CurrentFacts DEF Current
  <1>4. a \in Named(w.batch)
    BY <1>3 DEF Named
  <1>5. /\ tx'[r].batch = w.batch /\ tx'[r].stale = w.stale
        /\ tx'[r].work \in {e, u}
        /\ tx'[r].phase \in {"resolve", "save", "panicked"}
        /\ tx'[r].phase = "save" => tx'[r].next = 1
    <2>1. CASE Resolve(r)
      <3> DEFINE last == w.next = Len(w.batch)
                 ph == IF last THEN "save" ELSE "resolve"
                 n == IF last THEN 1 ELSE w.next + 1
      <3>1. tx'[r] = [w EXCEPT !.work = u, !.phase = ph, !.next = n]
        BY <1>1, <2>1 DEF Resolve
      <3>2. ph \in {"resolve", "save"} /\ (ph = "save" => n = 1)
        OBVIOUS
      <3> HIDE DEF u, ph, n, w
      <3> QED BY <1>1, <3>1, <3>2 DEF TxState
    <2>2. CASE ResolvePanics(r)
      <3>1. tx'[r] = [w EXCEPT !.work = e, !.phase = "panicked"]
        BY <1>1, <2>2 DEF ResolvePanics
      <3> HIDE DEF e, w
      <3> QED BY <1>1, <3>1 DEF TxState
    <2> QED BY <2>1, <2>2
  <1>6. \A q \in Requests \ {r} : tx'[q] = tx[q]
    BY <1>1 DEF Resolve, ResolvePanics
  <1>7. /\ UNCHANGED db
        /\ \/ writer' = writer
           \/ writer' = r /\ writer \in {None, r} /\ ~w.stale
    BY DEF Resolve, ResolvePanics, Writing, CanWrite
  <1>8. SnapshotOK(db, w, writer = r)
    BY DEF SInv
  <1>9. db \in Tables
    BY DEF SInv, IInv, TypeOK
  <1> HIDE DEF w, a
  <1>10. ~w.stale => ExtendsBy(db, tx'[r].work, tx'[r].batch)
    BY <1>1, <1>3, <1>4, <1>5, <1>8, <1>9, ExtendsResolve DEF SnapshotOK
  <1>11. SnapshotOK(db, tx'[r], writer' = r)
    <2>1. \A k \in 1 .. 0 : FALSE
      OBVIOUS
    <2>2. writer' = r => ~w.stale
      BY <1>7, <1>8 DEF SnapshotOK
    <2>3. tx'[r].phase = "save" => tx'[r].next - 1 = 0 /\ ~(tx'[r].next > 1)
      BY <1>5
    <2> QED BY <1>5, <1>10, <2>1, <2>2, <2>3 DEF SnapshotOK
  <1> QED BY <1>6, <1>7, <1>11, OneSnapshot

LEMMA SaveSnapshot ==
    ASSUME SInv, IInv', NEW r \in Requests, Save(r)
    PROVE  SInv'
  <1> DEFINE w == tx[r]
             a == Current(r)
             h == CHOOSE x \in FreeHistIds(w.work) : TRUE
  <1>1. /\ w \in TxState /\ ViewOK(w) /\ w.phase = "save" /\ w.next <= Len(w.batch)
        /\ tx \in [Requests -> TxState]
    BY DEF Save, SInv, IInv, TypeOK
  <1>2. /\ w.next \in 1 .. Len(w.batch) /\ a \in Upload /\ w.work \in Tables
        /\ a = w.batch[w.next] /\ Consistent(w.work)
    BY <1>1, CurrentFacts DEF Current, ViewOK
  <1>3. h \in FreeHistIds(w.work)
    BY DEF Save
  <1>4. PICK i \in TargetIds(w.work, a) :
           tx' = [tx EXCEPT ![r].work = SaveAction(w.work, a, i, h), ![r].next = @ + 1]
    BY DEF Save
  <1> DEFINE u == SaveAction(w.work, a, i, h)
  <1>5. /\ tx'[r].batch = w.batch /\ tx'[r].stale = w.stale /\ tx'[r].work = u
        /\ tx'[r].phase = "save" /\ tx'[r].next = w.next + 1
    <2> DEFINE n == w.next + 1
    <2>1. tx'[r] = [w EXCEPT !.work = u, !.next = n]
      BY <1>1, <1>4
    <2> HIDE DEF n, u
    <2> QED BY <1>1, <2>1 DEF TxState, n
  <1>6. \A q \in Requests \ {r} : tx'[q] = tx[q]
    BY <1>1, <1>4
  <1>7. UNCHANGED db /\ writer' = r /\ writer \in {None, r} /\ ~w.stale
    BY DEF Save, Writing, CanWrite
  <1>8. SnapshotOK(db, w, writer = r) /\ db \in Tables
    BY DEF SInv, IInv, TypeOK
  <1>9. /\ ExtendsBy(db, w.work, w.batch)
        /\ \A k \in 1 .. w.next - 1 : RecordedSince(db, w.work, w.batch[k])
    BY <1>1, <1>7, <1>8 DEF SnapshotOK
  <1>10. /\ ExtendsBy(db, u, w.batch) /\ RecordedSince(db, u, a)
         /\ \A b : RecordedSince(db, w.work, b) => RecordedSince(db, u, b)
    BY <1>2, <1>3, <1>8, <1>9, ExtendsSave
  <1>11. \A k \in 1 .. tx'[r].next - 1 : RecordedSince(db, u, w.batch[k])
    <2> SUFFICES ASSUME NEW k \in 1 .. w.next PROVE RecordedSince(db, u, w.batch[k])
      BY <1>2, <1>5
    <2>1. CASE k = w.next
      BY <1>2, <1>10, <2>1
    <2>2. CASE k # w.next
      BY <1>2, <1>9, <1>10, <2>2
    <2> QED BY <2>1, <2>2
  <1> HIDE DEF u, w
  <1>12. SnapshotOK(db, tx'[r], writer' = r)
    BY <1>5, <1>7, <1>10, <1>11 DEF SnapshotOK
  <1> QED BY <1>6, <1>7, <1>12, OneSnapshot

LEMMA RollbackSnapshot ==
    ASSUME SInv, IInv', NEW r \in Requests, Rollback(r)
    PROVE  SInv'
  <1>1. tx'[r] = NoTx /\ \A q \in Requests \ {r} : tx'[q] = tx[q]
    BY DEF Rollback, SInv, IInv, TypeOK
  <1>2. NoTx.phase = "idle" /\ NoTx.next = 1
    BY DEF NoTx
  <1>3. writer' # r
    BY StoreAssumption DEF Rollback
  <1>4. SnapshotOK(db, tx'[r], writer' = r)
    BY <1>1, <1>2, <1>3 DEF SnapshotOK
  <1> QED BY <1>1, <1>4, OneSnapshot DEF Rollback

\* After somebody's commit nobody holds the lock, and every open snapshot is out of date.
LEMMA StaleSnapshots ==
    ASSUME IInv', NEW txs \in [Requests -> TxState], NEW others,
           tx' = MarkStale(txs, others), writer' = None,
           \A q \in Requests :
               \/ txs[q].phase = "idle"
               \/ q \in others /\ ~(txs[q].phase = "save" /\ txs[q].next > 1)
    PROVE  SInv'
  <1>1. ASSUME NEW q \in Requests PROVE SnapshotOK(db', tx'[q], writer' = q)
    <2>1. CASE txs[q].phase = "idle"
      <3>1. tx'[q].phase = "idle"
        BY <2>1 DEF MarkStale
      <3> QED BY <3>1, StoreAssumption DEF SnapshotOK
    <2>2. CASE txs[q].phase # "idle"
      <3>1. tx'[q] = [txs[q] EXCEPT !.stale = TRUE]
        BY <2>2 DEF MarkStale
      <3>2. tx'[q].stale /\ tx'[q].phase = txs[q].phase /\ tx'[q].next = txs[q].next
        BY <3>1 DEF TxState
      <3> QED BY <2>2, <3>2, StoreAssumption DEF SnapshotOK
    <2> QED BY <2>1, <2>2
  <1> QED BY <1>1 DEF SInv

\* At its commit a transaction holds the lock, and its view extends the database.
LEMMA CommitFacts ==
    ASSUME SInv, NEW r \in Requests, Commit(r)
    PROVE  /\ writer = r /\ db' = tx[r].work
           /\ ExtendsBy(db, db', tx[r].batch)
           /\ \A k \in 1 .. Len(tx[r].batch) :
                 RecordedSince(db, db', tx[r].batch[k]) /\ Ready(db', tx[r].batch[k])
  <1>1. /\ db' = tx[r].work /\ tx[r].phase = "save" /\ tx[r].next > Len(tx[r].batch)
        /\ ViewOK(tx[r]) /\ tx[r] \in TxState /\ SnapshotOK(db, tx[r], writer = r)
    BY DEF Commit, SInv, IInv, TypeOK
  <1>2. /\ Len(tx[r].batch) \in Nat \ {0} /\ tx[r].next = Len(tx[r].batch) + 1
        /\ \A k \in 1 .. Len(tx[r].batch) : Ready(tx[r].work, tx[r].batch[k])
    BY <1>1, BatchFacts DEF ViewOK
  <1>3. writer = r /\ ~tx[r].stale
    BY <1>1, <1>2 DEF SnapshotOK
  <1> QED BY <1>1, <1>2, <1>3 DEF SnapshotOK

LEMMA CommitSnapshot ==
    ASSUME SInv, IInv', NEW r \in Requests, Commit(r)
    PROVE  SInv'
  <1> DEFINE txs == [tx EXCEPT ![r] = NoTx]
  <1>1. tx' = MarkStale(txs, Requests \ {r}) /\ writer' = None
    BY DEF Commit
  <1>2. txs \in [Requests -> TxState] /\ txs[r].phase = "idle"
    BY NoTxFacts DEF SInv, IInv, TypeOK, NoTx
  <1>3. ASSUME NEW q \in Requests \ {r}
        PROVE  txs[q] = tx[q] /\ ~(tx[q].phase = "save" /\ tx[q].next > 1)
    BY CommitFacts DEF SInv, IInv, TypeOK, SnapshotOK
  <1> HIDE DEF txs
  <1> QED BY <1>1, <1>2, <1>3, StaleSnapshots

LEMMA WriteSnapshot ==
    ASSUME SInv, IInv', NEW t, Write(t)
    PROVE  SInv'
  <1>1. tx' = MarkStale(tx, Requests) /\ writer = None /\ writer' = None
    BY DEF Write
  <1>2. tx \in [Requests -> TxState]
    BY DEF SInv, IInv, TypeOK
  <1>3. \A q \in Requests : ~(tx[q].phase = "save" /\ tx[q].next > 1)
    BY <1>1, StoreAssumption DEF SInv, SnapshotOK
  <1> QED BY <1>1, <1>2, <1>3, StaleSnapshots

LEMMA SInvInductive ==
    /\ Init => SInv
    /\ SInv /\ [Next]_vars => SInv'
  <1>1. ASSUME Init PROVE SInv
    <2>1. \A r \in Requests : tx[r].phase = "idle" /\ writer # r
      BY <1>1, StoreAssumption DEF Init, NoTx
    <2> QED BY <1>1, <2>1, IInvInductive DEF SInv, SnapshotOK
  <1>2. ASSUME SInv, [Next]_vars PROVE SInv'
    <2>1. IInv'
      BY <1>2, IInvInductive DEF SInv
    <2>2. ASSUME NEW r \in Requests, AddAction(r) PROVE SInv'
      BY <1>2, <2>1, <2>2, BeginSnapshot, ResolveSnapshot, SaveSnapshot, CommitSnapshot,
         RollbackSnapshot DEF AddAction
    <2>3. CASE OtherWriters
      BY <1>2, <2>1, <2>3, WriteSnapshot
      DEF OtherWriters, UpdateDevice, DeleteDevice, Subscribe, Unsubscribe, DeletePodcast,
          UpdateEpisodeInfo
    <2>4. CASE UNCHANGED vars
      BY <1>2, <2>1, <2>4 DEF vars, SInv, SnapshotOK
    <2> QED BY <1>2, <2>2, <2>3, <2>4 DEF Next
  <1> QED BY <1>1, <1>2

\* No upload overwrites or revives what others committed while it ran.
THEOREM UpdatesKept == Spec => NoLostUpdate
  <1>1. SInv /\ [Next]_vars =>
          [\A r \in Requests : Commit(r) => ExtendsBy(db, db', tx[r].batch)]_vars
    BY CommitFacts
  <1> QED BY <1>1, SInvInductive, PTL DEF Spec, NoLostUpdate

\* Every action of a successful upload is in the history, and its podcast subscribed.
THEOREM UploadsRecorded == Spec => BatchRecorded
  <1>1. SInv /\ [Next]_vars =>
          [\A r \in Requests : Commit(r) =>
              \A a \in Named(tx[r].batch) :
                  db'.podcasts[a.podcast] = "subscribed" /\ RecordedSince(db, db', a)]_vars
    BY CommitFacts DEF Named, Ready
  <1> QED BY <1>1, SInvInductive, PTL DEF Spec, BatchRecorded

-----------------------------------------------------------------------------
\* The refinement.  The abstract upload folds Saved over the batch; a transaction whose
\* snapshot is current has folded it over the actions before the one it is at.

\* A set of natural numbers has a least one.
LEMMA LeastNumber ==
    ASSUME NEW S \in SUBSET Nat, S # {}
    PROVE  \E n \in S : \A m \in S : n <= m
  <1>1. PICK b \in S : TRUE
    OBVIOUS
  <1> DEFINE B == 0 .. b
             T == {0 .. k : k \in {m \in S : m <= b}}
  <1>2. IsWellFoundedOn(StrictSubsetOrdering(B), FiniteSubsetsOf(B))
    BY FS_Interval, FS_StrictSubsetOrderingWellFounded
  <1>3. T \subseteq FiniteSubsetsOf(B)
    <2>1. IsFiniteSet(B)
      BY FS_Interval
    <2>2. T \subseteq SUBSET B
      OBVIOUS
    <2> HIDE DEF T, B
    <2> QED BY <2>1, <2>2, FS_FiniteSubsetsOfFinite
  <1>4. T # {}
    <2>1. b <= b
      OBVIOUS
    <2> QED BY <2>1
  <1>5. PICK X \in T : \A Y \in T : <<Y, X>> \notin StrictSubsetOrdering(B)
    <2> HIDE DEF T, B
    <2> QED BY <1>2, <1>3, <1>4, WFMin
  <1>6. PICK n \in S : n <= b /\ X = 0 .. n
    BY <1>5
  <1>7. ASSUME NEW m \in S, m < n PROVE FALSE
    <2>1. 0 .. m \in T /\ 0 .. m \subseteq B /\ 0 .. n \subseteq B
      BY <1>6, <1>7
    <2>2. 0 .. m \subseteq 0 .. n /\ n \in 0 .. n /\ n \notin 0 .. m
      BY <1>7
    <2> HIDE DEF T, B
    <2>3. <<0 .. m, 0 .. n>> \in StrictSubsetOrdering(B)
      BY <2>1, <2>2 DEF StrictSubsetOrdering
    <2> QED BY <1>5, <1>6, <2>1, <2>3
  <1>8. \A m \in S : n <= m
    BY <1>7
  <1> QED BY <1>8

\* The operators of the abstract specification are those of the detailed one.
LEMMA ServiceOperators ==
    ASSUME NEW t, NEW a
    PROVE  /\ Service!EmptyTables = EmptyTables
           /\ Service!FreeHistIds(t) = FreeHistIds(t)
           /\ Service!TargetIds(t, a) = TargetIds(t, a)
           /\ \A i, h : Service!SaveAction(t, a, i, h) = SaveAction(t, a, i, h)
  <1>1. Service!EmptyTables = EmptyTables
    BY DEF Service!EmptyTables, EmptyTables
  <1>2. Service!FreeHistIds(t) = FreeHistIds(t)
    BY DEF Service!FreeHistIds, FreeHistIds
  <1>3. Service!MatchingEpisodes(t, a) = MatchingEpisodes(t, a)
    BY DEF Service!MatchingEpisodes, MatchingEpisodes
  <1>4. Service!FreeEpisodeIds(t) = FreeEpisodeIds(t)
    BY DEF Service!FreeEpisodeIds, FreeEpisodeIds
  <1>5. Service!TargetIds(t, a) = TargetIds(t, a)
    BY <1>3, <1>4 DEF Service!TargetIds, TargetIds
  <1>6. ASSUME NEW i, NEW h PROVE Service!SaveAction(t, a, i, h) = SaveAction(t, a, i, h)
    <2>1. Service!EpisodeAfter(t, a, i) = EpisodeAfter(t, a, i)
      BY DEF Service!EpisodeAfter, EpisodeAfter
    <2>2. \A f, k, row : Service!PutRow(f, k, row) = PutRow(f, k, row)
      BY DEF Service!PutRow, PutRow
    <2> QED BY <2>1, <2>2 DEF Service!SaveAction, SaveAction
  <1> QED BY <1>1, <1>2, <1>5, <1>6

\* The contents after 0, 1, .. n actions of an upload.
Saves(f, t, batch, n) ==
    f = [k \in 0 .. n |->
            IF k = 0 THEN {Service!Prepared(t, batch)}
            ELSE Service!Saved(batch[k], f[k - 1])]

LEMMA SavesExist ==
    ASSUME NEW t, NEW batch, NEW n \in Nat
    PROVE  \E f : Saves(f, t, batch, n)
  <1> DEFINE S == {m \in Nat : ~\E f : Saves(f, t, batch, m)}
             First == {Service!Prepared(t, batch)}
             Then(k, T) == Service!Saved(batch[k], T)
  <1> SUFFICES ASSUME S # {} PROVE FALSE
    OBVIOUS
  <1>1. PICK m \in S : \A j \in S : m <= j
    BY LeastNumber
  <1>2. \A f, j : Saves(f, t, batch, j) <=>
                     f = [k \in 0 .. j |-> IF k = 0 THEN First ELSE Then(k, f[k - 1])]
    BY DEF Saves
  <1> HIDE DEF First, Then
  <1>3. CASE m = 0
    <2> DEFINE f == [k \in 0 .. 0 |-> First]
    <2>1. f = [k \in 0 .. 0 |-> IF k = 0 THEN First ELSE Then(k, f[k - 1])]
      OBVIOUS
    <2> HIDE DEF f
    <2> QED BY <1>2, <1>3, <2>1
  <1>4. CASE m # 0
    <2>1. m - 1 \in Nat /\ m - 1 \notin S
      BY <1>1, <1>4
    <2>2. PICK f : Saves(f, t, batch, m - 1)
      BY <2>1
    <2>3. f = [k \in 0 .. m - 1 |-> IF k = 0 THEN First ELSE Then(k, f[k - 1])]
      BY <1>2, <2>2
    <2> DEFINE After(k) == IF k = m THEN Then(m, f[m - 1]) ELSE f[k]
               g == [k \in 0 .. m |-> After(k)]
    <2>4. ASSUME NEW k \in 0 .. m PROVE g[k] = IF k = 0 THEN First ELSE Then(k, g[k - 1])
      <3>1. CASE k = m
        <4>1. g[m - 1] = f[m - 1]
          BY <2>1
        <4> QED BY <1>4, <3>1, <4>1
      <3>2. CASE k # m
        <4>1. k \in 0 .. m - 1 /\ g[k] = f[k]
          BY <3>2
        <4>2. f[k] = IF k = 0 THEN First ELSE Then(k, f[k - 1])
          BY <2>3, <4>1
        <4>3. k # 0 => g[k - 1] = f[k - 1]
          BY <4>1
        <4> QED BY <4>1, <4>2, <4>3
      <3> QED BY <3>1, <3>2
    <2>5. g = [k \in 0 .. m |-> IF k = 0 THEN First ELSE Then(k, g[k - 1])]
      BY <2>4
    <2> HIDE DEF g
    <2> QED BY <1>2, <2>5
  <1> QED BY <1>3, <1>4

\* The contents that the first n actions of an upload may lead to.
After(t, batch) == CHOOSE f : Saves(f, t, batch, Len(batch))

LEMMA UploadedIs ==
    ASSUME NEW t, NEW batch, Len(batch) \in Nat
    PROVE  /\ Service!Uploaded(t, batch) = After(t, batch)[Len(batch)]
           /\ Saves(After(t, batch), t, batch, Len(batch))
  <1>1. Saves(After(t, batch), t, batch, Len(batch))
    BY SavesExist DEF After
  <1>2. Service!Uploaded(t, batch) = After(t, batch)[Len(batch)]
    BY DEF Service!Uploaded, After, Saves
  <1> QED BY <1>1, <1>2

LEMMA AfterSteps ==
    ASSUME NEW t, NEW batch, Len(batch) \in Nat
    PROVE  /\ After(t, batch)[0] = {Service!Prepared(t, batch)}
           /\ \A k \in 1 .. Len(batch) :
                 After(t, batch)[k] = Service!Saved(batch[k], After(t, batch)[k - 1])
  <1> DEFINE f == After(t, batch)
             L == Len(batch)
  <1>1. Saves(f, t, batch, L)
    BY UploadedIs
  <1> HIDE DEF f
  <1>2. \A k \in 0 .. L : f[k] = IF k = 0 THEN {Service!Prepared(t, batch)}
                                 ELSE Service!Saved(batch[k], f[k - 1])
    BY <1>1 DEF Saves
  <1>3. f[0] = {Service!Prepared(t, batch)}
    BY <1>2
  <1>4. ASSUME NEW k \in 1 .. L PROVE f[k] = Service!Saved(batch[k], f[k - 1])
    BY <1>2
  <1> QED BY <1>3, <1>4 DEF f

\* t has the rows of s, and the podcasts and devices of the first n actions of the batch.
Resolved(s, t, batch, n) ==
    /\ t.episodes = s.episodes /\ t.hist = s.hist
    /\ t.devices = s.devices \cup {batch[k].device : k \in 1 .. n}
    /\ \A p \in Podcasts :
          t.podcasts[p] = IF \E k \in 1 .. n : batch[k].podcast = p THEN "subscribed"
                          ELSE s.podcasts[p]

\* Where the transaction v is on its way from the database s to an abstract upload of s.
Follows(s, v) ==
    /\ v.phase = "resolve" /\ ~v.stale => Resolved(s, v.work, v.batch, v.next - 1)
    /\ v.phase = "save" /\ ~v.stale => v.work \in After(s, v.batch)[v.next - 1]

\* The inductive invariant, with the way of each transaction.
RInv == SInv /\ \A r \in Requests : Follows(db, tx[r])

LEMMA ResolvedNothing ==
    ASSUME NEW s \in Tables, NEW batch
    PROVE  Resolved(s, s, batch, 0)
  <1>1. 1 .. 0 = {}
    OBVIOUS
  <1> QED BY <1>1 DEF Resolved

LEMMA ResolvedNext ==
    ASSUME NEW s \in Tables, NEW t \in Tables, NEW batch, NEW n \in Nat \ {0},
           batch[n] \in Upload, Resolved(s, t, batch, n - 1)
    PROVE  Resolved(s, EnsureDevice(EnsurePodcast(t, batch[n].podcast), batch[n].device), batch, n)
  <1> DEFINE a == batch[n]
             e == EnsurePodcast(t, a.podcast)
             u == EnsureDevice(e, a.device)
  <1>1. /\ e.devices = t.devices /\ e.episodes = t.episodes /\ e.hist = t.hist
        /\ e.podcasts = [t.podcasts EXCEPT ![a.podcast] = "subscribed"]
        /\ e \in Tables
    BY EnsurePodcastConsistent DEF EnsurePodcast, Tables, Upload, EpisodeRow
  <1>2. /\ u.devices = e.devices \cup {a.device} /\ u.episodes = e.episodes /\ u.hist = e.hist
        /\ u.podcasts = e.podcasts
    BY <1>1 DEF EnsureDevice, Tables
  <1>3. \A p \in Podcasts : e.podcasts[p] = IF p = a.podcast THEN "subscribed" ELSE t.podcasts[p]
    BY <1>1, TablesDef
  <1>4. 1 .. n = 1 .. n - 1 \cup {n}
    OBVIOUS
  <1>5. \A p : (\E k \in 1 .. n : batch[k].podcast = p)
                  <=> (\E k \in 1 .. n - 1 : batch[k].podcast = p) \/ a.podcast = p
    BY <1>4
  <1>6. {batch[k].device : k \in 1 .. n} = {batch[k].device : k \in 1 .. n - 1} \cup {a.device}
    BY <1>4
  <1> HIDE DEF a, e, u
  <1>7. \A p \in Podcasts :
           u.podcasts[p] = IF \E k \in 1 .. n : batch[k].podcast = p THEN "subscribed"
                           ELSE s.podcasts[p]
    BY <1>2, <1>3, <1>5 DEF Resolved
  <1>8. u.devices = s.devices \cup {batch[k].device : k \in 1 .. n}
    BY <1>1, <1>2, <1>6 DEF Resolved
  <1>9. u.episodes = s.episodes /\ u.hist = s.hist
    BY <1>1, <1>2 DEF Resolved
  <1>10. Resolved(s, u, batch, n)
    BY <1>7, <1>8, <1>9 DEF Resolved
  <1> QED BY <1>10 DEF u, e, a

\* The first loop is over: its view is what the abstract upload begins with.
LEMMA ResolvedAll ==
    ASSUME NEW s \in Tables, NEW t \in Tables, NEW batch \in Batches,
           Resolved(s, t, batch, Len(batch))
    PROVE  t \in After(s, batch)[0]
  <1> DEFINE P == [p \in Podcasts |->
                      IF \E k \in DOMAIN batch : batch[k].podcast = p THEN "subscribed"
                      ELSE s.podcasts[p]]
             D == s.devices \cup {batch[k].device : k \in DOMAIN batch}
  <1>1. DOMAIN batch = 1 .. Len(batch) /\ Len(batch) \in Nat
    BY StoreAssumption
  <1>2. Service!Prepared(s, batch) = [s EXCEPT !.podcasts = P, !.devices = D]
    BY DEF Service!Prepared
  <1>3. t.podcasts = P
    <2>1. t.podcasts = [p \in Podcasts |-> t.podcasts[p]]
      BY TablesDef
    <2>2. \A p \in Podcasts : t.podcasts[p] = P[p]
      BY <1>1 DEF Resolved
    <2> HIDE DEF P
    <2>3. P = [p \in Podcasts |-> P[p]]
      BY DEF P
    <2> QED BY <2>1, <2>2, <2>3
  <1>4. t.devices = D
    BY <1>1 DEF Resolved
  <1> HIDE DEF P, D
  <1>5. t = [podcasts |-> P, devices |-> D, episodes |-> s.episodes, hist |-> s.hist]
    BY <1>3, <1>4 DEF Resolved, Tables
  <1>6. [s EXCEPT !.podcasts = P, !.devices = D]
          = [podcasts |-> P, devices |-> D, episodes |-> s.episodes, hist |-> s.hist]
    <2> DEFINE r == [s EXCEPT !.podcasts = P]
    <2>1. [s EXCEPT !.podcasts = P, !.devices = D] = [r EXCEPT !.devices = D]
      OBVIOUS
    <2>2. r = [podcasts |-> P, devices |-> s.devices, episodes |-> s.episodes, hist |-> s.hist]
      BY DEF Tables
    <2> HIDE DEF r
    <2>3. [r EXCEPT !.devices = D]
            = [podcasts |-> P, devices |-> D, episodes |-> s.episodes, hist |-> s.hist]
      BY <2>2
    <2> QED BY <2>1, <2>3
  <1>7. After(s, batch)[0] = {Service!Prepared(s, batch)}
    BY <1>1, AfterSteps
  <1> QED BY <1>2, <1>5, <1>6, <1>7

\* A save is a save of the abstract upload.
LEMMA SaveFollows ==
    ASSUME NEW s, NEW batch \in Batches, NEW n \in 1 .. Len(batch), NEW t,
           t \in After(s, batch)[n - 1], FreeHistIds(t) # {}, NEW i \in TargetIds(t, batch[n])
    PROVE  SaveAction(t, batch[n], i, CHOOSE h \in FreeHistIds(t) : TRUE) \in After(s, batch)[n]
  <1> DEFINE a == batch[n]
             S == After(s, batch)[n - 1]
             SavesOf(v) == {Service!SaveAction(v, a, j, CHOOSE h \in Service!FreeHistIds(v) : TRUE)
                              : j \in Service!TargetIds(v, a)}
  <1>1. After(s, batch)[n] = Service!Saved(a, S)
    BY AfterSteps, StoreAssumption
  <1>2. Service!Saved(a, S) = UNION {SavesOf(v) : v \in {w \in S : Service!FreeHistIds(w) # {}}}
    BY DEF Service!Saved
  <1>3. /\ Service!FreeHistIds(t) = FreeHistIds(t) /\ Service!TargetIds(t, a) = TargetIds(t, a)
        /\ \A j, h : Service!SaveAction(t, a, j, h) = SaveAction(t, a, j, h)
    BY ServiceOperators
  <1>4. t \in {w \in S : Service!FreeHistIds(w) # {}}
    BY <1>3
  <1>5. SaveAction(t, a, i, CHOOSE h \in FreeHistIds(t) : TRUE) \in SavesOf(t)
    BY <1>3
  <1> HIDE DEF SavesOf, S, a
  <1>6. SaveAction(t, a, i, CHOOSE h \in FreeHistIds(t) : TRUE) \in Service!Saved(a, S)
    BY <1>2, <1>4, <1>5
  <1> QED BY <1>1, <1>6 DEF a

\* A step of request r that leaves the database and the other requests alone.
LEMMA OneFollows ==
    ASSUME RInv, SInv', NEW r \in Requests, UNCHANGED db,
           \A q \in Requests \ {r} : tx'[q] = tx[q], Follows(db, tx'[r])
    PROVE  RInv'
  <1>1. ASSUME NEW q \in Requests PROVE Follows(db', tx'[q])
    <2>1. Follows(db, tx'[q])
      BY DEF RInv
    <2> QED BY <2>1 DEF Follows
  <1> QED BY <1>1 DEF RInv

LEMMA BeginFollows ==
    ASSUME RInv, SInv', NEW r \in Requests, NEW batch \in Batches, Begin(r, batch)
    PROVE  RInv'
  <1>1. tx \in [Requests -> TxState] /\ db \in Tables
    BY DEF RInv, SInv, IInv, TypeOK
  <1>2. tx'[r] = [NoTx EXCEPT !.phase = "resolve", !.batch = batch, !.work = db]
    BY <1>1 DEF Begin
  <1>3. /\ tx'[r].phase = "resolve" /\ tx'[r].work = db /\ tx'[r].next - 1 = 0
    BY <1>2 DEF NoTx
  <1>4. Follows(db, tx'[r])
    BY <1>1, <1>3, ResolvedNothing DEF Follows
  <1>5. UNCHANGED db /\ \A q \in Requests \ {r} : tx'[q] = tx[q]
    BY <1>1 DEF Begin
  <1> QED BY <1>4, <1>5, OneFollows

LEMMA ResolveFollows ==
    ASSUME RInv, SInv', NEW r \in Requests, Resolve(r)
    PROVE  RInv'
  <1> DEFINE w == tx[r]
             a == Current(r)
             u == EnsureDevice(EnsurePodcast(w.work, a.podcast), a.device)
             last == w.next = Len(w.batch)
             ph == IF last THEN "save" ELSE "resolve"
             n == IF last THEN 1 ELSE w.next + 1
  <1>1. /\ w \in TxState /\ ViewOK(w) /\ w.phase = "resolve" /\ tx \in [Requests -> TxState]
        /\ db \in Tables /\ Follows(db, w)
    BY DEF Resolve, RInv, SInv, IInv, TypeOK
  <1>2. w.next <= Len(w.batch) /\ w.batch \in Batches
    BY <1>1 DEF ViewOK
  <1>3. /\ w.next \in 1 .. Len(w.batch) /\ a \in Upload /\ w.work \in Tables
        /\ a = w.batch[w.next]
    BY <1>1, <1>2, CurrentFacts DEF Current
  <1>4. tx'[r] = [w EXCEPT !.work = u, !.phase = ph, !.next = n]
    BY <1>1 DEF Resolve
  <1>5. UNCHANGED db /\ \A q \in Requests \ {r} : tx'[q] = tx[q]
    BY <1>1 DEF Resolve
  <1>6. tx' \in [Requests -> TxState]
    BY DEF SInv, IInv, TypeOK
  <1>7. /\ last => ph = "save" /\ n = 1
        /\ ~last => ph = "resolve" /\ n = w.next + 1
    OBVIOUS
  <1>8. ~w.stale => Resolved(db, u, w.batch, w.next)
    <2> SUFFICES ASSUME ~w.stale PROVE Resolved(db, u, w.batch, w.next)
      OBVIOUS
    <2>1. Resolved(db, w.work, w.batch, w.next - 1)
      BY <1>1 DEF Follows
    <2>2. w.next \in Nat \ {0}
      BY <1>2, <1>3, StoreAssumption
    <2> HIDE DEF w, a
    <2> QED BY <1>1, <1>3, <2>1, <2>2, ResolvedNext
  <1> HIDE DEF u, ph, n, w, a
  <1>9. /\ tx'[r].work = u /\ tx'[r].phase = ph /\ tx'[r].next = n
        /\ tx'[r].batch = w.batch /\ tx'[r].stale = w.stale
    BY <1>1, <1>4 DEF TxState
  <1>10. u \in Tables
    <2>1. tx'[r] \in TxState
      BY <1>6
    <2> QED BY <1>9, <2>1 DEF TxState
  <1>11. CASE last
    <2>1. ~w.stale => u \in After(db, w.batch)[0]
      BY <1>1, <1>2, <1>8, <1>10, <1>11, ResolvedAll DEF w
    <2>2. Follows(db, tx'[r])
      BY <1>7, <1>9, <1>11, <2>1 DEF Follows
    <2> QED BY <1>5, <2>2, OneFollows
  <1>12. CASE ~last
    <2>1. n - 1 = w.next
      BY <1>1, <1>7, <1>12 DEF TxState
    <2>2. Follows(db, tx'[r])
      BY <1>7, <1>8, <1>9, <1>12, <2>1 DEF Follows
    <2> QED BY <1>5, <2>2, OneFollows
  <1> QED BY <1>11, <1>12

LEMMA SaveStepFollows ==
    ASSUME RInv, SInv', NEW r \in Requests, Save(r)
    PROVE  RInv'
  <1> DEFINE w == tx[r]
             a == Current(r)
             h == CHOOSE x \in FreeHistIds(w.work) : TRUE
  <1>1. /\ w \in TxState /\ ViewOK(w) /\ w.phase = "save" /\ w.next <= Len(w.batch)
        /\ tx \in [Requests -> TxState] /\ Follows(db, w) /\ ~w.stale
    BY DEF Save, Writing, CanWrite, RInv, SInv, IInv, TypeOK
  <1>2. /\ w.next \in 1 .. Len(w.batch) /\ a = w.batch[w.next] /\ w.batch \in Batches
    BY <1>1, CurrentFacts DEF Current, ViewOK
  <1>3. FreeHistIds(w.work) # {}
    BY DEF Save
  <1>4. PICK i \in TargetIds(w.work, a) :
           tx' = [tx EXCEPT ![r].work = SaveAction(w.work, a, i, h), ![r].next = @ + 1]
    BY DEF Save
  <1> DEFINE u == SaveAction(w.work, a, i, h)
             n == w.next + 1
  <1>5. tx'[r] = [w EXCEPT !.work = u, !.next = n]
    BY <1>1, <1>4
  <1>6. UNCHANGED db /\ \A q \in Requests \ {r} : tx'[q] = tx[q]
    BY <1>1, <1>4 DEF Save
  <1>7. u \in After(db, w.batch)[w.next]
    <2>1. w.work \in After(db, w.batch)[w.next - 1]
      BY <1>1 DEF Follows
    <2> HIDE DEF w, a
    <2> QED BY <1>2, <1>3, <1>4, <2>1, SaveFollows
  <1>8. n - 1 = w.next
    BY <1>1 DEF TxState
  <1> HIDE DEF u, n, w, h, a
  <1>9. /\ tx'[r].work = u /\ tx'[r].phase = "save" /\ tx'[r].next = n
        /\ tx'[r].batch = w.batch
    BY <1>1, <1>5 DEF TxState
  <1>10. Follows(db, tx'[r])
    BY <1>7, <1>8, <1>9 DEF Follows
  <1> QED BY <1>6, <1>10, OneFollows

\* No snapshot is current after somebody's commit.
LEMMA StaleFollows ==
    ASSUME SInv', NEW txs \in [Requests -> TxState], NEW others, tx' = MarkStale(txs, others),
           \A q \in Requests : txs[q].phase = "idle" \/ q \in others
    PROVE  RInv'
  <1>1. ASSUME NEW q \in Requests PROVE Follows(db', tx'[q])
    <2>1. CASE txs[q].phase = "idle"
      <3>1. tx'[q].phase = "idle"
        BY <2>1 DEF MarkStale
      <3> QED BY <3>1 DEF Follows
    <2>2. CASE txs[q].phase # "idle"
      <3>1. tx'[q] = [txs[q] EXCEPT !.stale = TRUE]
        BY <2>2 DEF MarkStale
      <3>2. tx'[q].stale
        BY <3>1 DEF TxState
      <3> QED BY <3>2 DEF Follows
    <2> QED BY <2>1, <2>2
  <1> QED BY <1>1 DEF RInv

LEMMA RInvInductive ==
    /\ Init => RInv
    /\ RInv /\ [Next]_vars => RInv'
  <1>1. ASSUME Init PROVE RInv
    <2>1. \A r \in Requests : tx[r].phase = "idle"
      BY <1>1 DEF Init, NoTx
    <2> QED BY <1>1, <2>1, SInvInductive DEF RInv, Follows
  <1>2. ASSUME RInv, [Next]_vars PROVE RInv'
    <2>1. SInv' /\ tx \in [Requests -> TxState]
      BY <1>2, SInvInductive DEF RInv, SInv, IInv, TypeOK
    <2>2. ASSUME NEW r \in Requests, AddAction(r) PROVE RInv'
      <3>1. CASE \E batch \in Batches : Begin(r, batch)
        BY <1>2, <2>1, <3>1, BeginFollows
      <3>2. CASE Resolve(r)
        BY <1>2, <2>1, <3>2, ResolveFollows
      <3>3. CASE ResolvePanics(r)
        <4> DEFINE e == EnsurePodcast(tx[r].work, Current(r).podcast)
        <4>1. tx'[r] = [tx[r] EXCEPT !.work = e, !.phase = "panicked"] /\ tx[r] \in TxState
          BY <2>1, <3>3 DEF ResolvePanics
        <4> HIDE DEF e
        <4>2. tx'[r].phase = "panicked"
          BY <4>1 DEF TxState
        <4>3. Follows(db, tx'[r])
          BY <4>2 DEF Follows
        <4>4. UNCHANGED db /\ \A q \in Requests \ {r} : tx'[q] = tx[q]
          BY <2>1, <3>3 DEF ResolvePanics
        <4> QED BY <1>2, <2>1, <4>3, <4>4, OneFollows
      <3>4. CASE Save(r)
        BY <1>2, <2>1, <3>4, SaveStepFollows
      <3>5. CASE Commit(r)
        <4> DEFINE txs == [tx EXCEPT ![r] = NoTx]
        <4>1. txs \in [Requests -> TxState] /\ txs[r].phase = "idle"
          BY <2>1, NoTxFacts DEF NoTx
        <4>2. tx' = MarkStale(txs, Requests \ {r})
          BY <3>5 DEF Commit
        <4> HIDE DEF txs
        <4> QED BY <2>1, <4>1, <4>2, StaleFollows
      <3>6. CASE Rollback(r)
        <4>1. tx'[r].phase = "idle"
          BY <2>1, <3>6 DEF Rollback, NoTx
        <4>2. Follows(db, tx'[r])
          BY <4>1 DEF Follows
        <4>3. UNCHANGED db /\ \A q \in Requests \ {r} : tx'[q] = tx[q]
          BY <2>1, <3>6 DEF Rollback
        <4> QED BY <1>2, <2>1, <4>2, <4>3, OneFollows
      <3> QED BY <2>2, <3>1, <3>2, <3>3, <3>4, <3>5, <3>6 DEF AddAction
    <2>3. ASSUME NEW t, Write(t) PROVE RInv'
      BY <2>1, <2>3, StaleFollows DEF Write
    <2>4. CASE OtherWriters
      BY <2>3, <2>4
      DEF OtherWriters, UpdateDevice, DeleteDevice, Subscribe, Unsubscribe, DeletePodcast,
          UpdateEpisodeInfo
    <2>5. CASE UNCHANGED vars
      BY <1>2, <2>1, <2>5 DEF vars, RInv, Follows
    <2> QED BY <1>2, <2>2, <2>4, <2>5 DEF Next
  <1> QED BY <1>1, <1>2

\* A commit is an abstract upload.
LEMMA CommitRefines ==
    ASSUME RInv, NEW r \in Requests, Commit(r)
    PROVE  \E batch \in Batches : Service!SaveUpload(batch)
  <1> DEFINE w == tx[r]
  <1>1. /\ w \in TxState /\ ViewOK(w) /\ w.phase = "save" /\ w.next > Len(w.batch)
        /\ Follows(db, w) /\ writer = r /\ SnapshotOK(db, w, writer = r) /\ db' = w.work
    BY CommitFacts DEF Commit, RInv, SInv, IInv, TypeOK
  <1>2. w.batch \in Batches /\ Len(w.batch) \in Nat /\ w.next - 1 = Len(w.batch) /\ ~w.stale
    BY <1>1, BatchFacts DEF ViewOK, SnapshotOK
  <1>3. db' \in Service!Uploaded(db, w.batch)
    BY <1>1, <1>2, UploadedIs DEF Follows
  <1>4. ASSUME NEW k \in DOMAIN w.batch PROVE w.batch[k].device # None
    <2>1. k \in 1 .. Len(w.batch)
      BY <1>2, StoreAssumption
    <2>2. w.work.devices \subseteq Devices
      BY <1>1, TablesDef DEF TxState
    <2> QED BY <1>1, <2>1, <2>2, TablesAssumption DEF ViewOK, Ready
  <1>5. Service!SaveUpload(w.batch)
    BY <1>3, <1>4 DEF Service!SaveUpload
  <1> QED BY <1>2, <1>5

LEMMA WriteRefines ==
    ASSUME OtherWriters
    PROVE  \/ \E d \in Devices : Service!ManageDevice(d)
           \/ \E p \in Podcasts : Service!ManagePodcast(p)
           \/ \E f \in Feeds : Service!TakeFeed(f)
  <1>1. ASSUME NEW d \in Devices, UpdateDevice(d) \/ DeleteDevice(d)
        PROVE  Service!ManageDevice(d)
    BY <1>1 DEF UpdateDevice, DeleteDevice, Write, Service!ManageDevice, EnsureDevice,
       Service!EnsureDevice, WithoutDevice, Service!WithoutDevice
  <1>2. ASSUME NEW p \in Podcasts, Subscribe(p) \/ Unsubscribe(p) \/ DeletePodcast(p)
        PROVE  Service!ManagePodcast(p)
    <2>1. \A f, S : Service!KeepRows(f, S) = KeepRows(f, S)
      BY DEF Service!KeepRows, KeepRows
    <2>2. Service!WithoutPodcast(db, p) = WithoutPodcast(db, p)
      BY <2>1 DEF Service!WithoutPodcast, WithoutPodcast
    <2> QED BY <1>2, <2>2 DEF Subscribe, Unsubscribe, DeletePodcast, Write,
       Service!ManagePodcast, EnsurePodcast, Service!EnsurePodcast, Unsubscribed,
       Service!Unsubscribed
  <1>3. ASSUME NEW f \in Feeds, UpdateEpisodeInfo(f[1], f[2]) PROVE Service!TakeFeed(f)
    BY <1>3 DEF UpdateEpisodeInfo, Write, Service!TakeFeed, WithFeedGuid, Service!WithFeedGuid
  <1> QED BY <1>1, <1>2, <1>3 DEF OtherWriters

LEMMA StepRefines == RInv /\ [Next]_vars => [Service!Next]_db
  <1> SUFFICES ASSUME RInv, [Next]_vars, db' # db PROVE Service!Next
    OBVIOUS
  <1>1. ASSUME NEW r \in Requests, AddAction(r) PROVE Service!Next
    <2>1. Commit(r)
      BY <1>1 DEF AddAction, Begin, Resolve, ResolvePanics, Save, Rollback
    <2> QED BY <2>1, CommitRefines DEF Service!Next
  <1>2. CASE OtherWriters
    BY <1>2, WriteRefines DEF Service!Next
  <1>3. CASE UNCHANGED vars
    BY <1>3 DEF vars
  <1> QED BY <1>1, <1>2, <1>3 DEF Next

\* Whatever the interleaving, uploads take effect one at a time and entirely: each commit
\* is an upload of the abstract service, and no other step of a request changes anything.
THEOREM UploadsSerialize == Spec => Serializable
  <1>1. Init => Service!Init
    BY ServiceOperators DEF Init, Service!Init
  <1> QED BY <1>1, RInvInductive, StepRefines, PTL DEF Spec, Serializable, Service!Spec

================================================================================
