------------------------------ MODULE EpisodeService ------------------------------
(***************************************************************************)
(* What the episode service promises its clients: an upload happens at one *)
(* moment, all of it or not at all, and so does every other operation on   *)
(* the tables.  EpisodeStore, where transactions interleave statement by   *)
(* statement, implements this specification.                               *)
(***************************************************************************)
EXTENDS EpisodeTables, Sequences

CONSTANTS Feeds, Batches

VARIABLE db

\* The podcasts and devices of a batch exist before its first action is saved.
Prepared(t, batch) ==
    [t EXCEPT
        !.podcasts = [p \in Podcasts |->
            IF \E k \in DOMAIN batch : batch[k].podcast = p THEN "subscribed" ELSE @[p]],
        !.devices = @ \cup {batch[k].device : k \in DOMAIN batch}]

\* The contents that saving action a may lead to, from each content in S.
Saved(a, S) ==
    UNION {{SaveAction(t, a, i, CHOOSE h \in FreeHistIds(t) : TRUE) : i \in TargetIds(t, a)} :
           t \in {s \in S : FreeHistIds(s) # {}}}

\* The contents that an upload of the whole batch may lead to.
Uploaded(t, batch) ==
    LET after[n \in 0 .. Len(batch)] ==
            IF n = 0 THEN {Prepared(t, batch)} ELSE Saved(batch[n], after[n - 1])
    IN  after[Len(batch)]

Init == db = EmptyTables

SaveUpload(batch) ==
    /\ \A k \in DOMAIN batch : batch[k].device # None
    /\ db' \in Uploaded(db, batch)

ManageDevice(d) == db' = EnsureDevice(db, d) \/ db' = WithoutDevice(db, d)

ManagePodcast(p) ==
    \/ db' = EnsurePodcast(db, p)
    \/ db.podcasts[p] = "subscribed" /\ db' = Unsubscribed(db, p)
    \/ db' = WithoutPodcast(db, p)

TakeFeed(f) == db' = WithFeedGuid(db, f[1], f[2])

Next ==
    \/ \E batch \in Batches : SaveUpload(batch)
    \/ \E d \in Devices : ManageDevice(d)
    \/ \E p \in Podcasts : ManagePodcast(p)
    \/ \E f \in Feeds : TakeFeed(f)

Spec == Init /\ [][Next]_db
================================================================================
