----------------------------- MODULE MCEpisodeStore -----------------------------
(***************************************************************************)
(* Small instances of EpisodeStore: one podcast with two                   *)
(* episode addresses that may share a GUID, and one device.                *)
(***************************************************************************)
EXTENDS EpisodeStore, TLC

CONSTANTS p1, u1, u2, g1, d1, play, new, r1, r2

act(u, g, what, d, ts) ==
    [podcast |-> p1, url |-> u, guid |-> g, action |-> what, device |-> d, ts |-> ts]

\* Two episodes; a feed may give the second the GUID of the first, and then the newer
\* action fits both rows.  The last action has no device.
playU1 == act(u1, g1, play, d1, 2)
newU1 == act(u1, None, new, d1, 1)
newU2 == act(u2, None, new, d1, 1)
noDevice == act(u1, None, new, None, 1)

MCPodcasts == {p1}
MCUrls == {u1, u2}
MCGuids == {g1}
MCDevices == {d1}
MCActions == {play, new}
MCFeeds == {<<u2, g1>>}

\* One request at a time beside the other writers: batches of several actions.
MCBatches ==
    {<<playU1>>, <<newU1>>, <<newU2>>, <<newU2, playU1>>, <<playU1, newU1>>, <<playU1, noDevice>>}

\* Two uploads race, with an action each.
MCRequests == {r1, r2}
MCSymmetry == Permutations(MCRequests)
MCRaceBatches == {<<playU1>>, <<newU1>>, <<noDevice>>}
MCNoFeeds == {}
================================================================================
