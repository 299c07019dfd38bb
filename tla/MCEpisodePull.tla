------------------------------- MODULE MCEpisodePull -------------------------------
(***************************************************************************)
(* Two podcasts with an episode each, a device that asks and one that does *)
(* not, and pages of one action: an action in the middle of a second       *)
(* crowds it, actions with the same time cut a page off, and the asking    *)
(* device has actions of its own.                                          *)
(***************************************************************************)
EXTENDS EpisodePull

CONSTANTS p1, p2, u1, d1, d2, play

act(p, d, ts) ==
    [podcast |-> p, url |-> u1, guid |-> None, action |-> play, device |-> d, ts |-> ts]

MCPodcasts == {p1, p2}
MCUrls == {u1}
MCDevices == {d1, d2}
MCActions == {play}
MCPollers == {d1}
MCUploads ==
    {act(p1, d2, 2), act(p2, d2, 3), act(p2, d2, 4), act(p1, d1, 2), act(p2, d1, 4)}
================================================================================
