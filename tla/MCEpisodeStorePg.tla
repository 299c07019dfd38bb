----------------------------- MODULE MCEpisodeStorePg -----------------------------
(***************************************************************************)
(* Two uploads of one episode race; one of them may have two actions, the  *)
(* older one last.                                                         *)
(***************************************************************************)
EXTENDS EpisodeStorePg, TLC

CONSTANTS p1, u1, d1

act(ts) == [podcast |-> p1, url |-> u1, device |-> d1, ts |-> ts]

MCBatches == {<<act(1)>>, <<act(2), act(1)>>}
Symmetry == Permutations(Requests)
================================================================================
