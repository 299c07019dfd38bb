--------------------------------- MODULE MCLibrary ---------------------------------
(***************************************************************************)
(* Two podcasts and two addresses that a feed may give one GUID.           *)
(***************************************************************************)
EXTENDS Library

CONSTANTS p1, p2, u1, u2, d1

upload(p, u, ts) == [podcast |-> p, url |-> u, guid |-> None, device |-> d1, ts |-> ts]

MCUploads == {upload(p1, u1, 1), upload(p1, u2, 2), upload(p2, u1, 2)}
================================================================================
