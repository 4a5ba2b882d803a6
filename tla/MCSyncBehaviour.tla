-------------------------- MODULE MCSyncBehaviour --------------------------
(* SyncBehaviour on a small instance: two connections to p1, one to p2. *)
EXTENDS SyncBehaviour

CONSTANTS p1, p2, c1, c2, c3

MCPeerOf == [c \in Conn |-> IF c = c3 THEN p2 ELSE p1]
=============================================================================
