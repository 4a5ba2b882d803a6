---------------------------- MODULE MCSyncLocks ----------------------------
(* SyncLocks on a small instance: two nodes that sync with each other. *)
EXTENDS SyncLocks

CONSTANTS n1, n2

MCLink == {<<n1, n2>>, <<n2, n1>>}
=============================================================================
