---------------------------- MODULE MCChainSync ----------------------------
(* ChainSync on small networks: every node makes blocks of one ballot of   *)
(* its own, so that two nodes that append at the same height fork.         *)
EXTENDS ChainSync

CONSTANTS n1, n2, n3

OwnBallot(n) == {<<n>>}

BothWays == {<<n1, n2>>, <<n2, n1>>}
TwoPeers == {<<n1, n2>>, <<n1, n3>>}
=============================================================================
