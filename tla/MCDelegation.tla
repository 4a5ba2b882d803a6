--------------------------- MODULE MCDelegation ---------------------------
(* Delegation on a small instance: every map over the census, every set    *)
(* of voters.                                                              *)
EXTENDS Delegation

CONSTANTS k1, k2, k3, k4
=============================================================================
