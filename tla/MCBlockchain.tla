--------------------------- MODULE MCBlockchain ---------------------------
(* Blockchain on a small instance: the fragments are the ends of every     *)
(* chain of at most PeerHeight blocks that a peer can build from genesis   *)
(* with the block contents of PeerContents.                                *)
EXTENDS Blockchain

CONSTANTS b1, b2, b3, PeerHeight

PeerContents == {<<b1, b2>>, <<b3>>}

PeerBlocks(prevs) ==
    {NewBlock(prev, ts, ballots) :
        prev \in prevs, ts \in Timestamp, ballots \in PeerContents}

PeerChains ==
    LET longer[n \in 1..PeerHeight] ==
            IF n = 1 THEN {<<GenesisBlock>>}
            ELSE longer[n-1] \cup
                 UNION {{Append(c, b) : b \in PeerBlocks({c[Len(c)]})} : c \in longer[n-1]}
    IN  longer[PeerHeight]

MCFragment ==
    UNION {{[fork_index |-> i, blocks |-> SubSeq(c, i, Len(c))] : i \in 1..Len(c)} :
           c \in PeerChains}
=============================================================================
