\* What block.rs:29 says of every block; two nodes.
SPECIFICATION Spec
CONSTANTS
    n1 = n1
    n2 = n2
    n3 = n3
    Node = {n1, n2}
    Ballot = {n1, n2}
    Timestamp = {1}
    BlockSize = 2
    MaxHeight = 3
    Link <- BothWays
    Payload <- OwnBallot
INVARIANTS
    ChainIntegrity
