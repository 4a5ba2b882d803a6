\* Two nodes that hear ballots in any order while one synchronises with the other.
SPECIFICATION NodeSpec
CONSTANTS
    n1 = n1
    n2 = n2
    v1 = v1
    v2 = v2
    v3 = v3
    v4 = v4
    Node = {n1, n2}
    Link <- OneWay
    Payload <- Blockful
    Key = {v1, v2, v3, v4}
    Census = {v1, v2, v3}
    Ballot <- MCBallot
    Timestamp = {1}
    BlockSize = 2
    ResolveHeight = 1
    MaxHeight = 3
    MaxPool = 3
    MaxRestarts = 1
    Copies <- MCCopies
    Drawn <- MCDrawn
INVARIANTS
    NodeTypeOK
    CensusOnly
    OneVoteEach
    HeadVouches
    KeptAsDelivered
