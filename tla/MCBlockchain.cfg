\* One node, two ballots a block, every call and a restart at any point.
SPECIFICATION Spec
CONSTANTS
    b1 = b1
    b2 = b2
    b3 = b3
    Ballot = {b1, b2, b3}
    Timestamp = {1}
    BlockSize = 2
    PeerHeight = 3
    MaxHeight = 3
    MaxPool = 3
    Fragment <- MCFragment
INVARIANTS
    TypeOK
    UnreadableHeadHasOrphan
PROPERTIES
    KeepsIntegrity
    OrphanNeedsShrink
    RestartKeepsChain
    ForgetsOnlyHead
    OldBallotsStay
