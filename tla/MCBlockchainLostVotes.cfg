\* What chain.rs:172 says of lost votes, which the stripped range does not do.
SPECIFICATION Spec
CONSTANTS
    b1 = b1
    b2 = b2
    b3 = b3
    Ballot = {b1, b2, b3}
    Timestamp = {1}
    BlockSize = 2
    PeerHeight = 3
    MaxHeight = 3
    MaxPool = 2
    Fragment <- MCFragment
PROPERTIES
    LostVotesPooled
