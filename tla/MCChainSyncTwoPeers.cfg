\* One node that syncs with two peers at a time.
SPECIFICATION Spec
CONSTANTS
    n1 = n1
    n2 = n2
    n3 = n3
    Node = {n1, n2, n3}
    Ballot = {n1, n2, n3}
    Timestamp = {1}
    BlockSize = 2
    MaxHeight = 3
    Link <- TwoPeers
    Payload <- OwnBallot
INVARIANTS
    IntegrityUnlessShortened
    AsksUnlessShortened
