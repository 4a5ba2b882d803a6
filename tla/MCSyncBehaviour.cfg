\* A node with two connections to a peer and one to another.
SPECIFICATION FairSpec
CONSTANTS
    p1 = p1
    p2 = p2
    c1 = c1
    c2 = c2
    c3 = c3
    Peer = {p1, p2}
    Conn = {c1, c2, c3}
    PeerOf <- MCPeerOf
    MaxRequests = 2
INVARIANTS
    TypeOK
    QueueStaysShort
    ForgottenOnlyIfOverlapped
    WastedOnlyIfAnnounced
PROPERTIES
    HeartbeatReaches
