\* Two nodes, both directions, fragments longer than a stream takes.  The
\* system may stop: in the circle LocksFreed speaks of.
SPECIFICATION FairSpec
CONSTANTS
    n1 = n1
    n2 = n2
    Node = {n1, n2}
    Link <- MCLink
    MaxHeight = 2
    MaxBlocks = 3
    Window = 1
INVARIANTS
    TypeOK
    OnlyHeldUp
    HolderGoesOn
PROPERTIES
    LocksFreed
    SyncEnds
CHECK_DEADLOCK FALSE
