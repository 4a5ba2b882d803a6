\* Every delegation map over a census of four; the call returns, and then
\* nothing happens any more.
SPECIFICATION FairSpec
CONSTANTS
    k1 = k1
    k2 = k2
    k3 = k3
    k4 = k4
    Census = {k1, k2, k3, k4}
    Key = {k1, k2, k3, k4}
    None = None
INVARIANTS
    TypeOK
    NoneTwice
    NearestVoterCounts
PROPERTIES
    Implements
    Resolves
    StepsRunDown
CHECK_DEADLOCK FALSE
