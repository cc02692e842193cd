\* The primary and one fork, three writes, two surgeries.
SPECIFICATION Spec
CONSTANTS
    p = p
    f = f
    Agent = {p, f}
    Primary = p
    NoAgent = NoAgent
    MaxWrites = 3
    MaxMoves = 2
\* Writes and surgeries are bounded: a hold that nothing ends leaves nothing to do,
\* which HoldEnds is to tell.
CHECK_DEADLOCK FALSE
INVARIANTS
    HeldInOrder
    FollowsOrRefuses
PROPERTIES
    StandsStill
    HoldEnds
