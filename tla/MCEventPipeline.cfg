CONSTANTS
    Roles = {r1, r2}
    Publishers = {p1}
    Workers = {w1, w2}
    Limit = 2
    MaxDeliver = 2
    Cap = 1
    MaxEvents = 2
    MaxForgotten = 0
    None = None
SPECIFICATION Spec
INVARIANTS TypeOK ScoreIsEarned PublishedIsStored AckedIsRanked
PROPERTY ScoreNeverDrops
SYMMETRY Symmetry
CHECK_DEADLOCK FALSE
