CONSTANTS
    Roles = {r1}
    Publishers = {p1, p2}
    Workers = {w1, w2}
    Limit = 1
    MaxDeliver = 2
    Cap = 1
    MaxEvents = 1
    MaxForgotten = 1
    None = None
SPECIFICATION FairSpec
PROPERTY EveryEventSettles
CHECK_DEADLOCK FALSE
