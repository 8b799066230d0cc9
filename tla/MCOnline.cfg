CONSTANTS
    c1 = c1
    c2 = c2
    c3 = c3
    g1 = g1
    g2 = g2
    Gates = {g1, g2}
    Conns = {c1, c2, c3}
    GateOf <- MCGateOf
    AddrOf <- MCAddrOf
    Pinging = {c1, c3}
    MaxConnPerIP = 2
    MaxSessions = 3
    NoConn = NoConn
    NoRecord = NoRecord
    Instances = {i1, i2}
    MaxFaults = 1
    NoInstance = NoInstance
SPECIFICATION Spec
INVARIANTS TypeOK Reachable
PROPERTIES EventuallySingle RegistryFollows
CHECK_DEADLOCK FALSE
