CONSTANTS
    Procs = {p1, p2}
    None = None
    Sources = {"pay", "mail"}
    Assets = {gold}
    Bundle <- MCBundle
    Reward <- MCReward
    InitBal <- MCInitBal
    MaxEpoch = 3
    MaxVersion = 4
    MaxQueue = 1
    Offered = {"grant", "pass"}
SPECIFICATION Spec
INVARIANTS TypeOK CacheCoherent ExactlyOnce NoOverdraft OutboxMatchesLevel AckDurable
PROPERTY RefinesAtomicRole
SYMMETRY Symmetry
