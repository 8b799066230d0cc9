CONSTANTS
    Procs = {p1, p2}
    None = None
    Sources = {"pay", "mail"}
    Assets = {gold}
    Bundle <- MCBundle
    Reward <- MCReward
    InitBal <- MCInitBal
    MaxEpoch = 3
    MaxVersion = 3
    MaxQueue = 1
    Offered = {"grant", "pass", "unload"}
SPECIFICATION Spec
INVARIANT SupersededIsFenced
SYMMETRY Symmetry
