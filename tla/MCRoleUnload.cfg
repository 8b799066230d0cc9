CONSTANTS
    Procs = {p1, p2}
    None = None
    Sources = {"mail"}
    Assets = {gold}
    Bundle <- MCBundle
    Reward <- MCReward
    InitBal <- MCInitBal
    MaxEpoch = 3
    MaxVersion = 3
    MaxQueue = 1
    Offered = {"grant", "mutate", "unload"}
SPECIFICATION Spec
INVARIANT LoadedIsOpen
PROPERTY RefinesAtomicRole
SYMMETRY Symmetry
