CONSTANTS
    Procs = {p1, p2}
    None = None
    Sources = {"mail"}
    Assets = {gold}
    Bundle <- MCBundle
    Reward <- MCReward
    InitBal <- MCInitBal
    MaxEpoch = 3
    MaxVersion = 2
    MaxQueue = 1
    Offered = {"mutate", "unload"}
SPECIFICATION FairSpec
PROPERTIES MailboxDrains StaleIsDropped
