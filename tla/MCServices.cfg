CONSTANTS
    p1 = p1
    p2 = p2
    p3 = p3
    A = {a1, a2}
    B = {b1, b2}
    C = {k1, k2, k3}
    Orders = {a1, a2}
    Txns = {b1, b2}
    Nonces = {k1, k2, k3}
    PayCalls = {p1, p2, p3}
    ReplicaOf <- MCReplicaOf
    RetryLimit = 2
    NoTxn = NoTxn
    NoOrder = NoOrder
    MailEvents = {b1, b2}
    MailCalls = {a1, a2}
    ClaimLimit = 2
    MaxMails = 2
    NoEvent = NoEvent
    ActEvents = {1, 2, 3, 4}
    Delta <- MCDelta
    MaxProgress = 3
    ActCalls = {a1, a2}
    Need = 2
    Names = {a1, a2}
    Passwords = {b1, b2}
    LoginCalls = {k1, k2, k3}
    Zones = {1, 3}
    Stride = 2
    ShortName <- MCShortName
    RateKey <- MCRateKey
    MaxAttempts = 2
    NoAccount = NoAccount
    Players = {a1, a2}
    Joins = {j1, j2, j3, j4}
    NoMatch = NoMatch
    Roles = {a1, a2}
    Guilds = {b1, b2}
    WorldCalls = {k1, k2, k3}
    Damages = {0, 2, 5}
    DefaultDamage = 1
    MaxHP = 3
    NoGuild = NoGuild
    NoHP = NoHP
    RoleIds = {2, 5}
    OldDSNs <- MCOldDSNs
    NewDSNs <- MCNewDSNs
    MaxRuns = 2
    MaxRowVersion = 3
    MaxRowEpoch = 2
    NoRow = NoRow
    Migrators = {p1, p2}
    Scripts <- MCScripts
    Earlier <- MCEarlier
    CentralDSN = "pg0"
    ShardDSNs <- MCShardDSNs
    ShardRoles <- MCShardRoles
    Nobody = Nobody
SYMMETRY Symmetry
SPECIFICATION Spec
INVARIANTS TypeOK MarkedIsGranted GrantedIsDue TokenIsOwned
    PlayersKept BoardWithinLoss NewestKept MigrationsInOrder
CHECK_DEADLOCK FALSE
