SPECIFICATION PlaneSpec
CHECK_DEADLOCK FALSE
CONSTANTS
    Streams = {s1, s2}
    KeepAlive = 1
    Threshold = 2
    MaxFaults = 1
    Hosts = {h1, h2}
    Legacy = {h2}
    Services = {h2}
    MaxCalls = 2
    MaxUses = 1
    MaxCrashes = 1
    None = None
    Torn = Torn
    Requests = {r1, r2}
    MaxAttempts = 2
    LockTime = 2
    AccessTTL = 2
    RefreshTTL = 3
    BlacklistTTL = 2
    Leeway = 1
    MaxTokens = 2
    MaxNow = 3
    MaxTries = 3
    Rpcs = {k1}
    Certs = {1, 2}
    Identity <- MCIdentity
    CallLimit = 1
    ValidDays = 2
    Kept = 1
    MaxDays = 3
    Addresses = {a1}
    rate = 2
    window = 2
    Bearers <- MCBearers
    Endpoints = {1, 2}
    MaxTicks = 5
    MaxRequests = 7
    MaxRows = 3
    Key <- MCKey
    Kind <- MCKind
    MaxChanges = 1
    Other <- MCOther
    Asked = {0, 1, 2}
    MaxLimit = 1
    DefaultLimit = 3
    Sources <- MCSources
    CAKeys = {"RSA PRIVATE KEY", "EC PRIVATE KEY", None}
    Migrations = 2
    ServerDays = 3
    Week = 1
    MaxBoots = 2
    MaxLetters = 2
    MaxDeaths = 2
INVARIANTS
    StartsWhole
    QueuesAndRatesHold
PROPERTIES
    StatusIsTrue
    EnrolmentKeeps
    SessionsHold
    RevokedIsRefused
    PagesCover
