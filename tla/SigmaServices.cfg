SPECIFICATION ServicesSpec
CHECK_DEADLOCK FALSE
CONSTANTS
    Rules = {i1}
    Official = {i1}
    Alerts = {b1}
    Requests = {r1, r2}
    None = None
    MaxVersion = 2
    MaxCount = 2
    MaxStarts = 2
    Clients = {c1, c2}
    StreamAlerts <- MCStreamAlerts
    Filters <- MCFilters
    SendCap = 1
    BroadcastCap = 1
    Ping = Ping
    ChanCap = 1
    Long <- MCLong
    MaxGen = 2
    MaxSize = 4
    MaxHalts = 1
    Ids = {i1}
    Webhooks <- MCWebhooks
    DefaultRetries = 2
    DefaultTimeout = 1
    HookAlerts <- MCRunAlerts
    BatchSize = 2
    MaxDeliveries = 1
    MaxSends = 3
    MaxFlushes = 2
    MaxCreates = 2
    MaxHookEdits = 2
    MaxKept = 4
    Playbooks <- MCPlaybooks
    Escalations <- MCEscalations
    RunAlerts <- MCRunAlerts
    Configs <- MCConfigs
    Contained = {}
    Statuses = {"resolved"}
    MaxRuns = 1
    MaxTracks = 1
    MaxMinute = 1
    MaxEdits = 2
    Callers = {1, 2}
    Workers = {w1, w2}
    Kind <- MCKind
    Events <- MCEvents
    Signatures = {1}
    ChannelBuffers = 1
    OutBuffer = 1
    Window = 1
    MaxNow = 2
    Calls = {k1, k2}
    BenchIds = {""}
    CustomRules <- MCCustomRules
    RuleAlerts <- MCRuleAlerts
    Has <- MCHas
    Profiles <- MCProfiles
    UserAlerts <- MCUserAlerts
    DayHours = 4
    Weekend = {0, 6}
    Correlated <- MCCorrelated
    Hour = 2
    FiveMinutes = 1
    Types = {"process", "user", "rule"}
    Samples <- MCSamples
    MaxTick = 3
    MaxShown = 2
    MaxBenchEdits = 3
    Programs = {"kafka", "live"}
    Settings <- MCSettings
    Cores = 2
    Torn = Torn
    MaxRuleEdits = 1
INVARIANTS
    StreamsKeepApart
    HandledAsAsked
    WorkbenchTrue
    StartsAsConfigured
PROPERTIES
    
    DisabledStays
