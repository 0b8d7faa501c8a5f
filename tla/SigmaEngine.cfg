SPECIFICATION EngineSpec
CHECK_DEADLOCK FALSE
CONSTANTS
    Workers = {w1, w2}
    Keys = {k1}
    EventCap = 1
    AlertCap = 1
    ProducerCap = 1
    WriterCap = 1
    BatchSize = 2
    MaxEvents = 2
    Files = {"f1", "f2"}
    Parsers = {p1, p2}
    JobCap = 1
    RuleCap = 1
    ErrorCap = 1
    Names = {"sel1", "sel2", "filter"}
    Prefixed = {"sel1", "sel2"}
    MaxWords = 3
    MaxLong = 6
    MatchRules <- MCRules
    Directories <- MCDirectories
    MatchEvents <- MCEvents
    DataPaths <- MCPaths
    MatchFields <- MCFields
    Direct <- MCDirect
    Chain <- MCChain
    Fallback <- MCFallback
    Late <- MCLate
    Whitelisted <- MCWhitelisted
    MinConfidence = 40000
    CacheSize = 1
    RuleFiles <- MCFiles
    FileEvents <- MCValues
    Whitelist = {"windows", "macos"}
    MinLevel = "low"
    AllowedStatus = {"stable", "test"}
    SkipExperimental = TRUE
    Bad <- MCBad
    Addresses <- MCAddresses
    Covers <- MCCovers
    Base64 <- MCBase64
    InBase64 <- MCInBase64
    EnableFilters = TRUE
    IndexRules <- MCIndexRules
    MaxGiven = 2
    MaxOps = 3
    WindowSize = 2
    countThreshold = 3
    HighCount = 2
    MidCount = 1
    Confidence = 400
    MaxTime = 6
    MaxCounted = 6
    Raws <- MCRaws
    EventIDToCategory <- MCEventIDToCategory
    LowerCase <- MCLowerCase
    Readers = {1, 2}
    ReadFields <- MCReadFields
    MaxReads = 3
    Null = Null
    None = None
INVARIANTS
    AlertsCountOnce
    RulesAreKept
    MatchesAreTrue
PROPERTIES
    StopAndLoadEnd
    RaisedIsPublished
