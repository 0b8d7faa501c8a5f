SPECIFICATION HostSpec
CHECK_DEADLOCK FALSE
CONSTANTS
    ChanCap = 1
    MaxCommands = 2
    Requests <- MCRequests
    Adapters = {1, 2}
    Pids = {4, 7}
    Critical = {0, 4}
    Dangerous = {"format "}
    MaxRequests = 3
    Names = {n1}
    Data = {d1, d2}
    NoData = NoData
    Connections <- MCConnections
    ExcludeIPs = {}
    ExcludeRegistry = {}
    Processes = {p1}
    ExcludeProcesses = {p1}
    Judges = {c1, c2}
    Configs <- MCConfigs
    Events <- MCEvents
    Word = 16
    MaxEvents = 3
    Missing = Missing
    Empty = Empty
    Bad = Bad
    MaxIds = 5
    MaxRuns = 3
    MaxWrites = 3
    None = None
INVARIANTS
    ReportedAsConfigured
    OneAgent
    CommandsDoAsTold
PROPERTIES
    AgentKeepsWorking
    SettingsComeIntoForce
