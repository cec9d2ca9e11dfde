CONSTANTS
    Parts = {"resources"}
    Inputs <- MCInputs
    DangerousNames = {"select"}
    KnownClients = {"okhttp"}
    BotAgents = {"sqlmap"}
    BrowserAgents = {"chrome/"}
    BlockedExts = {".php"}
    BlockedMimes = {"text/x-php"}
    BodyScanning = TRUE
    MaxTexts = 2
    VariableNames = {"1234"}
    Addresses = {a, b}
    Events <- MCEvents
    Sizes <- MCSizes
    Idle = 3
    MaxNow = 4
    MaxWrites = 3
    Sources = {a, b}
    Cases <- MCCases
    High = 10
    Medium = 5
    ReportOnly = FALSE
    ConfirmCount = 2
    ObserveWindow = 4
    MergeWindow = 1
    MaxTime = 9
    MaxLate = 1
    MaxEvents = 5
    OddCost = 4
    Callers = {a, b}
    Patterns = {"orders"}
    NoId = 0
    Matches <- MCMatches
    WindowSecs <- MCWindowSecs
    MaxIDs <- MCMaxIDs
    MaxSec = 4
    MaxChecks = 4
    ScoreHigh = 50
    ScoreMedium = 30
    Weights <- MCWeights
    Sensitivity = 2
    UserThresholds <- MCUserThresholds
    SkipPaths <- MCSkipPaths
    HoneypotPaths <- MCHoneypotPaths
    SensitivePaths <- MCSensitivePaths
    LocalHigh = 50
    WindowSec = 60
    CounterSets <- MCCounterSets
    Logs <- MCLogs
    Minutes = 10
    TargetBuckets = 3
    MaxMinutes = 70
    MaxUpdates = 3
    Scanners = {s}
    Ports = {1, 2, 3}
    PortSizes <- MCPortSizes
    MaxPorts <- MCMaxPorts
    IdlePorts = 2
    QueueCap = 1
    MaxHits = 3
    MaxPortClock = 3
    StatAddresses = {1, 2}
    RecentCap = 2
    SampleRate = 2
    MaxRecords = 5
SPECIFICATION Spec
SYMMETRY Symmetry
INVARIANT UnmatchedIsSkipped
CHECK_DEADLOCK FALSE
