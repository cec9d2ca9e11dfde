CONSTANTS
    Parts = {"tail", "ports", "reporter", "config", "socket", "firewall", "agent"}
    MaxLines = 2
    MaxFiles = 2
    QueueSize = 1
    MaxStarts = 2
    Scanners = {s}
    Ports = {1, 2}
    PortSizes <- MCPortSizes
    MaxPorts <- MCMaxPorts
    IdlePorts = 2
    QueueCap = 1
    MaxHits = 2
    MaxPortClock = 3
    Threats = {t1, t2, t3}
    Loops = {l1, l2}
    Spawned = {g1, g2}
    Stopper = stop
    BufferSize = 2
    Configs <- MCConfigs
    Unparsable = unparsable
    MaxWrites = 3
    MaxFileTime = 3
    Clients = {c1, c2}
    MaxRequests = 2
    HeldAnswers = 1
    MaxRules = 5
    MaxInits = 3
    AuthDeadline = 600
    FirstBackoff = 3
    MaxBackoff = 60
    CallTimes = {0, 92}
    LongestCall = 92
SPECIFICATION FairSpec
INVARIANTS
    LinesOnce
    Accounted
    StopFlushes
    NoHandlerAfterStop
    RulesInOrder
    UsersBeforeUsed
    AuthEndsInTime
PROPERTIES
    LinesArrive
    CloseEnds
    EventsLeave
    ChangeArrives
    StopEnds
CHECK_DEADLOCK FALSE
