SPECIFICATION FairSpec
CONSTANTS
    m1 = m1
    m2 = m2
    w1 = w1
    None = None
    Monitors = {m1, m2}
    Incidents = {i1, i2}
    Windows = {w1}
    Runners = {r1}
    Manual = {}
    Clients = {}
    Retries <- RetriesOne
    Alerting = {m1}
    Linked <- LinkedToFirst
    NameRank <- ByName
    BatchSize = 2
    MaxFaults = 1
PROPERTIES
    
    RecoveryIsSeen
CHECK_DEADLOCK TRUE
