SPECIFICATION Spec
CONSTANTS
    m1 = m1
    m2 = m2
    w1 = w1
    None = None
    Monitors = {m1}
    Incidents = {i1, i2}
    Windows = {w1}
    Runners = {r1}
    Manual = {r1}
    Clients = {c1}
    Retries <- RetriesTwo
    Alerting = {m1}
    Linked <- LinkedToAll
    NameRank <- ByName
    BatchSize = 1
    MaxFaults = 1
SYMMETRY IncidentSymmetry
INVARIANTS
    UnacknowledgedIsTracked
    OutageIsAlerted
PROPERTIES
    ImplementsAlerts
    
CHECK_DEADLOCK TRUE
