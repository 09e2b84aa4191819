SPECIFICATION FairSpec
CONSTANTS
    m1 = m1
    None = None
    MaxWindows = 4
    Monitors = {m1}
    InitialCovers = {m1}
    FirstStarts = {1}
    Duration = 1
    Recurrences <- AllKinds
    WeekLength = 3
    MonthLength <- ShortYear
    SearchDays = 6
    MaxTime = 3
    Clients = {c1}
    MaxFaults = 1
    MaxRequests = 2

    
    
    
    
PROPERTIES
    CancelHolds
    WindowsMove
CHECK_DEADLOCK FALSE
