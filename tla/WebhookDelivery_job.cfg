SPECIFICATION FairSpec
CONSTANTS
    h1 = h1
    h2 = h2
    None = None
    Hooks = {h1, h2}
    HookRank <- RankHooks
    MaxRetries <- UpToTwoAttempts
    MaxEvents = 1
    Interested <- AllInterested
    RetryDelays <- Delays
    BatchSize = 1
    Clients = {c1}
    MaxResets = 1
    MaxFaults = 1
    MaxAge = 1
INVARIANTS
    OutcomeIsTrue
PROPERTIES
    ImplementsQueue
    
CHECK_DEADLOCK FALSE
