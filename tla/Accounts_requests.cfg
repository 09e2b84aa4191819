SPECIFICATION FairSpec
CONSTANTS
    Clients = {c1, c2}
    Codes = {1, 2, 3, 4, 5, 6, 7, 8, 9, 10}
    Secrets = {s1, s2}
    MaxAttempts = 2
    None = None
    MaxEvents = 4
INVARIANTS
    CodesInForce
PROPERTIES
    
    MfaKeepsSecret
    IsActivated
CHECK_DEADLOCK FALSE
