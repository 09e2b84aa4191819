SPECIFICATION FairSpec
CONSTANTS
    i1 = i1
    i2 = i2
    p1 = p1
    p2 = p2
    r1 = r1
    t1 = t1
    None = None
    Incidents = {i1}
    TeamOf <- FirstHasTeam
    Severity <- AllCritical
    Policies = {p1, p2}
    PolicyTeam <- FirstOfTeam
    IsDefault = {p1}
    PolicyRank <- RankPolicies
    SeverityNames <- AnySeverity
    InitialSteps <- SecondIsShort
    MaxOrder = 2
    Delay <- Minutes
    Rules = {r1}
    RuleDelay <- RuleMinutes
    RuleMatches <- AllIncidents
    Clients = {c1}
    MaxAge = 2
    MaxTroubles = 1
INVARIANTS
    NothingRunsTwice
    OneLateStep
    NoStepIsSkipped

    
