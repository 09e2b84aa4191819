SPECIFICATION FairSpec
CONSTANTS
    m1 = m1
    None = None
    Pages = {p1}
    Emails = {e1}
    Phones = {f1, f2}
    Monitors = {m1}
    Groups = {g1}
    Clients = {c1, c2}
    SlugOf <- Slugs
    Coverings <- SomeOrAll
    MaxTokens = 4
    MaxRuns = 1
    MaxEdits = 1
INVARIANTS
    VerifiedIsConfirmed
    TokensInForce

    
CHECK_DEADLOCK FALSE
