SPECIFICATION ServingSpec
CONSTANTS
    p1 = p1
    p2 = p2
    v1 = v1
    v2 = v2
    v3 = v3
    linux = linux
    darwin = darwin
    old = old
    new = new
    r1 = r1
    r2 = r2
    None = None
    NoObject = NoObject
    NoEntry = NoEntry
    NoFlight = NoFlight
    NoReply = NoReply
    Procs = {p1, p2}
    Versions = {v1, v2, v3}
    OsArches = {linux, darwin}
    Files = {1}
    Digests = {old, new}
    Scenarios <- MCScenarios
    KeyOrder <- MCKeyOrder
    MaxAttempts = 2
    MaxLosses = 0
    Requests = {r1, r2}
    TTL = 1
    MaxFlight = 1
    MaxTime = 3
    MaxWrites = 3
    Rank <- MCRank
    Audiences <- MCAudiences
INVARIANTS ServingTypeOK PublishedIsFound VerifyTells
PROPERTIES SignedObjectExists
