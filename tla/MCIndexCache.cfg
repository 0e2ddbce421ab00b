SPECIFICATION FairSpec
CONSTANTS
    r1 = r1
    r2 = r2
    r3 = r3
    NoEntry = NoEntry
    NoFlight = NoFlight
    Requests = {r1, r2, r3}
    TTL = 1
    MaxFlight = 1
    MaxTime = 2
    MaxWrites = 2
INVARIANTS TypeOK OneFlight MonotonicReads FreshWithin FailsByItsFlight
PROPERTIES NeverBackwards EveryRequestEnds
