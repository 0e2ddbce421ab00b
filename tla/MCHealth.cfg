SPECIFICATION FairSpec
CONSTANTS
    r1 = r1
    r2 = r2
    bucket = bucket
    None = None
    Requests = {r1, r2}
    Deps = {bucket}
    Required = {bucket}
    Grace = 1
    ReadyDeadline = 2
    StatusDeadline = 1
    TTL = 1
    Limit = 2
    MaxAsk = 2
    MaxTime = 4
    MaxChanges = 1
INVARIANTS TypeOK ReadyHolds StatusFresh StatusTells GracefulShutdown
PROPERTY Stops
