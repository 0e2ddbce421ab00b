SPECIFICATION ReliableSpec
CONSTANTS
    p1 = p1
    p2 = p2
    p3 = p3
    v1 = v1
    v2 = v2
    linux = linux
    darwin = darwin
    old = old
    new = new
    None = None
    NoObject = NoObject
    Procs = {p1, p2}
    Versions = {v1, v2}
    OsArches = {linux, darwin}
    Files = {1, 2}
    Digests = {old, new}
    Scenarios <- PublishDuringReindex
    KeyOrder <- MCKeyOrder
    MaxAttempts = 5
    MaxLosses = 0
INVARIANT NeverForgotten
