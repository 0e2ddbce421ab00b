SPECIFICATION Spec
CONSTANTS
    v100 = v100
    v110 = v110
    vv110 = vv110
    nightly = nightly
    linux = linux
    darwin = darwin
    old = old
    new = new
    None = None
    Versions = {v100, v110, vv110, nightly}
    OsArches = {linux, darwin}
    Files = {1}
    Digests = {old, new}
    Rank <- MCRank
    Documents <- AllDocuments
    Stagings <- MCStagings
    Constraints <- MCConstraints
    MaxTime = 3
INVARIANTS TypeOK StaysCanonical PublishIsUpsertAll RemoveIsRemove NothingLost ResolvesHighest
