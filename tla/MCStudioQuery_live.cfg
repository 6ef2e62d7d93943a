SPECIFICATION FairQuerySpec
CONSTANTS
    StaleBytes = 1
    AskFrom = 2
    Payload = {"begin", "relation", "change", "commit"}
    SegMax = 4
    MaxSeq = 14
    Deferred = FALSE
    NoCommit = NoCommit
    NoSegment = NoSegment
    NoTxn = NoTxn
    Altered = {}
    RelationSize = 2
    MaxTxn = 2
    MaxStalls = 0
    MaxKills = 1
    KillScope = "segment"
INVARIANT BoundedIsFresh
PROPERTIES
    QueryEnds
    EventuallyApplied
