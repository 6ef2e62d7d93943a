SPECIFICATION QuerySpec
CONSTANTS
    StaleBytes = 1
    AskFrom = 0
    Payload = {"begin", "relation", "change", "commit"}
    SegMax = 20
    MaxSeq = 14
    Deferred = FALSE
    NoCommit = NoCommit
    NoSegment = NoSegment
    NoTxn = NoTxn
    Altered = {}
    RelationSize = 2
    MaxTxn = 1
    MaxStalls = 0
    MaxKills = 0
    KillScope = "any"
INVARIANT StrongSeesBarrier
