SPECIFICATION FairPipelineSpec
CONSTANTS
    Payload = {"begin", "relation", "change", "commit"}
    SegMax = 5
    MaxSeq = 14
    Deferred = FALSE
    NoCommit = NoCommit
    NoSegment = NoSegment
    NoTxn = NoTxn
    Altered = {}
    RelationSize = 2
    MaxTxn = 3
    MaxStalls = 0
    MaxKills = 1
    KillScope = "committed"
PROPERTY AppliedOrReported
