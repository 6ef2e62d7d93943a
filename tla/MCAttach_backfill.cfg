SPECIFICATION StartedSpec
CONSTANTS
    Payload = {"begin", "relation", "change", "commit"}
    SegMax = 5
    MaxSeq = 14
    Deferred = FALSE
    NoCommit = NoCommit
    NoSegment = NoSegment
    NoTxn = NoTxn
    Altered = {2}
    RelationSize = 2
    MaxTxn = 3
    MaxStalls = 1
    MaxKills = 2
    KillScope = "segment"
    Table <- MCTable
    Identity <- MCIdentity
    TableOf <- MCTableOf
    PageOf <- MCPageOf
    RelPages = {0, 2}
    Worker = {w1, w2}
    NoJob = NoJob
    MaxBase = 2
    MaxAttaches = 2
SYMMETRY Interchangeable
INVARIANT PipelineTypeOK
INVARIANT AckIsCustody
INVARIANT AppliedIsPrefix
INVARIANT NoApplyError
INVARIANT SnapshotPlusStream
INVARIANT ReplayAgrees
