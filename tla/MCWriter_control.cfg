CONSTANTS
    Payload = {mapping}
    mapping = mapping
    SegMax = 4
    Deferred = TRUE
    NoCommit = NoCommit
    MaxSeq = 6
    AckBatch = 2
    ChannelCapacity = 2
    MaxPlans = 3
    Mix <- MCMix
    Sizes <- MCSizes
    Seeds <- MCSeeds
    TenantCount = 2
    InsertRows = 5
    UpdateRows = 2
    DeleteRows = 2
    EventInserts = 1
    OrderInserts = 3
    CustomerInserts = 1
    OrderUpdates = 3
    CustomerUpdates = 1
    OrderDeletes = 2
    EventDeletes = 1
SPECIFICATION WriterSpec
PROPERTY WaitEnds
INVARIANTS
    LedgerIsHistory
    OneUnresolved
    NothingRefused
    ReaderFollows
    SlotIsCustody
    BatchIsDurable
    OracleIsSource
    CompareRefuses
