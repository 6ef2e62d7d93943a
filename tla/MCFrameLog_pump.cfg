SPECIFICATION OwnedSpec
CONSTANTS
    Payload = {p}
    SegMax = 2
    MaxSeq = 6
    Deferred = FALSE
    NoCommit = NoCommit
INVARIANT TypeOK
INVARIANT MarkIsSyncedPrefix
INVARIANT ExactlyOnce
INVARIANT VerifyLogPasses
PROPERTY KeepsCustody
