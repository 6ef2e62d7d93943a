SPECIFICATION CdcSpec
CONSTANTS
    NoTxn = NoTxn
    Altered = {}
    Tables = 2
    MaxTxn = 3
    EventOf <- MCDeletesLast
    WindowCommits = 2
    MaxLosses = 1
    MaxOutages = 1
INVARIANT CdcTypeOK
INVARIANT MarkerProves
INVARIANT FeedbackIsApplied
PROPERTY FullWindowApplies
CHECK_DEADLOCK FALSE
