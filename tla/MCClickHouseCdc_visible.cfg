SPECIFICATION CdcSpec
CONSTANTS
    NoTxn = NoTxn
    Altered = {}
    Tables = 2
    MaxTxn = 2
    EventOf <- MCInserts
    WindowCommits = 2
    MaxLosses = 0
    MaxOutages = 0
INVARIANT AnswerIsExact
CHECK_DEADLOCK FALSE
