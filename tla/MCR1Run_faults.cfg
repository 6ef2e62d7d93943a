CONSTANTS
    U128Max = 2100
    MinimumQuerySamples = 1
    BacklogLimit = 10
    FreshnessLimit = 1000
    Graydb = Graydb
    Clickhouse = Clickhouse
    None = None
    MaxWal = 3
    MaxFaults = 1
    ScheduledRounds = 1
    MaxRounds = 2
    MinSamples = 1
    Ledgers <- MCLedgers
    SearchRates <- MCRates
    Draw <- MCDraw
SPECIFICATION Spec
CHECK_DEADLOCK FALSE
INVARIANTS
    RunTypeOK
    WriterParked
    CheckpointIsSound
    ReportIsTrue
    MapsAgree
    EnginesMended
PROPERTIES
    LedgerFrozen
    ImplementsLifecycle
