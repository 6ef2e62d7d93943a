SPECIFICATION ShapesSpec
CONSTANTS
    NoText = NoText
    Null = Null
    Key = {k1, k2}
    Val = {v1, v2}
    Unchanged = Unchanged
    Identity = "key"
    FlushRows = 2
    NoLsn = NoLsn
    MaxLsn = 3
    MaxChanges = 5
    MaxIndexed = 4
SYMMETRY Interchangeable
INVARIANT SearchAtBoundary
INVARIANT ApplySucceeds
INVARIANT TimeTravel
INVARIANT HeadIsIndexed
INVARIANT DiskTimeTravel
