SPECIFICATION FairSpec
CONSTANTS
    Balls = {1}
    NoResult = NoResult
    Hasty = FALSE
    MaxShots = 2
    MaxFrames = 2
    MaxDrops = 1
INVARIANTS TypeOK FlagsAgree TablesSettle OnlyMissedResultLocks
PROPERTIES NoReportRefused ReplaysEnd
CHECK_DEADLOCK FALSE
