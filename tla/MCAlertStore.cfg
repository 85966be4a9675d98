CONSTANTS
    router = router
    host = host
    Keys <- MCKeys
    KeySeverities <- MCKeySeverities
    Ids <- MCIds
    Times <- MCTimes
SPECIFICATION Spec
INVARIANTS TypeOK CountsAreAccurate RowsSpanTheirAlerts
