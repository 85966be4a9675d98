CONSTANTS
    router = router
    host = host
    Keys <- MCKeys
    KeySeverities <- MCKeySeverities
    Ids <- MCIds
    Times <- MCTimes
    Windows <- MCWindows
SPECIFICATION Spec
INVARIANTS TypeOK OneNoticePerWindow WithheldTellsItsBurst
