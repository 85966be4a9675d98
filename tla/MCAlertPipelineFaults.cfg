CONSTANTS
    router = router
    host = host
    NoAlert = NoAlert
    Keys <- MCOneKey
    KeySeverities <- MCOneKeySeverities
    Ids <- MCIds
    Times <- MCTimes
    Windows <- MCOneWindow
    MinSeverities <- MCOnlyHigh
    Channels <- MCChannels
    Faults <- MCFaults
SPECIFICATION Spec
PROPERTIES DeduperSpec StoreSpec DeliverySpec StopEndsTheProgram
INVARIANT ConsoleMissesNothing
