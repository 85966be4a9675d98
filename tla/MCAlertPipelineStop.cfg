CONSTANTS
    router = router
    host = host
    NoAlert = NoAlert
    Keys <- MCOneKey
    KeySeverities <- MCOneKeySeverities
    Ids <- MCTwoIds
    Times <- MCTimes
    Windows <- MCOneWindow
    MinSeverities <- MCOnlyHigh
    Channels <- MCChannels
    Faults = {}
SPECIFICATION Spec
INVARIANT EveryAlertIsRecorded
