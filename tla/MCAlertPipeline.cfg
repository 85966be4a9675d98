CONSTANTS
    router = router
    host = host
    NoAlert = NoAlert
    Keys <- MCKeys
    KeySeverities <- MCKeysSeverities
    Ids <- MCIds
    Times <- MCTimes
    Windows <- MCWindows
    MinSeverities <- MCMinSeverities
    Channels <- MCChannels
    Faults = {}
SPECIFICATION Spec
INVARIANTS TypeOK NoneSkipped StoreSeesEveryAlert MailFollowsTheLog
