CONSTANTS
    alice = alice
    bob = bob
    hostA = hostA
    hostB = hostB
    mild = mild
    strict = strict
    bogus = bogus
    Empty = Empty
    Garbled = Garbled
    NoJob = NoJob
    Workers <- MCTwoWorkers
    Sources <- MCSources
    GoodSettings <- MCGood
    BadSettings <- MCBad
    Kinds <- MCKinds
    MaxRequests = 3
    CanCrash = TRUE
SPECIFICATION Spec
INVARIANTS TypeOK RunningWasWritten AppliedTogether RequestsAddUp
PROPERTY EveryRequestIsAnswered
