CONSTANTS
    alice = alice
    bob = bob
    hostA = hostA
    hostB = hostB
    mild = mild
    strict = strict
    bogus = bogus
    Empty = Empty
    Garbled = Garbled
    NoJob = NoJob
    Workers <- MCTwoWorkers
    Sources <- MCSources
    GoodSettings <- MCGood
    BadSettings = {}
    Kinds = {"add"}
    MaxRequests = 2
    CanCrash = FALSE
SPECIFICATION Spec
INVARIANT ReloadsCatchUp
