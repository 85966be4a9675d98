CONSTANTS
    Registered <- MCRegistered
    Probers <- MCProbers
    MaxRequests = 2
    SnifferMayDie = TRUE
SPECIFICATION Spec
INVARIANTS TypeOK StopIsGraceful AtMostOneLateRound
PROPERTIES ProbingGoesOn StopEndsTheProgram
