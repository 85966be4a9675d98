CONSTANTS
    Registered <- MCRegistered
    Probers <- MCProbers
    MaxRequests = 2
    SnifferMayDie = TRUE
SPECIFICATION Spec
PROPERTY StopControlEndsTheService
