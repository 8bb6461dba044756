\* Two updates of any kind, two attempts, one crash, two faults.
SPECIFICATION LiveSpec
CONSTANTS
    NUpdates = 2
    MaxAttempts = 2
    MaxCrashes = 1
    MaxFaults = 2
CHECK_DEADLOCK FALSE
INVARIANTS
    InputInv
PROPERTIES
    OutcomeHolds
    InputAnswered
