\* A file and a request to recognise it again, one attempt.
SPECIFICATION Spec
CONSTANTS
    NUpdates = 2
    MaxAttempts = 1
    MaxCrashes = 0
    MaxFaults = 1
CHECK_DEADLOCK FALSE
INVARIANTS
    ExhaustionIsAnnounced
