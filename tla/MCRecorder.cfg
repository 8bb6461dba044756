\* Two sessions of up to two parts, one crash or stop, two faults; a pre-roll longer than the
\* candidate, two sessions and two rotations within the bound.
SPECIFICATION MCSpec
CONSTANTS
    NSessions = 2
    NParts = 2
    MaxCrashes = 1
    MaxFaults = 2
    PreRoll = 3
    Candidate = 2
    Silence = 2
    MaxPart = 4
    MinSpeech = 3
    Gap = 2
    MaxTime = 16
CHECK_DEADLOCK FALSE
INVARIANTS
    ArchiveInv
    HandedOverWhole
    MachineInv
PROPERTIES
    SessionsSettle
