\* One session of two parts and one incoming file, two hours, two interrupted deletions.
SPECIFICATION Apart
CONSTANTS
    s1 = s1
    f1 = f1
    Sessions <- OneSession
    Files <- OneFile
    NParts = 2
    AudioHours = 1
    RejectedHours = 1
    IncomingHours = 1
    QuarantineHours = 1
    MaxTime = 2
    MaxFaults = 2
CHECK_DEADLOCK FALSE
INVARIANTS
    RetentionInv
PROPERTIES
    WorkHasItsAudio
    DeletionTimely
