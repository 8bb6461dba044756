\* A summary that is published and not completed.
SPECIFICATION Spec
CONSTANTS
    s1 = s1
    f1 = f1
    Sessions <- OneSession
    Files <- NoneOfThem
    NParts = 1
    AudioHours = 2
    RejectedHours = 1
    IncomingHours = 2
    QuarantineHours = 1
    MaxTime = 3
    MaxFaults = 0
CHECK_DEADLOCK FALSE
PROPERTIES
    NoOpenJobOutlivesAudio
