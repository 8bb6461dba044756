\* Each of four conditions, or the recording message, two changes, two faults.
SPECIFICATION AlertsLive
CONSTANTS
    Plays <- MCAll
    Debounce = 1
    Cooldown = 1
    Stale = 1
    FirstFrame = 1
    Stall = 1
    MaxChanges = 2
    MaxFailures = 2
CHECK_DEADLOCK FALSE
INVARIANTS
    ChatInv
PROPERTIES
    AlertsSteady
