\* The recording message with a health check quicker than the watchdog.
SPECIFICATION AlertsSpec
CONSTANTS
    Plays <- MCRecording
    Debounce = 1
    Cooldown = 2
    Stale = 1
    FirstFrame = 2
    Stall = 3
    MaxChanges = 2
    MaxFailures = 3
CHECK_DEADLOCK FALSE
INVARIANTS
    NoGreenBeforeFrame
