\* A daemon ends between the inspection of a stop command and its signal.
SPECIFICATION MCSpec
CONSTANTS
    NGens = 2
    Crowd = 4
    Pids <- MCPids
    Roles <- MCDaemons
    Commands <- MCStop
    LegacyStarts = FALSE
    MaxTries = 2
    MaxReuse = 1
CHECK_DEADLOCK FALSE
PROPERTIES
    SignalsOwner
