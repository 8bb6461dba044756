\* Three claims that race, one perhaps of the earlier release, or two with commands and a
\* stranger that takes a pid; a claim may try again once.
SPECIFICATION MCSpec
CONSTANTS
    NGens = 3
    Crowd = 3
    Pids <- MCPids
    Roles <- MCBoth
    Commands <- MCCommands
    LegacyStarts = TRUE
    MaxTries = 2
    MaxReuse = 1
CHECK_DEADLOCK FALSE
INVARIANTS
    OwnershipInv
PROPERTIES
    MutatesAlone
    ClaimEnds
