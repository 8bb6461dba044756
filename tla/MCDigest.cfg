\* Days of six instants; one session on one day, every digest with a session a document.
SPECIFICATION MCSpec
CONSTANTS
    Lo <- MCLo
    Hi = 24
    Dates <- MCDates
    Zones <- MCZones
    DayLength = 6
    Reach = 12
    s1 = s1
    Sessions <- MCSessions
    LastDay = 1
    MaxRevision = 1
    InlineRows = 0
    MaxFaults = 2
CHECK_DEADLOCK FALSE
INVARIANTS
    Exact
    DigestInv
PROPERTIES
    SnapshotIsComplete
    DigestEnds
