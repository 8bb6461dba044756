\* The daemon's drain, with crashes, stops, timeouts, 429s, deletions and operators.
SPECIFICATION LiveSpec
CONSTANTS
    Rows <- MCRows
    Key <- MCEvent
    Notices = {2}
    Superseded = {1}
    MaxAttempts = 2
    Procs = {p1}
    Exclusive = TRUE
    MaxFaults = 3
CHECK_DEADLOCK FALSE
INVARIANTS
    DeliveryInv
    DuplicatesAreUnacked
    OneMessagePerEvent
    StatusIsCurrent
PROPERTIES
    RowsSettle
