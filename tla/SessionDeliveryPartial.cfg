\* The split of the second part fails once; its retry waits while the rest is sent.
SPECIFICATION Spec
CONSTANTS
    Audio = {p1, p2}
    Large = {p2}
    LongReport = FALSE
    MaxThrows = 1
    MaxDeaths = 0
    MaxRetries = 0
CHECK_DEADLOCK FALSE
INVARIANTS
    DoneOnlyWhenAllSent
