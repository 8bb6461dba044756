\* One part and a long report, a throw, an interruption or a dead row, one manual retry; a small
\* part and one of two pieces with two overlapping handlers and a restart.
SPECIFICATION MCSpec
CONSTANTS
    p1 = p1
    p2 = p2
    Audio <- MCOnePart
    Large = {}
    LongReport = TRUE
    MaxThrows = 1
    MaxDeaths = 1
    MaxRetries = 1
    NParts = 2
    Size <- MCSize
    Limits = {1, 2}
    MostPieces = 2
    MaxClaims = 2
    MaxRestarts = 1
CHECK_DEADLOCK FALSE
INVARIANTS
    SessionInv
    AudioInv
PROPERTIES
    OutcomeHolds
    SessionEnds
