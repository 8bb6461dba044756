\* Two failures of one transcription with a manual retry between.
SPECIFICATION Spec
CONSTANTS
    Audio = {p1}
    Large = {}
    LongReport = FALSE
    MaxThrows = 2
    MaxDeaths = 0
    MaxRetries = 1
CHECK_DEADLOCK FALSE
INVARIANTS
    FailureIsAnnounced
