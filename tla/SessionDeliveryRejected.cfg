\* One interrupted transcription job.
SPECIFICATION Spec
CONSTANTS
    Audio = {p1}
    Large = {}
    LongReport = FALSE
    MaxThrows = 0
    MaxDeaths = 1
    MaxRetries = 0
CHECK_DEADLOCK FALSE
INVARIANTS
    RejectedStaysSilent
