\* A restart with a raised upload limit (SessionDelivery with nothing that fails).
SPECIFICATION MCSpec
CONSTANTS
    p1 = p1
    p2 = p2
    Audio <- MCOnePart
    Large = {}
    LongReport = FALSE
    MaxThrows = 0
    MaxDeaths = 0
    MaxRetries = 0
    NParts = 1
    Size <- MCSizeTwo
    Limits = {1, 2}
    MostPieces = 2
    MaxClaims = 2
    MaxRestarts = 1
CHECK_DEADLOCK FALSE
INVARIANT OneManifestPerPart
