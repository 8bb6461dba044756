\* A daemon of the release before daemon_ownership is still alive, suspended past its leases.
SPECIFICATION Spec
CONSTANTS
    asr = asr
    transcript = transcript
    delivery = delivery
    speech = speech
    Jobs = {asr, transcript}
    Initial <- MCInitial
    Follow <- MCFollow
    Announced = {asr}
    Priority <- MCPriority
    Loops = {delivery, speech}
    Serves <- MCServes
    Procs = {p1, p2}
    Legacy = {p1}
    MaxAttempts = 2
    MaxToken = 3
    MaxGen = 2
CHECK_DEADLOCK FALSE
PROPERTIES
    PublishedByNewestClaim
