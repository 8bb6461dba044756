\* jobs retry between the commit that exhausts a job and the one that announces it.
SPECIFICATION Spec
CONSTANTS
    asr = asr
    transcript = transcript
    delivery = delivery
    speech = speech
    Jobs = {asr, transcript}
    Initial <- MCInitial
    Follow <- MCFollow
    Announced = {asr}
    Priority <- MCPriority
    Loops = {delivery, speech}
    Serves <- MCServes
    Procs = {p1}
    Legacy = {}
    MaxAttempts = 1
    MaxToken = 4
    MaxGen = 1
CHECK_DEADLOCK FALSE
INVARIANT RevivedSessionNotFailed
