\* One daemon at a time, two loops, crashes, clean stops, sleeps and retries.
SPECIFICATION LiveSpec
CONSTANTS
    asr = asr
    transcript = transcript
    delivery = delivery
    speech = speech
    Jobs = {asr, transcript}
    Initial <- MCInitial
    Follow <- MCFollow
    Announced = {asr}
    Priority <- MCPriority
    Loops = {delivery, speech}
    Serves <- MCServes
    Procs = {p1, p2}
    Legacy = {}
    MaxAttempts = 2
    MaxToken = 4
    MaxGen = 2
CHECK_DEADLOCK FALSE
INVARIANTS
    QueueInv
    OneHandlerPerJob
    DoneHandedOver
PROPERTIES
    ImplementsFencedWork
    CleanExitLeavesNoLease
    LeasesReturn
    ExhaustionAnnounced
