\* Two callers of two calls together, each of which may leave its process behind; frames of
\* two units, a buffer of one frame, two gaps.
SPECIFICATION ChildrenSpec
CONSTANTS
    a = a
    b = b
    Callers <- MCTwo
    MaxGens = 2
    MaxCalls = 2
    FrameUnits = 2
    MaxBuffered = 1
    MaxChunk = 3
    MaxUnits = 6
    MaxGaps = 2
CHECK_DEADLOCK FALSE
INVARIANTS
    WorkerInv
    CaptureInv
PROPERTIES
    CallsEnd
    CaptureEnds
