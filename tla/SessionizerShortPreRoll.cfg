\* A pre-roll shorter than the speech that opens a session.
SPECIFICATION Spec
CONSTANTS
    PreRoll = 1
    Candidate = 3
    Silence = 2
    MaxPart = 4
    MinSpeech = 3
    Gap = 2
    MaxTime = 10
CHECK_DEADLOCK FALSE
INVARIANTS
    SpeechWithinDuration
