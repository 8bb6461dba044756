\* The encoder of the last part fails and the daemon dies.
SPECIFICATION Spec
CONSTANTS
    NSessions = 1
    NParts = 2
    MaxCrashes = 1
    MaxFaults = 1
CHECK_DEADLOCK FALSE
PROPERTIES
    TimingSurvives
