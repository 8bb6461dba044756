\* A message accepted just before its request timed out.
SPECIFICATION Spec
CONSTANTS
    Rows <- MCRows
    Key <- MCDocument
    Notices = {}
    Superseded = {}
    MaxAttempts = 2
    Procs = {p1}
    Exclusive = TRUE
    MaxFaults = 2
CHECK_DEADLOCK FALSE
INVARIANT LostAckReconcilable
