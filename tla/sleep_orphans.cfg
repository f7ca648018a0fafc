SPECIFICATION RecoverySpec
CONSTANTS
    MaxRetries = 1
    MaxRequests = 1
    MaxBreaks = 0
    MaxDropped = 1
PROPERTIES
    PriorChildSettled
CHECK_DEADLOCK FALSE
