SPECIFICATION RecoverySpec
CONSTANTS
    MaxRetries = 2
    MaxRequests = 1
    MaxBreaks = 2
    MaxDropped = 1
PROPERTIES
    ReconnectSettles
CHECK_DEADLOCK FALSE
