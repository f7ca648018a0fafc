SPECIFICATION LifecycleSpec
CONSTANTS
    c1 = c1
    c2 = c2
    c3 = c3
    Callers <- ThreeCallers
    MaxTokens = 4
    Backends = {"tmux"}
    WakeTriggers <- BrokerOnly
    Attempts = 2
    CancelAnywhere = TRUE
INVARIANTS
    DriverContract
CHECK_DEADLOCK FALSE
