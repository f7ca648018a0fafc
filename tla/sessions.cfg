SPECIFICATION SessionsSpec
CONSTANTS
    c1 = c1
    c2 = c2
    c3 = c3
    Callers <- ThreeCallers
    MaxTokens = 3
    Backends = {"tmux", "codex"}
    WakeTriggers <- BrokerAndWatchdog
    Attempts = 2
    CancelAnywhere = FALSE
    MaxSends = 3
    Modes <- BothModes
    Window = 1
    Cap = 2
    MaxTime = 5
    MaxRetries = 2
    MaxRequests = 2
    MaxBreaks = 3
    MaxDropped = 1
    WarnAfter = 1
    RecoverAfter = 2
    TransitionWarn = 1
    TransitionRecover = 2
    Activities <- OneTool
    MaxTurns = 2
    MaxTroubles = 2
    MaxEvents = 3
    IdleChecks = 2
    MaxInterventions = 2
INVARIANTS
    DriverContract
    ConnectedDrains
    OneRecoveryOwner
    NoOrphan
    LoopsAreCounted
PROPERTIES
    OperationsReturn
    OncePerWindow
    ComesBack
    StuckIsReplaced
    RecoveriesSpaced
    EventsReachBatch
CHECK_DEADLOCK FALSE
