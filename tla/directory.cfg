SPECIFICATION TwoLevelsSpec
CONSTANTS
    Labels <- TwoLabels
    Main = "main"
    MaxObjects = 3
    MaxConversations = 2
    MaxMishaps = 2
    MaxEdits = 1
    c1 = c1
    c2 = c2
    c3 = c3
    Callers <- ThreeCallers
    MaxTokens = 4
    Backends = {"tmux", "codex"}
    WakeTriggers <- BrokerOnly
    Attempts = 2
    CancelAnywhere = TRUE
SYMMETRY ThreeSymmetry
INVARIANTS
    LiveIsAccounted
    OneBringUp
PROPERTIES
    SeatedPersist
CHECK_DEADLOCK FALSE
