CONSTANTS
    MaxSeq = 2
    Actions = {"ACTION_GRAB", "ACTION_STOP"}
    TimeoutMs = 1
    MaxRetries = 2
    TimeModulus = 3
    PollEvery = 1
    Ordered = TRUE
    MaxInFlight = 3
    MaxRestarts = 1
SPECIFICATION Spec
INVARIANTS
    SuccessMeansDone
    AtMostOnce
    RefusalIsFinal
    OnlyStopInterrupts
