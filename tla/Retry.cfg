\* Timeouts of a few ms and a clock that wraps every 7 ms, so that waits
\* straddle the wrap.
CONSTANTS
    Seqs = {1, 2}
    TimeoutMs = 3
    AckTimeoutMs = 2
    ExecTimeoutMs = 4
    MaxRetries = 2
    MaxProgress = 2
    TimeModulus = 7
    PollEvery = 2
    Task = {0, 1}
    Deadlines = {0, 2}
    MAX_MONITORED_TASKS = 2
    TickModulus = 5
    MaxSilence = 7
SPECIFICATION SuiteSpec
INVARIANTS
    StatesFit
    NeverLate
PROPERTIES
    NeverEarly
    DecidedOnce
