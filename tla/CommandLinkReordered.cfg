\* A link that may reorder: a message with another number, delayed by the link, may
\* arrive between the first copy of a command and its retransmission.
CONSTANTS
    MaxSeq = 2
    Actions = {"ACTION_GRAB"}
    TimeoutMs = 1
    MaxRetries = 1
    TimeModulus = 3
    PollEvery = 1
    Ordered = FALSE
    MaxInFlight = 2
    MaxRestarts = 0
SPECIFICATION Spec
INVARIANT
    AtMostOnce
