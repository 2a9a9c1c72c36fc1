SPECIFICATION FairSpec
CONSTANTS
    Attempts = {a1, a2, a3}
    RequestIds = {i1}
    Conns = {c1, c2}
    Negotiated = {c1}
    Restores <- InteractiveOnly
    QueueCap = 1
    None = None
INVARIANTS
    TypeOK
    NoDuplicateTerminal
PROPERTIES
    NewerAttemptKept
    SettledKept
    WaitersAnswered
\* The attempts are a bound: when all frames are answered the model stops.
CHECK_DEADLOCK FALSE
