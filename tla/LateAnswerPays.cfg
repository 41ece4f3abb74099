SPECIFICATION Spec
CONSTANTS
    Call = {c1}
    Line = {l1, l2}
    NoLine = NoLine
    Attempt <- Attempts
    Failover = FALSE
    HeldRelay = TRUE
    BlindAssumes = TRUE
    ZeroIsMissed = TRUE
    MaxTries = 3
    Strikes = 2
    MaxCrashes = 0
    MaxTimeouts = 0
    MaxOdd = 0
    MaxFaults = 0
INVARIANT
    LateAnswerPays
\* every call of the instance ends, and then nothing is left to do
CHECK_DEADLOCK FALSE
