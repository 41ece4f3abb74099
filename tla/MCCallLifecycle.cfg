SPECIFICATION FairSpec
CONSTANTS
    Call = {c1}
    Line = {l1, l2}
    NoLine = NoLine
    Attempt <- Attempts
    Failover = TRUE
    HeldRelay = TRUE
    BlindAssumes = TRUE
    ZeroIsMissed = TRUE
    MaxTries = 3
    Strikes = 2
    MaxCrashes = 1
    MaxTimeouts = 1
    MaxOdd = 1
    MaxFaults = 2
INVARIANTS
    TypeOK
    AnsweredIsPaid
    PaidWasAnswered
    AnsweredIsShown
    OddListSpares
PROPERTIES
    NoLineTwice
    RowsFinish
    ReportsArrive
    ImplementsSettlement
\* every call of the instance ends, and then nothing is left to do
CHECK_DEADLOCK FALSE
