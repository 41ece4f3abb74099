SPECIFICATION Spec
CONSTANTS
    Request = {r1, r2, r3}
    Line <- Lines
    Pool = {}
    l1 = l1
    l2 = l2
    NoLine = NoLine
    Limit <- Limits
    Covers <- Covered
    Cap <- Maxima
    Campaign = "campaign"
    Nobody = Nobody
    MaxFaults = 0
PROPERTY
    OverflowOnlyWhenFull
\* every call of the instance ends, and then nothing is left to do
CHECK_DEADLOCK FALSE
