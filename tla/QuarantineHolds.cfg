SPECIFICATION Spec
CONSTANTS
    Visitor = {v1, v2}
    Num = {n1}
    None = None
    Sweeper = {w1}
    MaxVisits = 2
    MaxCalls = 0
    MaxPings = 0
    MaxOps = 2
    MaxCrashes = 0
    MaxEvents = 2
PROPERTY
    QuarantineHolds
\* every visit of the instance ends, and then nothing is left to do
CHECK_DEADLOCK FALSE
