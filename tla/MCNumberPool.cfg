SPECIFICATION FairSpec
CONSTANTS
    Visitor = {v1, v2}
    Num = {n1}
    None = None
    Sweeper = {w1, w2}
    MaxVisits = 2
    MaxCalls = 1
    MaxPings = 1
    MaxOps = 2
    MaxCrashes = 1
    MaxEvents = 2
INVARIANTS
    TypeOK
    SharedOnlyIfStray
    RightVisit
PROPERTIES
    NumbersComeBack
\* every visit of the instance ends, and then nothing is left to do
CHECK_DEADLOCK FALSE
