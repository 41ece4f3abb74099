SPECIFICATION Spec
CONSTANTS
    Op <- Ops
    Kind <- Kinds
    Sid <- Sids
    Amount <- Amounts
    Opening = 2
    Credit = 1
    NoOp = "none"
    MaxAborts = 1
INVARIANTS
    TypeOK
    LockedReadsLatest
    RepeatIsFree
PROPERTIES
    FeesCovered
\* every operation ends, and then nothing is left to do
CHECK_DEADLOCK FALSE
