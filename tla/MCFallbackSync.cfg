SPECIFICATION FairSpec
CONSTANTS
    Call = {c1}
    Line = {l1, l2}
    NoLine = NoLine
    Post <- Posts
    NoPost = 0
    MaxTimeouts = 1
    MaxRestarts = 1
INVARIANTS
    TypeOK
    ReportNotEarly
    CountedOnce
PROPERTIES
    AnsweredIsBilled
\* every call of the instance ends, and then nothing is left to do
CHECK_DEADLOCK FALSE
