SPECIFICATION Spec
CONSTANTS
    Call = {c1}
    Line = {l1, l2}
    NoLine = NoLine
    Post <- Posts
    NoPost = 0
    MaxTimeouts = 0
    MaxRestarts = 0
INVARIANT
    ShownWasPlaced
\* every call of the instance ends, and then nothing is left to do
CHECK_DEADLOCK FALSE
