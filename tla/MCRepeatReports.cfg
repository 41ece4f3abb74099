SPECIFICATION Spec
CONSTANTS
    t1 = t1
    t2 = t2
    t3 = t3
    None = None
    Try = {t1, t2, t3}
    Workers = 2
    MaxAgain = 1
    MaxHeld = 1
    MaxSwept = 1
    MaxFails = 1
    MaxOdd = 1
SYMMETRY Symmetry
INVARIANTS
    TypeOK
    ReportsCurrent
    CallStaysShown
    ShownTwiceOnlyByOverlap
\* every try of the instance ends, and then nothing is left to do
CHECK_DEADLOCK FALSE
