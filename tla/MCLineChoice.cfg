SPECIFICATION ChoiceSpec
CONSTANTS
    t1 = t1
    t2 = t2
    t3 = t3
    u = u
    b1 = b1
    b2 = b2
    Blank = Blank
    None = None
    NCalls = 2
    Tfn = {t1, t2, t3}
    Unlisted = {u}
    Buyer = {b1, b2}
    Plans <- MCPlans
    MaxTries = 3
    MaxSent = 3
    MaxChanges = 1
    MaxOutages = 1
INVARIANTS
    ChoiceTypeOK
PROPERTIES
    NeverSameTfn
    OriginalKept
    RefusedOnlyWhenNoneLeft
\* every call of the instance ends, and then nothing is left to do
CHECK_DEADLOCK FALSE
