SPECIFICATION MoneySpec
CONSTANTS
    o1 = o1
    o2 = o2
    h1 = h1
    h2 = h2
    j1 = j1
    j2 = j2
    Order = {o1, o2}
    Count = {1, 2}
    Handler = {h1, h2}
    Job = {j1, j2}
    OrderAmount = 1
    Fee = 2
    CreditLimit = 1
    OpeningBal = 2
    Cycle = 2
    LastDay = 3
    MaxAgain = 1
    MaxKilled = 1
    MaxByHand = 1
    MaxSaves = 1
CONSTRAINT
    Scope
INVARIANTS
    MoneyTypeOK
    CreditedExactlyOnce
PROPERTIES
    FeeOncePerCycle
SYMMETRY Symmetry
\* every day of the instance passes, and then nothing is left to do
CHECK_DEADLOCK FALSE
