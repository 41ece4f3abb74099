SPECIFICATION Spec
CONSTANTS
    o1 = o1
    o2 = o2
    Main = Main
    u1 = u1
    u2 = u2
    Org = {o1, o2}
    User = {u1, u2}
    Quarantine = 2
    Lifetime = 1
    LastDay = 4
    MaxEdits = 2
    MaxKilled = 1
SYMMETRY Symmetry
INVARIANTS
    TypeOK
PROPERTIES
    FullQuarantine
\* every day of the instance passes, and then nothing is left to do
CHECK_DEADLOCK FALSE
