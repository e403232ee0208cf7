SPECIFICATION Spec
CONSTANTS
    Callers = {t1, t2}
    Keys = {k1, k2}
    Capacity = 2
    Cost = 2
    Rate = 1
    MaxTime = 5
INVARIANTS
    WindowBounded
PROPERTIES
    RefusesOnlyWhenFull
