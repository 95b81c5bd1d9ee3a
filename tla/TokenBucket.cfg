SPECIFICATION Spec
CONSTANTS
    Rate = 1
    Capacity = 3
    Amounts = {1, 3, 4}
    Callers = {c1}
    MaxClock = 4
INVARIANTS TypeOK WindowBound
\* The clock stops at its bound.
CHECK_DEADLOCK FALSE
