SPECIFICATION EdgeSpec
CONSTANTS
    Clients = {c1, c2}
    Callers = {g1, g2}
    Cost = 2
    Burst = 4
    CleanEvery = 2
    Idle = 6
    MaxLag = 1
    MaxTime = 10
INVARIANTS WithinBurst CountsAreExact 
SYMMETRY AnyName
CHECK_DEADLOCK FALSE
