\* As many readers of traces as the pool has connections.
SPECIFICATION FairSpec
CONSTANTS
    Readers = {q1, q2, q3}
    Turns = {t1}
    MaxConns = 3
    Tools = 1
PROPERTIES TraceWorkHasCapacity
CHECK_DEADLOCK FALSE
