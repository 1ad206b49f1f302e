SPECIFICATION Spec
CONSTANTS
    N = 3
    Args = {"value", "address"}
    MaxSpurious = 2
INVARIANTS
    TypeOK
    JoinOnlyPastMutex
    CountersExact
    SignalStillToCome
PROPERTIES
    CollectsAll
\* The "address" program really deadlocks; that the "value" program does not
\* is part of CollectsAll.
CHECK_DEADLOCK FALSE
