SPECIFICATION Spec
CONSTANTS
    Children = {c1, c2, c3}
    MaxSignals = 3
INVARIANTS
    TypeOK
    CounterExact
    NoLostWakeup
    HandlerOnlyInSigsuspend
    ReportExact
PROPERTIES
    CollectsAll
