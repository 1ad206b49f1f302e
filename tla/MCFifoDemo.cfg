SPECIFICATION Spec
CONSTANT
    MaxSignals = 2
INVARIANTS
    TypeOK
    CleanedUp
    NoLeftovers
    NoCrossTalk
PROPERTIES
    NoLossBeforeEof
    Completes
\* The program may end, or be blocked for ever in open() or waitpid().
CHECK_DEADLOCK FALSE
