SPECIFICATION Spec
CONSTANT
    MaxSignals = 0
PROPERTY
    AllDemosRun
CHECK_DEADLOCK FALSE
