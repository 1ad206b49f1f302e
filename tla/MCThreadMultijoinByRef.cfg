SPECIFICATION Spec
CONSTANTS
    N = 2
    Args = {"address"}
    MaxSpurious = 0
PROPERTIES
    JoinsAll
CHECK_DEADLOCK FALSE
