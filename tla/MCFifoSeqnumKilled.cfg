SPECIFICATION Spec
CONSTANTS
    Clients = {c1, c2}
    SeqLens = {1}
    INT_MAX = 3
    MaxKills = 1
    MaxServerRuns = 1
PROPERTIES
    Answered
