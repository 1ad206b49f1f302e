SPECIFICATION Spec
CONSTANTS
    Clients = {c1, c2}
    SeqLens = {0, 1, 2}
    INT_MAX = 2
    MaxKills = 2
    MaxServerRuns = 3
INVARIANTS
    TypeOK
    UniqueNumbers
    OwnResponse
    ServerSurvives
PROPERTIES
    AnsweredIfUndisturbed
