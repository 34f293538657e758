SPECIFICATION UpdateSpec
CONSTANTS
    Run = {r1, r2}
    MaxCommit = 3
    BrokenSets = {{}, {2}}
    Scales = {1, 2}
    MaxTrouble = 2
INVARIANTS
    UpdateTypeOK
    NothingForgotten
PROPERTIES
    CatchesUp
    KeepsReplicas
