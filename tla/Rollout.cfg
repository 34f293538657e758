SPECIFICATION Spec
CONSTANTS
    CompressPages = TRUE
    MaxRefusals = 2
    Run = {r1}
    MaxCommit = 2
    BrokenSets = {{}, {1}}
    Scales = {1, 2}
    MaxTrouble = 1
INVARIANTS
    TypeOK
    OneRefusal
PROPERTIES
    OneRequestEach
    FindsRoute
