SPECIFICATION UpdateSpec
CONSTANTS
    Run = {r1}
    MaxCommit = 2
    BrokenSets = {{}, {1}}
    Scales = {1, 2}
    MaxTrouble = 0
PROPERTIES
    RetriesRebuild
