SPECIFICATION Spec
CONSTANTS
    Watchdog = 3
    HbInterval = 2
    Durations = {0, 1, 4}
    QuickSleep = 1
    PollSleep = 2
    QuickTries = 2
    Jumps <- MCJumps
    Slack = 2
    Modes <- MCModes
INVARIANTS
    TypeOK
    BeatsBeforeClaim
    ProgressIsReported
    NoFalseSuccess
PROPERTIES
    ExitsNoEarlier
    ExitsInTime
    NoZombie
