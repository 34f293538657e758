SPECIFICATION Spec
CONSTANTS
    Watchdog = 4
    HbInterval = 3
    Durations = {0, 1, 5}
    QuickSleep = 1
    PollSleep = 2
    QuickTries = 2
    Jumps = {}
    Slack = 0
    Modes <- MCLoop
INVARIANTS
    FailedMeansFailed
