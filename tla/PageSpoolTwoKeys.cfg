SPECIFICATION SafeSpec
CONSTANTS
    w1 = w1
    w2 = w2
    k1 = k1
    k2 = k2
    t1 = t1
    t2 = t2
    a = a
    b = b
    c = c
    None = None
    Worker = {w1, w2}
    Key = {k1, k2}
    KeyOf <- MCTwoKeys
    Task = {t1, t2}
    Page = {a, c}
    TaskOf <- MCTaskOf
    Keepable = {a}
    Retries = 2
    MaxFiles = 1
    TransportTexts <- MCPlain
    RefusalTexts <- MCRefused
    MaxCrashes = 0
INVARIANTS
    DropOnlyWhenTaskLost
