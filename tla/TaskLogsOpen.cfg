SPECIFICATION SafeSpec
CONSTANTS
    w1 = w1
    w2 = w2
    p1 = p1
    p2 = p2
    p3 = p3
    t1 = t1
    t2 = t2
    None = None
    Worker = {w1}
    Pusher = {p1}
    Keeper = {}
    Contained = {}
    Task = {t1}
    Rank <- MCRank
    MaxOpens <- MCOpens
    MaxLines <- MCLines
INVARIANTS
    NothingLost
