CONSTANTS
    t1 = t1
    t2 = t2
    none = none
    Threads = {t1, t2}
    Main = t1
    NoThread = none
    MaxRequests = 4
    PipeRoom = 1
    BufSize = 4
    MaxNotices = 0
    Faults = {"slow"}

SPECIFICATION FairSpec

INVARIANTS
    AnswerMatches
