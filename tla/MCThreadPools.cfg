CONSTANTS
    p1 = p1
    s2 = s2
    s1 = s1
    NoChat = NoChat
    Chats <- MCChats
    Streamed <- MCStreamed
    HandlerThreads = 1
    ComputeThreads = 1
    MaxRounds = 1

SPECIFICATION PoolSpec

INVARIANT
    ThreadsLeft

PROPERTY
    EveryoneServed

CHECK_DEADLOCK FALSE
