--------------------------- MODULE MCThreadPools ---------------------------
EXTENDS ThreadPools

CONSTANTS p1, s1, s2

MCChats == {p1, s1, s2}
MCStreamed == {s1, s2}
=============================================================================
