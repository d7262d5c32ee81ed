CONSTANTS
    NumBench <- MCNumBench
    MaxRounds <- MCMaxRounds
    MaxOptRounds <- MCMaxOptRounds
    Repeat <- MCRepeat
    Burst <- MCBurst
    PoolHandles <- MCPoolHandles
    UNDEF = UNDEF
    Faults = {"deq_short"}
    s1 = s1  s2 = s2  s3 = s3  s4 = s4
    p1 = p1  p2 = p2  p3 = p3  p4 = p4
    v1 = v1  v2 = v2  v3 = v3  v4 = v4
    r1 = r1  r2 = r2
INIT EvInit
NEXT EvNext
INVARIANT
    NoBadUse
CHECK_DEADLOCK FALSE
