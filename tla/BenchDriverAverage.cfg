CONSTANTS
    NumBench <- MCNumBench
    MaxRounds <- MCMaxRounds
    MaxOptRounds <- MCMaxOptRounds

SPECIFICATION Spec

INVARIANT AverageOverAllRounds

CHECK_DEADLOCK FALSE
