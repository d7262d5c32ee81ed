CONSTANTS
    NumBench <- MCNumBench
    MaxRounds <- MCMaxRounds
    MaxOptRounds <- MCMaxOptRounds
SPECIFICATION MainSpec
INVARIANT SuccessMeansComplete
CHECK_DEADLOCK FALSE
