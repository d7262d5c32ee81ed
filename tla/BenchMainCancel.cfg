CONSTANTS
    NumBench <- MCNumBench
    MaxRounds <- MCMaxRounds
    MaxOptRounds <- MCMaxOptRounds
SPECIFICATION MainSpec
PROPERTY CancelNeverReset
CHECK_DEADLOCK FALSE
