CONSTANTS
    NumBench <- MCNumBench
    MaxRounds <- MCMaxRounds
    MaxOptRounds <- MCMaxOptRounds

SPECIFICATION Spec

PROPERTY RefinesSuite

CHECK_DEADLOCK FALSE
