CONSTANTS
    NumBench <- MCNumBench
    MaxRounds <- MCMaxRounds
    MaxOptRounds <- MCMaxOptRounds

SPECIFICATION Spec

INVARIANT TypeOK
INVARIANT ReportsWellFormed
INVARIANT CompleteRun
INVARIANT CancelPrompt

PROPERTY Termination
PROPERTY CancelLeadsToExit

CHECK_DEADLOCK FALSE
