CONSTANTS
    NumBench <- MCNumBench
    MaxRounds <- MCMaxRounds
    MaxOptRounds <- MCMaxOptRounds
SPECIFICATION MainSpec
INVARIANTS
    MainTypeOK
    FailedCaseFailsProcess
    PoolsWhileCasesRun
PROPERTIES
    ProcessExits
    CancelStopsProcess
CHECK_DEADLOCK FALSE
