CONSTANTS
    MaxNum <- MCMaxNum
    MaxRetry <- MCMaxRetry

SPECIFICATION Spec

INVARIANT SinglesAbort

CHECK_DEADLOCK FALSE
