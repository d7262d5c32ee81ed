CONSTANTS
    MaxNum <- MCMaxNum
    MaxRetry <- MCMaxRetry

SPECIFICATION Spec

INVARIANT TypeOK
INVARIANT AbortOnlyOnExhaustion
PROPERTY Termination
PROPERTY RefinesContract

CHECK_DEADLOCK FALSE
