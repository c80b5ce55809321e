SPECIFICATION FairSpec
CONSTANTS
    NumHandles = 3
    PoolArgs <- SmallPools
INVARIANTS PoolSound NoUseAfterUnregister
PROPERTIES UnregisterReturns TaskKeepsRunning
CHECK_DEADLOCK FALSE
