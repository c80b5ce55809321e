SPECIFICATION Spec
CONSTANTS
    NumBuffers = 2
    BufferSize = 3
    DefaultPoolSize = 2
    Requires = {2, 3}
    MaxBytes = 5
    MaxSkip = 1
INVARIANTS SinkHoldsPosted
CHECK_DEADLOCK FALSE
