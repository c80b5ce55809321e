SPECIFICATION Spec
CONSTANTS
    NumBuffers = 2
    BufferSize = 3
    DefaultPoolSize = 2
    Requires = {2, 3}
    MaxBytes = 6
    MaxSkip = 0
PROPERTIES StreamSpec AccumulatorsSound
CHECK_DEADLOCK FALSE
