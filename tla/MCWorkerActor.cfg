CONSTANTS
  Blocks <- MCBlocks  Inputs <- MCInputs  Outputs <- MCOutputs  Owner <- MCOwner
  Slots <- MCSlots  Signals <- MCSignals  Subscribers <- MCSubscribers  Probes <- MCProbes
  DTypeSize = 2  Room = 2  Tokens = 1  MaxQueueCapacity = 3  IndexRange = 64
  Shortfall = 0  Reserve = 1  Eager = {"snk"}  External = {}
  Burst <- MCBurst  MaxElements = 2  MaxMessages = 4  MaxToggles = 0
SPECIFICATION Spec
INVARIANTS NoMessageLost SleepsOnlyWhenServed
PROPERTIES LabelsFollowElements
CHECK_DEADLOCK FALSE
