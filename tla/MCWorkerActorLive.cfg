CONSTANTS
  Blocks <- MCBlocks  Inputs <- MCInputs  Outputs <- MCOutputs  Owner <- CallOwner
  Slots <- MCSlots  Signals <- MCSignals  Subscribers <- CallSubscribers  Probes <- MCProbes
  DTypeSize = 2  Room = 1  Tokens = 1  MaxQueueCapacity = 2  IndexRange = 64
  Shortfall = 0  Reserve = 1  Eager = {"snk"}  External = {"k", "r"}
  Burst <- CallBurst  MaxElements = 1  MaxMessages = 2  MaxToggles = 1
SPECIFICATION Spec
PROPERTIES CallsServed
CHECK_DEADLOCK FALSE
