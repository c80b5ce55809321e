CONSTANTS
  R = R  T = T  U = U  a = a  b = b  c = c
  Tops = {R, T}  Blocks = {a, b, c}  Envs = {"near", "far"}  Env <- MCEnv
  Committers = {R}  Wires <- MCWires
  RegisteredIn <- MCRegisteredIn  RegisteredOut <- MCRegisteredOut
  Custom <- MCCustom  Domain <- MCDomain  Rejects <- MCRejects  MayFail = {b}
  MaxCalls = 6  MaxCommits = 2  MaxFaults = 1
  Nothing = Nothing
  Parts = {"topology", "ports", "make", "dump", "split", "eval", "comments", "markup"}
  PortNames = {"0", "1", "2", "a"}  Null = Nothing  Private = {}  MaxPorts = 3  MaxPortCalls = 1
  portNameToIndex <- MCPortNameToIndex  to_string <- MCToString
SPECIFICATION MCSpec
INVARIANTS WiringSound PortsSound JSONDescribes TextsRight
PROPERTIES CommitMakesConnections ConnectionsKept
CHECK_DEADLOCK FALSE
