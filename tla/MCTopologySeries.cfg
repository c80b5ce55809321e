CONSTANTS
  R = R  T = T  U = U  a = a  b = b  c = c
  Tops = {R, T, U}  Blocks = {a, b, c}  Envs = {"near"}  Env <- MCNear
  Committers = {R}  Wires <- MCSeries
  RegisteredIn <- MCRegisteredIn  RegisteredOut <- MCRegisteredOut
  Custom = {}  Domain <- MCDomain  Rejects = {}  MayFail = {}
  MaxCalls = 5  MaxCommits = 1  MaxFaults = 1
  Nothing = Nothing  Parts = {"topology"}
  PortNames = {"0", "1", "2", "a"}  Null = Nothing  Private = {}  MaxPorts = 3  MaxPortCalls = 1
  portNameToIndex <- MCPortNameToIndex  to_string <- MCToString
SPECIFICATION MCSpec
PROPERTIES CommitMakesConnections
CHECK_DEADLOCK FALSE
