CONSTANTS
  Threads = {"t1", "t2"}
  Main = "t1"
  Paths <- MCPaths
  Handlers <- MCHandlers
  Keys <- MCKeys
  Core <- MCCore
  Modules = {"m", "broken"}
  Broken = {"broken"}
  Statics <- MCStatics
  Users <- MCUsers
  Apart = TRUE
  MaxOps = 6
  MaxCopies = 2
  Owners = {"t1", "t2"}
  Names = {1, 2}
  Containers = {"c1", "c2"}
  NULL = Nothing
  Aliased = FALSE
  Writers = {"t1", "t2"}
  Streams = {"clog", "cout"}
  Clog = "clog"
  Texts = {"x", "y"}
  Addrs = {"here"}
  NewLine = "newline"
  None = Nothing
  Default = "default"
  MaxPuts = 3
  MaxRedirects = 2
  MaxFaults = 1
  Nothing = Nothing
  Parts = {"registry", "loading", "configs", "jit", "classes", "registration", "numbers", "calls", "refs", "archive", "objects", "logs", "listener"}
SPECIFICATION MCSpec
INVARIANTS RegistrySound CallsSound NumbersKept ObjectsSound TextInOrder
PROPERTIES LoadingSound
CHECK_DEADLOCK FALSE
