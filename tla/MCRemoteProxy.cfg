CONSTANTS
  Threads <- MCThreads  Tid <- MCTid  Makes = {"convertObjectToProxy"}  Queries = {"convertProxyToObject"}
  Losses = 1  MaxRequests = 4
  Parts = {"proxy", "client", "server", "wire"}
SPECIFICATION MCSpec
INVARIANTS ProxySound
PROPERTIES CallsReturn ServerEndsWithHandle DatagramsWhole
CHECK_DEADLOCK FALSE
