CONSTANTS
  Threads <- MCThreads  Tid <- MCTid  Makes = {"convertObjectToProxy"}  Queries = {"toString"}
  Losses = 1  MaxRequests = 3  Parts = {"proxy"}
SPECIFICATION MCSpec
PROPERTIES TransactEnds
CHECK_DEADLOCK FALSE
