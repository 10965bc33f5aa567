SPECIFICATION Spec
CONSTANTS
  NumRRand = 1
  RandPortLimit = 1
  RetryAge = 1
  FrecTimeout = 1
  MaxPerGroup = 1
  ListenAddrs = {"l1"}
  MaxListeners = 3
  CleverBind = FALSE
  MaxRetries = 2
  MaxLag = 3
  LoopDetect = TRUE
  Ids = {i1, i2}
  i1 = i1
  i2 = i2
  QName <- Names
  Servers <- AllServers
  Requests <- ReqsThree
  Config0 <- Scoped
  ServerLists <- Shrinks
SYMMETRY IdSymmetry
INVARIANTS IdsUnique
PROPERTIES YoungQueriesKept FailoverAdvances
