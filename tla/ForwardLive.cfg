SPECIFICATION Spec
CONSTANTS
  NumRRand = 1
  RandPortLimit = 1
  RetryAge = 1
  FrecTimeout = 2
  MaxPerGroup = 1
  ListenAddrs = {"l1", "l2"}
  MaxListeners = 2
  CleverBind = TRUE
  MaxRetries = 1
  MaxLag = 1
  LoopDetect = FALSE
  Ids = {i1}
  i1 = i1
  QName <- Names
  Servers <- AllServers
  Requests <- ReqsOne
  Config0 <- TwoServers
  ServerLists <- Same
INVARIANTS NeverDeaf
PROPERTIES EveryQueryEnds ListenersFollow
