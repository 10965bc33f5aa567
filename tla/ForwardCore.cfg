SPECIFICATION Spec
CONSTANTS
  NumRRand = 1
  RandPortLimit = 1
  RetryAge = 1
  FrecTimeout = 1
  MaxPerGroup = 2
  ListenAddrs = {"l1"}
  MaxListeners = 3
  CleverBind = FALSE
  MaxRetries = 1
  MaxLag = 1
  LoopDetect = FALSE
  Ids = {i1, i2, i3}
  i1 = i1
  i2 = i2
  i3 = i3
  QName <- Names
  Servers <- AllServers
  Requests <- ReqsMixed
  Config0 <- TwoServers
  ServerLists <- Same
SYMMETRY IdSymmetry
INVARIANTS SocketsAccounted ClientsAgree OneQueryPerQuestion
