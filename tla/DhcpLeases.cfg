SPECIFICATION Spec
CHECK_DEADLOCK FALSE
CONSTANTS
  Ids = {"", "h1", "h2", "c1"}
  NoId = ""
  Keys <- MCKeys
  ToKey <- MCToKey
  Addrs = {"a1", "a2", "a3"}
  NoAddr = "-"
  Names = {"n1"}
  NoName = "-"
  Unreadable = {}
  MaxLeases = 2
  Packets <- LeasePackets
  Pool = {"a1", "a2"}
  Routers = {}
  Configs <- LaterConfigs
  Config0 <- Barred
  RapidCommit = TRUE
  BootpDynamic = TRUE
INVARIANTS AddressesIndexed NamesUnique FileCurrent ScriptsKnowLeases
PROPERTIES OffersHonoured KeepsTheBook
