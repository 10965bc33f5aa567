\* Configuration sources, name matching and listening sockets.
CONSTANTS
    MAXLABEL = 3
    MaxName = 5
    MAXDNAME = 6
    Base = 3
    Bits = 2
    None = None
    Num <- MCNum
    Addr4 <- MCAddr4
    Addr6 <- MCAddr6
    Canon <- MCCanon
    Cut <- MCCut
    Secs <- MCSecs
    Hex <- MCHex
    IfIndex <- MCIfIndex
    OptCode <- MCOptCode
    OptKind <- MCOptKind
    Files <- MCFiles
    Dirs <- MCDirs
    YamlFiles <- MCYamlFiles
    Hostname = "me"
    Facility <- MCFacility
    MarkBits <- MCMarkBits
SPECIFICATION Spec
INVARIANTS   NamesAgree ModesAgree
CHECK_DEADLOCK FALSE
