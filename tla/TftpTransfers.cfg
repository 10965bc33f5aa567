SPECIFICATION Spec
CONSTANTS
    Word = 12
    Uint = 65536
    DefaultBlocksize = 2
    DefaultTimeout = 1
    MaxTimeout = 2
    TFTP_MAX_WINDOW = 2
    PacketBuffer = 4
    MtuRoom = 3
    Clients = {"c1", "c2"}
    Loads <- MCLoads
    Disk <- MCDisk
    Dirs <- MCDirs
    Denied <- MCDenied
    Prefix <- MCRoot
    Ports = 0
    MaxTransfers = 2
    TFTP_TRANSFER_TIME = 2
    MaxWire = 2
    Lag = 1
PROPERTIES  Ends
CHECK_DEADLOCK FALSE
