\* DHCPv6, SLAAC, router advertisements, the ARP cache and the log queue, each on its own.
SPECIFICATION Spec
CONSTANTS
    Modes = {"dhcp6", "slaac", "radv", "arp", "syslog"}
    Clids <- MCClids
    Iaids = {1, 2}
    Asked = {4, 6, 7, 9}
    Bits = 4
    Half = 2
    Width = 4
    KeyLen = 2
    MaxLeases = 2
    SlaacLeases = {1}
    LeaseStates <- MCLeaseStates
    ContextChains <- MCContextChains
    MaxBackoff = 3
    Jitter = 0
    MaxTime = 4
    ShortPeriod = 3
    ShortDelays = {1, 2}
    DefaultInterval = 4
    StartDelays = {0, 1, 2}
    IdleDelay = 4
    Forever = 15
    MaxNow = 6
    Addrs = {1, 2}
    Macs = {m1, m2}
    TooLong = TooLong
    RefreshInterval = 1
    MaxRecords = 3
    NoMac = NoMac
    Threads = {t1, t2}
    MaxLogs = 2
    MaxMessages = 3
    MaxChanges = 3
    NoIface = NoIface
    None = None
    NoHost = NoHost
    NoFd = NoFd
SYMMETRY Interchangeable
INVARIANTS
    AdvertisingGoesOn
    NoGhosts
    LogAccounted
PROPERTIES
    BindingsKept
    SlaacToldToDns
CHECK_DEADLOCK FALSE
