\* DNS messages: filters, EDNS0, DNSSEC validation and authoritative zones.
CONSTANTS
    None = None
    MaxHops = 6
    MaxWire = 10
    Bits = 2
    V4Octets = 2
    V6Octets = 4
    NSEC3_ITERS = 3
    MaxAlias = 4
SPECIFICATION Spec
INVARIANTS
    
    
    
    TransferAgrees
CHECK_DEADLOCK FALSE
