SPECIFICATION Spec
CONSTANTS
    lan = lan
    lanCast = lanCast
    site6 = site6
    printer = printer
    remote = remote
    site = site
    m1 = m1
    m2 = m2
    NoMAC = NoMAC
    BroadcastMAC = BroadcastMAC
    NoClient = NoClient
    IPv4 <- MCIPv4
    Ifaces <- MCIfaces
    IPs <- MCIPs
    Texts <- MCIPs
    ParseIP <- MCIdentity
    IPString <- MCIdentity
    MACs <- MCMACs
    Fixed <- MCFixed
    Hosts <- MCHosts
    Broadcast <- MCBroadcast
    BroadcastAddress <- MCBroadcastAddress
    HardwareAddr <- MCHardwareAddr
    LinkType <- MCLinkType
    TTL = 1
    Period = 1
    MaxTime = 4
INVARIANTS TypeOK RememberedClientsAreServed FixedAlwaysServed NoFrameToForgotten BroadcastOnlyWhenAlone SilentSegmentIsFlooded
CHECK_DEADLOCK FALSE
