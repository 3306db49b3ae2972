SPECIFICATION Spec
CONSTANTS
    lan = lan
    lanCast = lanCast
    localhost = localhost
    m1 = m1
    NoMAC = NoMAC
    BroadcastMAC = BroadcastMAC
    NoClient = NoClient
    IPv4 <- MCIPs
    Ifaces <- MCIfaces
    IPs <- MCIPs
    Texts <- MCIPs
    ParseIP <- MCIdentity
    IPString <- MCIdentity
    MACs <- MCMACs
    Fixed = {}
    Hosts <- MCHosts
    Broadcast <- MCBroadcast
    BroadcastAddress <- MCBroadcastAddress
    HardwareAddr <- MCHardwareAddr
    LinkType <- MCLinkType
    TTL = 1
    Period = 1
    MaxTime = 2
INVARIANTS DeliveredLocally
CHECK_DEADLOCK FALSE
