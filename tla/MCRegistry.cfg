SPECIFICATION Spec
CONSTANTS
    Ifaces <- MCIfaces
    IPs <- MCIPs
    Texts <- MCTexts
    ParseIP <- MCParseIP
    IPString <- MCIPString
    MACs = {m1}
    NoMAC = NoMAC
    Fixed <- MCFixed
    TTL = 2
    Period = 2
    MaxTime = 8
    NoClient = NoClient
INVARIANTS TypeOK RememberedForTTL ForgottenInTime LearnedIsLatest FixedForever
CHECK_DEADLOCK FALSE
