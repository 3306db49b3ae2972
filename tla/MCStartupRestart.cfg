SPECIFICATION FairSpec
CONSTANTS
    Devices = {"eth0", "tun0", "lo0"}
    Loopbacks = {"lo0"}
    CommandLines <- MCCommandLines
    None = None
PROPERTIES FailureIsRestarted
