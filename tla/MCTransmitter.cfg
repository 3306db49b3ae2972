SPECIFICATION FairSpec
CONSTANTS
    InitialDelay = 1
    MaxDelay = 3
    Callers = {c1, c2, c3}
    Loops = {l1, l2}
    Handles = {h1, h2, h3, h4, h5}
    None = None
INVARIANTS TypeOK WriteOnOpenHandle OutageHasOneLoop HandlesAreOwned
PROPERTIES LinkSpec NoInstallAfterCancel WriterRecovers LoopsExit
