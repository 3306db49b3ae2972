SPECIFICATION FairSpec
CONSTANTS
    InitialDelay = 1
    MaxDelay = 3
    Sources = {s1}
    Handles = {h1, h2}
    None = None
    Cap = 1
    MaxOutages = 2
INVARIANTS TypeOK NoReaderLeak ReadsOwnHandle ReconnectsAreBounded OutageLeavesTrace
PROPERTIES RecoversFromOutage StopsWhenCancelled
CHECK_DEADLOCK FALSE
