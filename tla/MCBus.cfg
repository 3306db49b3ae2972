SPECIFICATION FairSpec
CONSTANTS
    Interfaces = {i1, i2}
    Generations = {g1, g2}
    None = None
    Cap = 2
    MaxPublished = 3
INVARIANTS TypeOK InOrder
PROPERTIES QuietAfterUnsubscribe CallsReturn
