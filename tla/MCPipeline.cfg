SPECIFICATION FairSpec
CONSTANTS
    Pipelines = {p1, p2}
    Routes <- MCRoutes
    Main = "main"
    Processors <- MCProcessors
    Sinks <- MCSinks
    Decoders <- MCDecoders
    Source = "source"
    None = None
    MaxTargets = 2
INVARIANTS TypeOK NoSinkIsStarved ClosedExactlyOnce
PROPERTIES RunEnds
