SPECIFICATION Spec
CONSTANTS
    InitialDelay = 1
    MaxDelay = 3
    Callers = {c1}
    Loops = {l1}
    Handles = {h1, h2, h3}
    None = None
INVARIANTS ClosedSinkHoldsNoHandle
