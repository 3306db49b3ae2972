SPECIFICATION Spec
CONSTANTS
    InitialDelay = 1
    MaxDelay = 3
    Sources = {s1}
    Handles = {h1, h2}
    None = None
    Cap = 1
    MaxOutages = 1
INVARIANTS CaptureIsFiltered
CHECK_DEADLOCK FALSE
