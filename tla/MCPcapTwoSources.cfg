SPECIFICATION Spec
CONSTANTS
    InitialDelay = 1
    MaxDelay = 3
    Sources = {s1, s2}
    Handles = {h1, h2, h3}
    None = None
    Cap = 1
    MaxOutages = 1
PROPERTIES StaleHandleIsClosed
CHECK_DEADLOCK FALSE
