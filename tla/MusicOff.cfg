CONSTANTS
    Files = {A}
    NoFile = NoFile
    Commands = {"off", "play", "stop"}
    MaxCalls = 3
SPECIFICATION Spec
CHECK_DEADLOCK FALSE
INVARIANT OffStops
