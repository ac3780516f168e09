\* Every call, two files. The player may be destroyed at any time, and stops.
CONSTANTS
    Files = {A, B}
    NoFile = NoFile
    Commands = {"on", "off", "reset", "play", "stop", "fadeout", "pause", "resume", "block", "unblock"}
    MaxCalls = 4
SPECIFICATION FairSpec
CHECK_DEADLOCK FALSE
INVARIANT NamedFilePlays
PROPERTIES
    CallsInOrder
    JobsRun
    FadeStops
    WorkerLeaves
