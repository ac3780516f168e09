\* Three players; a file of three maps, one of two that leave a player out or
\* need all, and one without maps.
CONSTANTS
    long = long
    short = short
    empty = empty
    NoFile = NoFile
    PlayerSlots = {1, 2, 3}
    Files = {long, short, empty}
    Cycle <- MCCycle
    StartMap <- MCStartMap
    MAX_INTERMISSION_TIME = 2
SPECIFICATION CycleFairSpec
INVARIANT CycleTypeOK
PROPERTIES
    NextMapAdmits
    IntermissionEnds
    RotationFair
