\* Three clients, and four sounds for everything else.
CONSTANTS
    MAX_WORLD_SOUNDS = 7
    maxClients = 3
SPECIFICATION FairSpec
INVARIANTS
    TypeOK
    PoolPartitioned
PROPERTY ExpiredSoundsFreed
