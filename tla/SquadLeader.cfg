\* Two monsters of the map and one of the maker's.
CONSTANTS
    a = a
    b = b
    c = c
    Monster = {a, b, c}
    Placed = {a, b}
    LeaderFlagged = {a}
    NumSlots = 2
    MAX_SQUAD_MEMBERS = 3
    NumMonsters <- MCNumMonsters
    MaxLiveChildren = 1
    Null = Null
SPECIFICATION Spec
INVARIANT AsksALeader
