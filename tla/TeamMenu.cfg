\* Three clients that differ by their slots only.
CONSTANTS
    Clients = {c1, c2, c3}
    AutoTeam = TRUE
SPECIFICATION MenuSpec
SYMMETRY Symmetry
INVARIANTS
    WatchersHaveNoTeam
    ClassMenuHasTeam
PROPERTY FreshChoiceBalances
