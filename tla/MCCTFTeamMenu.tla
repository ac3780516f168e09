--------------------------- MODULE MCCTFTeamMenu ---------------------------
EXTENDS CTFTeamMenu, TLC

\* No command tells one client from another, but by its slot.
Symmetry == Permutations(Clients)
=============================================================================
