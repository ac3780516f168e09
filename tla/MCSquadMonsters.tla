-------------------------- MODULE MCSquadMonsters --------------------------
EXTENDS SquadMonsters
CONSTANTS a, b, c
MCNumMonsters == {-1, 1}
=============================================================================
