\* Eight slots, the fewest with which a second frame sends players: seven and eight
\* after one to six. The intermission may start over.
CONSTANTS
    MaxClients = 8
    MaxGameEnds = 1
SPECIFICATION FairSpec
INVARIANTS
    OthersSent
PROPERTY MenuOpens
