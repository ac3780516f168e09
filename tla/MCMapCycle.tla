----------------------------- MODULE MCMapCycle -----------------------------
EXTENDS MapCycle, TLC
CONSTANTS long, short, empty
Item(min, max) == [Min |-> min, Max |-> max]
MCCycle ==
    long :> (0 :> Item(0, 0) @@ 1 :> Item(2, 0) @@ 2 :> Item(0, 1)) @@
    short :> (0 :> Item(2, 2) @@ 1 :> Item(3, 0)) @@
    empty :> [i \in {} |-> Item(0, 0)]
MCStartMap == <<NoFile, 0>>
=============================================================================
