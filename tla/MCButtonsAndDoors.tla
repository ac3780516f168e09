------------------------- MODULE MCButtonsAndDoors -------------------------
EXTENDS ButtonsAndDoors, TLC
CONSTANTS lever, switch, valve, gate, left, right, panel, latch, gates
MCTarget ==
    (lever :> panel) @@ (switch :> panel) @@ (valve :> latch) @@
    (gate :> Null) @@ (left :> Null) @@ (right :> Null) @@
    (panel :> gates) @@ (latch :> gates)
MCTargetname == (gate :> Null) @@ (left :> gates) @@ (right :> gates)
MCMaster ==
    (lever :> latch) @@ (switch :> Null) @@ (valve :> Null) @@
    (gate :> panel) @@ (left :> Null) @@ (right :> panel)
MCLastInput == (panel :> lever) @@ (latch :> valve)
=============================================================================
