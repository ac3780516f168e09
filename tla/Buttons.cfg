\* A lever and a switch with a delay feed a panel that locks two doors, one of a
\* pair of rotating ones that the panel and the latch move. A valve feeds the latch,
\* which locks the lever, also on its way; what the switch sends is taken for the
\* lever's.
CONSTANTS
    lever = lever
    switch = switch
    valve = valve
    gate = gate
    left = left
    right = right
    panel = panel
    latch = latch
    gates = gates
    Null = Null
    Button = {lever, switch, valve}
    Door = {gate, left, right}
    Source = {panel, latch}
    Name = {gates}
    target <- MCTarget
    targetname <- MCTargetname
    m_sMaster <- MCMaster
    LastInput <- MCLastInput
    Delayed = {switch}
    MaxDelayed = 1
    Stay = {}
    TouchOnly = {valve}
    ToggleButton = {valve}
    Fixed = {switch, valve}
    Shootable = {lever}
    NoAutoReturn = {left}
    UseOnly = {right}
    Rotating = {left, right}
SPECIFICATION FairSpec
INVARIANTS
    MechanismTypeOK
    InputFollowsButton
    LockHolds
PROPERTY DoorsClose
