\* Two slots and two jump packs, the second for one team only.
CONSTANTS
    MaxClients = 2
    ItemCount = 2
    Kinds = {"LongJump"}
    kindOf <- MCKindOf
    team_no <- MCTeamNo
    multipower = TRUE
SPECIFICATION FairSpec
INVARIANTS
    ItemMachine
    PowerHasItem
PROPERTY LostItemsReturn
