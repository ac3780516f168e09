---------------------------- MODULE CTFPowerups ----------------------------
(***************************************************************************)
(* The power-ups of the "Capture The Flag" mode: items of five kinds       *)
(* (ctf_items.cpp) that one player at a time carries, and the bits of      *)
(* m_iItems that give the player the power.  The bits do not say which     *)
(* item they came from, so a player who drops a power drops the first item *)
(* of its kind on the map, whoever carries it (CHalfLifeCTFplay.cpp).      *)
(*                                                                         *)
(* One engine callback is one action.  Left out: what a power does, where  *)
(* an item is, whether the player wears a suit (a touch may fail), and     *)
(* when a think is due.                                                    *)
(***************************************************************************)
EXTENDS Naturals, FiniteSets

CONSTANTS
    MaxClients,   \* gpGlobals->maxClients
    ItemCount,    \* number of CItemCTF entities of the map
    Kinds,        \* classnames, one bit of m_iItems each
    kindOf,       \* an item's kind (m_iItemFlag)
    team_no,      \* the team that may take an item, or None
    multipower    \* the cvar: a player may have several powers

Players == 1..MaxClients   \* by entity index
Items == 1..ItemCount      \* in the order of UTIL_FindEntityByClassname
NoPlayer == 0
None == 0                  \* CTFTeam::None
Teams == {1, 2}            \* CTFTeam::BlackMesa, CTFTeam::OpposingForce

ASSUME CountsAssumption == MaxClients \in Nat /\ ItemCount \in Nat
ASSUME ItemsAssumption == /\ kindOf \in [Items -> Kinds]
                          /\ team_no \in [Items -> Teams \cup {None}]
                          /\ multipower \in BOOLEAN

VARIABLES
    (* the player slots, as in CTFFlags *)
    client, team, observer, alive, solid,
    powers,       \* the power-up bits of m_iItems
    (* CItemCTF *)
    owner,        \* pev->owner
    touchable,    \* the touch function is ItemTouch, not null
    think,        \* the think function that is due
    lastTouched,  \* m_iLastTouched, until m_flNextTouchTime
    removed,      \* the items that fell out of the level
    gameOver      \* g_fGameOver

playerVars == <<client, team, observer, alive, solid>>
itemVars == <<owner, touchable, think, lastTouched, removed>>
vars == <<playerVars, powers, itemVars, gameOver>>

TypeOK ==
    /\ client \in [Players -> {"free", "connected", "active"}]
    /\ team \in [Players -> Teams \cup {None}]
    /\ observer \in [Players -> BOOLEAN]
    /\ alive \in [Players -> BOOLEAN]
    /\ solid \in [Players -> BOOLEAN]
    /\ powers \in [Players -> SUBSET Kinds]
    /\ owner \in [Items -> Players \cup {NoPlayer}]
    /\ touchable \in [Items -> BOOLEAN]
    /\ think \in [Items -> {"none", "DropPreThink", "DropThink", "CarryThink"}]
    /\ lastTouched \in [Items -> Players \cup {NoPlayer}]
    /\ removed \in SUBSET Items
    /\ gameOver \in BOOLEAN

(* CItemCTF::Spawn; an item with SF_ITEMCTF_RANDOM_SPAWN goes to a random  *)
(* spawn point first.                                                      *)
Init ==
    /\ client = [p \in Players |-> "free"]
    /\ team = [p \in Players |-> None]
    /\ observer = [p \in Players |-> FALSE]
    /\ alive = [p \in Players |-> FALSE]
    /\ solid = [p \in Players |-> FALSE]
    /\ powers = [p \in Players |-> {}]
    /\ owner = [i \in Items |-> NoPlayer]
    /\ touchable = [i \in Items |-> TRUE]
    /\ think \in [Items -> {"none", "DropThink"}]
    /\ lastTouched = [i \in Items |-> NoPlayer]
    /\ removed = {}
    /\ gameOver = FALSE

-----------------------------------------------------------------------------
(* Dropping powers.                                                        *)

(* The item ForEachPlayerCTFPowerup finds for a power of a player of t.    *)
Candidates(t, k) ==
    {i \in Items \ removed : kindOf[i] = k /\ team_no[i] \in {None, t}}

IsFirst(i, t, k) ==
    i \in Candidates(t, k) /\ \A j \in Candidates(t, k) : i <= j

(* Pairs of a player and the kind of a power it has.                       *)
AllPowers == {d \in Players \X Kinds : d[2] \in powers[d[1]]}
PowersOf(p) == {d \in AllPowers : d[1] = p}

(* "teams" is m_iTeamNum when the items are looked for.                    *)
FirstItems(drops, teams) == {i \in Items : \E d \in drops : IsFirst(i, teams[d[1]], d[2])}

(* Mutant: the owner of an item keeps the power when another drops it.     *)
LosePowersOfDropper(drops, freed) ==
    /\ powers' = [p \in Players |-> powers[p] \ {d[2] : d \in {e \in drops : e[1] = p}}]
    /\ owner' = [i \in Items |-> IF i \in freed THEN NoPlayer ELSE owner[i]]

(* The players of "drops" lose the powers, and the items found for them    *)
(* are freed: whoever owns one loses its power too.                        *)
LosePowers(drops, freed) ==
    /\ powers' = [p \in Players |->
           powers[p] \ ({d[2] : d \in {e \in drops : e[1] = p}}
                        \cup {kindOf[i] : i \in {j \in freed : owner[j] = p}})]
    /\ owner' = [i \in Items |-> IF i \in freed THEN NoPlayer ELSE owner[i]]

(* DropThink moves the item to a spawn point, where it may fall out of the *)
(* level.                                                                  *)
Respawned(S) ==
    /\ think' = [i \in Items |-> IF i \in S THEN "none" ELSE think[i]]
    /\ \E lost \in SUBSET S :
        /\ removed' = removed \cup lost
        /\ touchable' = [i \in Items |-> (i \in S \/ touchable[i]) /\ i \notin removed']

(* DropItem with bForceRespawn.                                            *)
RespawnPowers(drops) ==
    /\ LosePowers(drops, FirstItems(drops, team))
    /\ Respawned(FirstItems(drops, team))
    /\ UNCHANGED lastTouched

(* ScatterItem and ThrowItem: the item lies where the player was, and the  *)
(* player cannot take it again at once.                                    *)
ScatterPowers(p, teams) ==
    LET freed == FirstItems(PowersOf(p), teams)
    IN  /\ LosePowers(PowersOf(p), freed)
        /\ touchable' = [i \in Items |-> i \in freed \/ touchable[i]]
        /\ think' = [i \in Items |-> IF i \in freed THEN "DropPreThink" ELSE think[i]]
        /\ lastTouched' = [i \in Items |-> IF i \in freed THEN p ELSE lastTouched[i]]
        /\ UNCHANGED removed

(* The clients' handlers scatter nothing once the game is over.            *)
ScatterUnlessOver(p, teams) ==
    IF gameOver THEN UNCHANGED <<powers, itemVars>> ELSE ScatterPowers(p, teams)

-----------------------------------------------------------------------------
(* CItemCTF's touch and think functions.                                   *)

CanTouch(p, i) ==
    /\ client[p] = "active" /\ solid[p]
    /\ alive[p]
    /\ touchable[i]
    /\ lastTouched[i] # p

(* MyTouch lets the player have the item.                                  *)
MayTake(p, i) ==
    /\ kindOf[i] \notin powers[p]
    /\ multipower \/ powers[p] = {}
    /\ team_no[i] \in {None, team[p]}

(* Mutant: the think that was due stays.                                   *)
TakeItemSameThink(p, i) ==
    /\ CanTouch(p, i) /\ MayTake(p, i)
    /\ powers' = [powers EXCEPT ![p] = @ \cup {kindOf[i]}]
    /\ owner' = [owner EXCEPT ![i] = p]
    /\ touchable' = [touchable EXCEPT ![i] = FALSE]
    /\ UNCHANGED <<playerVars, think, lastTouched, removed, gameOver>>

TakeItem(p, i) ==
    /\ CanTouch(p, i) /\ MayTake(p, i)
    /\ powers' = [powers EXCEPT ![p] = @ \cup {kindOf[i]}]
    /\ owner' = [owner EXCEPT ![i] = p]
    /\ touchable' = [touchable EXCEPT ![i] = FALSE]
    /\ think' = [think EXCEPT ![i] = "CarryThink"]
    /\ lastTouched' = [lastTouched EXCEPT ![i] = NoPlayer]
    /\ UNCHANGED <<playerVars, removed, gameOver>>

(* The item forgets who dropped it even if the next player cannot take it. *)
TouchInVain(p, i) ==
    /\ CanTouch(p, i)
    /\ lastTouched' = [lastTouched EXCEPT ![i] = NoPlayer]
    /\ UNCHANGED <<playerVars, powers, owner, touchable, think, removed, gameOver>>

(* m_flNextTouchTime has come.                                             *)
NextTouchTime(i) ==
    /\ lastTouched[i] # NoPlayer
    /\ lastTouched' = [lastTouched EXCEPT ![i] = NoPlayer]
    /\ UNCHANGED <<playerVars, powers, owner, touchable, think, removed, gameOver>>

(* In slime, lava or a wall the item respawns at once, else later.         *)
DropPreThink(i) ==
    /\ think[i] = "DropPreThink"
    /\ \/ Respawned({i})
       \/ think' = [think EXCEPT ![i] = "DropThink"] /\ UNCHANGED <<touchable, removed>>
    /\ UNCHANGED <<playerVars, powers, owner, lastTouched, gameOver>>

DropThink(i) ==
    /\ think[i] = "DropThink"
    /\ Respawned({i})
    /\ UNCHANGED <<playerVars, powers, owner, lastTouched, gameOver>>

(* Mutant: an item whose owner has left waits for it.                      *)
CarryThinkInGame(i) ==
    /\ think[i] = "CarryThink"
    /\ client[owner[i]] = "active"
    /\ kindOf[i] \notin powers[owner[i]]
    /\ owner' = [owner EXCEPT ![i] = NoPlayer]
    /\ Respawned({i})
    /\ UNCHANGED <<playerVars, powers, lastTouched, gameOver>>

(* An item whose owner has lost its power respawns.                        *)
CarryThink(i) ==
    /\ think[i] = "CarryThink"
    /\ kindOf[i] \notin powers[owner[i]]
    /\ owner' = [owner EXCEPT ![i] = NoPlayer]
    /\ Respawned({i})
    /\ UNCHANGED <<playerVars, powers, lastTouched, gameOver>>

-----------------------------------------------------------------------------
(* Clients: what CTFFlags says of them, with power-ups for flags.          *)

(* RespawnPlayerCTFPowerups for one player after the other: who has lost a *)
(* power to an earlier one's drop has nothing left to drop.                *)
InTurn(drops) ==
    \A d \in AllPowers :
        d \in drops <=>
            ~ \E e \in drops : /\ e[1] < d[1] /\ e[2] = d[2]
                               /\ \E i \in FirstItems({e}, team) : owner[i] = d[1]

(* With at most one player in a team the game starts over.                 *)
ClientConnected(p) ==
    /\ client[p] = "free"
    /\ client' = [client EXCEPT ![p] = "connected"]
    /\ IF Cardinality({q \in Players : team[q] # None}) <= 1
         THEN \E drops \in SUBSET AllPowers : InTurn(drops) /\ RespawnPowers(drops)
         ELSE UNCHANGED <<powers, itemVars>>
    /\ UNCHANGED <<team, observer, alive, solid, gameOver>>

ClientPutInServer(p) ==
    /\ client[p] = "connected"
    /\ client' = [client EXCEPT ![p] = "active"]
    /\ team' = [team EXCEPT ![p] = None]
    /\ observer' = [observer EXCEPT ![p] = TRUE]
    /\ alive' = [alive EXCEPT ![p] = TRUE]
    /\ solid' = [solid EXCEPT ![p] = FALSE]
    /\ powers' = [powers EXCEPT ![p] = {}]
    /\ UNCHANGED <<itemVars, gameOver>>

ClientDisconnected(p) ==
    /\ client[p] = "active"
    /\ client' = [client EXCEPT ![p] = "free"]
    /\ IF gameOver
         THEN UNCHANGED <<team, solid>>
         ELSE /\ solid' = [solid EXCEPT ![p] = FALSE]
              /\ team' = [team EXCEPT ![p] = None]
    /\ ScatterUnlessOver(p, team)
    /\ UNCHANGED <<observer, alive, gameOver>>

ConnectionLost(p) ==
    /\ client[p] = "connected"
    /\ client' = [client EXCEPT ![p] = "free"]
    /\ UNCHANGED <<team, observer, alive, solid, powers, itemVars, gameOver>>

InPlay(p) == client[p] = "active" /\ ~observer[p]

Killed(p) ==
    /\ InPlay(p)
    /\ alive' = [alive EXCEPT ![p] = FALSE]
    /\ \E gibbed \in BOOLEAN : solid' = [solid EXCEPT ![p] = @ /\ ~gibbed]
    /\ ScatterUnlessOver(p, team)
    /\ UNCHANGED <<client, team, observer, gameOver>>

Respawn(p) ==
    /\ InPlay(p)
    /\ ~alive[p] /\ ~gameOver
    /\ alive' = [alive EXCEPT ![p] = TRUE]
    /\ solid' = [solid EXCEPT ![p] = TRUE]
    /\ UNCHANGED <<client, team, observer, powers, itemVars, gameOver>>

(* The team is None before the items are scattered, so the items of the    *)
(* player's team are not found: the power goes, the item stays behind.     *)
BecomeSpectator(p) ==
    /\ client[p] = "active"
    /\ alive' = [alive EXCEPT ![p] = TRUE]
    /\ solid' = [solid EXCEPT ![p] = FALSE]
    /\ team' = [team EXCEPT ![p] = None]
    /\ observer' = [observer EXCEPT ![p] = TRUE]
    /\ ScatterUnlessOver(p, team')
    /\ UNCHANGED <<client, gameOver>>

SelectChar(p, t) ==
    /\ client[p] = "active"
    /\ team' = [team EXCEPT ![p] = t]
    /\ IF ~observer[p] /\ team[p] # t
         THEN /\ ScatterUnlessOver(p, team)
              /\ alive' = [alive EXCEPT ![p] = FALSE]
              /\ solid' = [solid EXCEPT ![p] = @ /\ ~alive[p]]
         ELSE /\ UNCHANGED <<powers, itemVars, alive>>
              /\ solid' = [solid EXCEPT ![p] = @ \/ observer[p]]
    /\ observer' = [observer EXCEPT ![p] = FALSE]
    /\ UNCHANGED <<client, gameOver>>

(* impulse 205.                                                            *)
DropPlayerCTFPowerup(p) ==
    /\ InPlay(p) /\ alive[p] /\ ~gameOver
    /\ ScatterPowers(p, team)
    /\ UNCHANGED <<playerVars, gameOver>>

GoToIntermission ==
    /\ ~gameOver
    /\ gameOver' = TRUE
    /\ UNCHANGED <<playerVars, powers, itemVars>>

-----------------------------------------------------------------------------
ItemThink(i) == DropPreThink(i) \/ DropThink(i) \/ CarryThink(i)

ClientStep(p) ==
    \/ ClientConnected(p)
    \/ ClientPutInServer(p)
    \/ ClientDisconnected(p)
    \/ ConnectionLost(p)
    \/ Killed(p)
    \/ Respawn(p)
    \/ BecomeSpectator(p)
    \/ \E t \in Teams : SelectChar(p, t)
    \/ DropPlayerCTFPowerup(p)

Next ==
    \/ \E p \in Players, i \in Items : TakeItem(p, i) \/ TouchInVain(p, i)
    \/ \E i \in Items : NextTouchTime(i) \/ ItemThink(i)
    \/ \E p \in Players : ClientStep(p)
    \/ GoToIntermission

Spec == Init /\ [][Next]_vars

(* The engine runs the think of an entity once its nextthink has come.     *)
FairSpec == Spec /\ \A i \in Items : WF_vars(ItemThink(i))
-----------------------------------------------------------------------------
(* Safety.                                                                 *)

(* An item lies on the map and can be touched, or has an owner and looks   *)
(* after it, or is gone: never two of these, never none.                   *)
ItemMachine ==
    \A i \in Items :
        /\ touchable[i] <=> owner[i] = NoPlayer /\ i \notin removed
        /\ think[i] = "CarryThink" <=> owner[i] # NoPlayer
        /\ i \in removed => think[i] = "none" /\ owner[i] = NoPlayer

(* No power without an item: however often players drop each other's       *)
(* items, the bit of m_iItems is cleared with the last item of its kind.   *)
PowerHasItem ==
    \A p \in Players : \A k \in powers[p] : \E i \in Items : kindOf[i] = k /\ owner[i] = p

-----------------------------------------------------------------------------
(* Liveness, under FairSpec.                                               *)

Lost(i) ==
    owner[i] # NoPlayer /\ kindOf[i] \notin powers[owner[i]]

(* No item is lost with a player who lost its power, left or was replaced: *)
(* it returns to the map, unless the player takes another of its kind.     *)
LostItemsReturn == \A i \in Items : Lost(i) ~> ~Lost(i)
=============================================================================
