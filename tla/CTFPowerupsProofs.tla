------------------------- MODULE CTFPowerupsProofs -------------------------
(***************************************************************************)
(* The power-ups' bookkeeping holds for any number of players and items.   *)
(* The three parts of IInv need each other: an item that is freed can be   *)
(* touched again because only items of the map are found (ItemMachine),    *)
(* and a bit of m_iItems has its item because the owner of every freed     *)
(* item loses the bit too (PowerHasItem).                                  *)
(***************************************************************************)
EXTENDS CTFPowerups, TLAPS

USE CountsAssumption, ItemsAssumption

IInv == TypeOK /\ ItemMachine /\ PowerHasItem

(* What a step may do to the bits and the owners and keep PowerHasItem.    *)
LEMMA LosePowersKeeps ==
  ASSUME TypeOK, PowerHasItem, NEW drops, NEW freed \in SUBSET Items, LosePowers(drops, freed)
  PROVE  /\ powers' \in [Players -> SUBSET Kinds]
         /\ owner' \in [Items -> Players \cup {NoPlayer}]
         /\ PowerHasItem'
<1>1. powers' \in [Players -> SUBSET Kinds]
  BY DEF TypeOK, LosePowers
<1>2. owner' \in [Items -> Players \cup {NoPlayer}]
  BY DEF TypeOK, LosePowers
<1>3. ASSUME NEW p \in Players, NEW k \in powers'[p]
      PROVE  \E i \in Items : kindOf[i] = k /\ owner'[i] = p
  <2>1. k \in powers[p]
    BY DEF LosePowers
  <2>2. PICK i \in Items : kindOf[i] = k /\ owner[i] = p
    BY <2>1 DEF PowerHasItem
  <2>3. i \notin freed
    BY <2>2 DEF LosePowers
  <2>4. owner'[i] = p
    BY <2>2, <2>3 DEF LosePowers
  <2>5. QED
    BY <2>2, <2>4
<1>4. QED
  BY <1>1, <1>2, <1>3 DEF PowerHasItem

(* The items that are found for a drop are on the map.                     *)
LEMMA FirstItemsOnMap ==
  ASSUME NEW drops, NEW teams
  PROVE  FirstItems(drops, teams) \in SUBSET (Items \ removed)
BY DEF FirstItems, IsFirst, Candidates

(* An item that respawns has no owner any more, or falls out of the level. *)
LEMMA RespawnedKeeps ==
  ASSUME TypeOK, ItemMachine, NEW S \in SUBSET (Items \ removed), Respawned(S),
         owner' = [i \in Items |-> IF i \in S THEN NoPlayer ELSE owner[i]]
  PROVE  /\ think' \in [Items -> {"none", "DropPreThink", "DropThink", "CarryThink"}]
         /\ touchable' \in [Items -> BOOLEAN]
         /\ removed' \in SUBSET Items
         /\ ItemMachine'
<1>1. PICK lost \in SUBSET S :
        /\ removed' = removed \cup lost
        /\ touchable' = [i \in Items |-> (i \in S \/ touchable[i]) /\ i \notin removed']
  BY DEF Respawned
<1>2. think' = [i \in Items |-> IF i \in S THEN "none" ELSE think[i]]
  BY DEF Respawned
<1>3. removed' \in SUBSET Items /\ touchable' \in [Items -> BOOLEAN]
  BY <1>1 DEF TypeOK
<1>4. think' \in [Items -> {"none", "DropPreThink", "DropThink", "CarryThink"}]
  BY <1>2 DEF TypeOK
<1>5. ASSUME NEW i \in Items
      PROVE  /\ touchable'[i] <=> owner'[i] = NoPlayer /\ i \notin removed'
             /\ think'[i] = "CarryThink" <=> owner'[i] # NoPlayer
             /\ i \in removed' => think'[i] = "none" /\ owner'[i] = NoPlayer
  <2>1. CASE i \in S
    BY <1>1, <1>2, <2>1
  <2>2. CASE i \notin S
    <3>1. owner'[i] = owner[i] /\ think'[i] = think[i] /\ (i \in removed' <=> i \in removed)
      BY <1>1, <1>2, <2>2
    <3>2. touchable'[i] <=> touchable[i] /\ i \notin removed
      BY <1>1, <2>2, <3>1
    <3>3. QED
      BY <3>1, <3>2 DEF ItemMachine
  <2>3. QED
    BY <2>1, <2>2
<1>6. QED
  BY <1>3, <1>4, <1>5 DEF ItemMachine

(* Scattering keeps the bookkeeping, whatever team the items are found for. *)
LEMMA ScatterKeeps ==
  ASSUME TypeOK, ItemMachine, PowerHasItem, NEW p \in Players, NEW teams, ScatterPowers(p, teams)
  PROVE  /\ powers' \in [Players -> SUBSET Kinds]
         /\ owner' \in [Items -> Players \cup {NoPlayer}]
         /\ touchable' \in [Items -> BOOLEAN]
         /\ think' \in [Items -> {"none", "DropPreThink", "DropThink", "CarryThink"}]
         /\ lastTouched' \in [Items -> Players \cup {NoPlayer}]
         /\ removed' \in SUBSET Items
         /\ ItemMachine' /\ PowerHasItem'
<1> DEFINE freed == FirstItems(PowersOf(p), teams)
<1>1. freed \in SUBSET (Items \ removed)
  BY FirstItemsOnMap
<1>2. /\ LosePowers(PowersOf(p), freed)
      /\ touchable' = [i \in Items |-> i \in freed \/ touchable[i]]
      /\ think' = [i \in Items |-> IF i \in freed THEN "DropPreThink" ELSE think[i]]
      /\ lastTouched' = [i \in Items |-> IF i \in freed THEN p ELSE lastTouched[i]]
      /\ removed' = removed
  BY DEF ScatterPowers
<1> HIDE DEF freed
<1>3. /\ powers' \in [Players -> SUBSET Kinds]
      /\ owner' \in [Items -> Players \cup {NoPlayer}]
      /\ PowerHasItem'
  BY <1>1, <1>2, LosePowersKeeps
<1>4. owner' = [i \in Items |-> IF i \in freed THEN NoPlayer ELSE owner[i]]
  BY <1>2 DEF LosePowers
<1>5. touchable' \in [Items -> BOOLEAN]
  BY <1>2 DEF TypeOK
<1>6. think' \in [Items -> {"none", "DropPreThink", "DropThink", "CarryThink"}]
  BY <1>2 DEF TypeOK
<1>7. lastTouched' \in [Items -> Players \cup {NoPlayer}]
  BY <1>2 DEF TypeOK
<1>8. removed' \in SUBSET Items
  BY <1>2 DEF TypeOK
<1>9. ASSUME NEW i \in Items
      PROVE  /\ touchable'[i] <=> owner'[i] = NoPlayer /\ i \notin removed'
             /\ think'[i] = "CarryThink" <=> owner'[i] # NoPlayer
             /\ i \in removed' => think'[i] = "none" /\ owner'[i] = NoPlayer
  <2>1. CASE i \in freed
    BY <1>1, <1>2, <1>4, <2>1
  <2>2. CASE i \notin freed
    <3>1. owner'[i] = owner[i] /\ think'[i] = think[i] /\ (touchable'[i] <=> touchable[i])
      BY <1>2, <1>4, <2>2
    <3>2. QED
      BY <1>2, <3>1 DEF ItemMachine
  <2>3. QED
    BY <2>1, <2>2
<1>10. QED
  BY <1>3, <1>5, <1>6, <1>7, <1>8, <1>9 DEF ItemMachine

-----------------------------------------------------------------------------
(* The invariant in two halves: the slots, which the rest does not depend  *)
(* on, and the items with the powers.                                      *)
SlotTypeOK ==
    /\ client \in [Players -> {"free", "connected", "active"}]
    /\ team \in [Players -> Teams \cup {None}]
    /\ observer \in [Players -> BOOLEAN]
    /\ alive \in [Players -> BOOLEAN]
    /\ solid \in [Players -> BOOLEAN]
    /\ gameOver \in BOOLEAN

ItemTypeOK ==
    /\ powers \in [Players -> SUBSET Kinds]
    /\ owner \in [Items -> Players \cup {NoPlayer}]
    /\ touchable \in [Items -> BOOLEAN]
    /\ think \in [Items -> {"none", "DropPreThink", "DropThink", "CarryThink"}]
    /\ lastTouched \in [Items -> Players \cup {NoPlayer}]
    /\ removed \in SUBSET Items

ItemsOK == ItemTypeOK /\ ItemMachine /\ PowerHasItem

LEMMA IInvParts == IInv <=> SlotTypeOK /\ ItemsOK
BY DEF IInv, TypeOK, SlotTypeOK, ItemTypeOK, ItemsOK

LEMMA IInvPartsPrime == ASSUME SlotTypeOK', ItemsOK' PROVE IInv'
BY DEF IInv, TypeOK, SlotTypeOK, ItemTypeOK, ItemsOK

LEMMA InitIInv == Init => IInv
<1> SUFFICES ASSUME Init PROVE IInv
  OBVIOUS
<1>1. TypeOK
  BY DEF Init, TypeOK
<1>2. ItemMachine
  BY DEF Init, ItemMachine
<1>3. PowerHasItem
  BY DEF Init, PowerHasItem
<1>4. QED
  BY <1>1, <1>2, <1>3 DEF IInv

(* What does not touch an item or a power leaves their half as it is.      *)
LEMMA ItemsUnchanged ==
  ASSUME ItemsOK, UNCHANGED <<powers, itemVars>>
  PROVE  ItemsOK'
BY DEF ItemsOK, ItemTypeOK, ItemMachine, PowerHasItem, itemVars

LEMMA SlotsUnchanged ==
  ASSUME SlotTypeOK, UNCHANGED <<playerVars, gameOver>>
  PROVE  SlotTypeOK'
BY DEF SlotTypeOK, playerVars

LEMMA ScatterOK ==
  ASSUME IInv, NEW p \in Players, NEW teams, ScatterPowers(p, teams)
  PROVE  ItemsOK'
<1>1. TypeOK /\ ItemMachine /\ PowerHasItem
  BY DEF IInv
<1>2. QED
  BY <1>1, ScatterKeeps DEF ItemsOK, ItemTypeOK

LEMMA ScatterUnlessOverOK ==
  ASSUME IInv, NEW p \in Players, NEW teams, ScatterUnlessOver(p, teams)
  PROVE  ItemsOK'
<1>1. CASE gameOver
  BY <1>1, IInvParts, ItemsUnchanged DEF ScatterUnlessOver
<1>2. CASE ~gameOver
  BY <1>2, ScatterOK DEF ScatterUnlessOver
<1>3. QED
  BY <1>1, <1>2

-----------------------------------------------------------------------------
(* The items' own steps.                                                   *)

(* Only a free item is taken, so its new owner takes it from nobody.       *)
LEMMA TakeItemIInv ==
  ASSUME IInv, NEW p \in Players, NEW i \in Items, TakeItem(p, i)
  PROVE  IInv'
<1> USE IInvParts DEF TakeItem, CanTouch
<1>1. SlotTypeOK'
  BY SlotsUnchanged
<1>2. ItemTypeOK'
  BY DEF ItemsOK, ItemTypeOK
<1>3. owner[i] = NoPlayer /\ i \notin removed
  BY DEF ItemsOK, ItemMachine
<1>4. ItemMachine'
  <2> SUFFICES ASSUME NEW j \in Items
               PROVE  /\ touchable'[j] <=> owner'[j] = NoPlayer /\ j \notin removed'
                      /\ think'[j] = "CarryThink" <=> owner'[j] # NoPlayer
                      /\ j \in removed' => think'[j] = "none" /\ owner'[j] = NoPlayer
    BY DEF ItemMachine
  <2>1. CASE j = i
    BY <1>3, <2>1 DEF ItemsOK, ItemTypeOK, NoPlayer, Players
  <2>2. CASE j # i
    BY <2>2 DEF ItemsOK, ItemTypeOK, ItemMachine
  <2>3. QED
    BY <2>1, <2>2
<1>5. PowerHasItem'
  <2> SUFFICES ASSUME NEW q \in Players, NEW k \in powers'[q]
               PROVE  \E j \in Items : kindOf[j] = k /\ owner'[j] = q
    BY DEF PowerHasItem
  <2>1. CASE k \in powers[q]
    <3>1. PICK j \in Items : kindOf[j] = k /\ owner[j] = q
      BY <2>1 DEF ItemsOK, PowerHasItem
    <3>2. j # i
      BY <1>3, <3>1 DEF NoPlayer, Players
    <3>3. QED
      BY <3>1, <3>2 DEF ItemsOK, ItemTypeOK
  <2>2. CASE k \notin powers[q]
    <3>1. q = p /\ k = kindOf[i]
      BY <2>2 DEF ItemsOK, ItemTypeOK
    <3>2. owner'[i] = p
      BY DEF ItemsOK, ItemTypeOK
    <3>3. QED
      BY <3>1, <3>2
  <2>3. QED
    BY <2>1, <2>2
<1>6. QED
  BY <1>1, <1>2, <1>4, <1>5, IInvPartsPrime DEF ItemsOK

(* Who dropped an item last has no part in the bookkeeping.                *)
LEMMA LastTouchedIInv ==
  ASSUME IInv, NEW i \in Items, lastTouched' = [lastTouched EXCEPT ![i] = NoPlayer],
         UNCHANGED <<playerVars, powers, owner, touchable, think, removed, gameOver>>
  PROVE  IInv'
<1>1. SlotTypeOK'
  BY IInvParts, SlotsUnchanged
<1>2. ItemsOK'
  BY IInvParts DEF ItemsOK, ItemTypeOK, ItemMachine, PowerHasItem
<1>3. QED
  BY <1>1, <1>2, IInvPartsPrime

(* A think that moves an item to a spawn point, freeing it if it was owned *)
(* by a player without its power.                                          *)
LEMMA RespawnItemIInv ==
  ASSUME IInv, NEW i \in Items, i \notin removed, Respawned({i}),
         owner' = [owner EXCEPT ![i] = NoPlayer],
         owner[i] \in Players => kindOf[i] \notin powers[owner[i]],
         UNCHANGED <<playerVars, powers, lastTouched, gameOver>>
  PROVE  IInv'
<1>1. SlotTypeOK'
  BY IInvParts, SlotsUnchanged
<1>2. /\ TypeOK /\ ItemMachine /\ PowerHasItem
      /\ {i} \in SUBSET (Items \ removed)
      /\ owner' = [j \in Items |-> IF j \in {i} THEN NoPlayer ELSE owner[j]]
  BY DEF IInv, TypeOK
<1>3. /\ think' \in [Items -> {"none", "DropPreThink", "DropThink", "CarryThink"}]
      /\ touchable' \in [Items -> BOOLEAN]
      /\ removed' \in SUBSET Items
      /\ ItemMachine'
  BY <1>2, RespawnedKeeps
<1>4. owner' \in [Items -> Players \cup {NoPlayer}]
  BY <1>2 DEF TypeOK
<1>5. PowerHasItem'
  <2> SUFFICES ASSUME NEW q \in Players, NEW k \in powers[q]
               PROVE  \E j \in Items : kindOf[j] = k /\ owner'[j] = q
    BY DEF PowerHasItem
  <2>1. PICK j \in Items : kindOf[j] = k /\ owner[j] = q
    BY <1>2 DEF PowerHasItem
  <2>2. j # i
    BY <2>1
  <2>3. QED
    BY <1>2, <2>1, <2>2
<1>6. ItemsOK'
  BY <1>2, <1>3, <1>4, <1>5 DEF ItemsOK, ItemTypeOK, TypeOK
<1>7. QED
  BY <1>1, <1>6, IInvPartsPrime

LEMMA ItemThinkIInv ==
  ASSUME IInv, NEW i \in Items, ItemThink(i)
  PROVE  IInv'
<1>1. ItemMachine /\ owner \in [Items -> Players \cup {NoPlayer}]
  BY DEF IInv, TypeOK
<1>2. i \notin removed
  BY <1>1 DEF ItemThink, DropPreThink, DropThink, CarryThink, ItemMachine
<1>3. ASSUME think[i] # "CarryThink", Respawned({i}),
             UNCHANGED <<playerVars, powers, owner, lastTouched, gameOver>>
      PROVE  IInv'
  <2>1. owner[i] = NoPlayer
    BY <1>1, <1>3 DEF ItemMachine
  <2>2. owner' = [owner EXCEPT ![i] = NoPlayer]
    BY <1>1, <1>3, <2>1
  <2>3. owner[i] \notin Players
    BY <2>1 DEF NoPlayer, Players
  <2>4. QED
    BY <1>2, <1>3, <2>2, <2>3, RespawnItemIInv
<1>4. CASE DropPreThink(i)
  <2>1. CASE Respawned({i})
    BY <1>3, <1>4, <2>1 DEF DropPreThink
  <2>2. CASE think' = [think EXCEPT ![i] = "DropThink"] /\ UNCHANGED <<touchable, removed>>
    <3>1. SlotTypeOK'
      BY <1>4, IInvParts, SlotsUnchanged DEF DropPreThink
    <3>2. ItemsOK'
      BY <1>4, <2>2, IInvParts DEF DropPreThink, ItemsOK, ItemTypeOK, ItemMachine, PowerHasItem
    <3>3. QED
      BY <3>1, <3>2, IInvPartsPrime
  <2>3. QED
    BY <1>4, <2>1, <2>2 DEF DropPreThink
<1>5. CASE DropThink(i)
  BY <1>3, <1>5 DEF DropThink
<1>6. CASE CarryThink(i)
  BY <1>2, <1>6, RespawnItemIInv DEF CarryThink
<1>7. QED
  BY <1>4, <1>5, <1>6 DEF ItemThink

-----------------------------------------------------------------------------
(* The clients' steps: the slots' half from the handler's assignments, the *)
(* items' half from the lemmas above.                                      *)

LEMMA ClientConnectedIInv ==
  ASSUME IInv, NEW p \in Players, ClientConnected(p)
  PROVE  IInv'
<1>1. SlotTypeOK'
  BY IInvParts DEF ClientConnected, SlotTypeOK
<1>2. ItemsOK'
  <2>1. CASE UNCHANGED <<powers, itemVars>>
    BY <2>1, IInvParts, ItemsUnchanged
  <2>2. ASSUME NEW drops, RespawnPowers(drops)
        PROVE  ItemsOK'
    <3> DEFINE freed == FirstItems(drops, team)
    <3>1. TypeOK /\ ItemMachine /\ PowerHasItem
      BY DEF IInv
    <3>2. freed \in SUBSET (Items \ removed)
      BY FirstItemsOnMap
    <3>3. LosePowers(drops, freed) /\ Respawned(freed) /\ UNCHANGED lastTouched
      BY <2>2 DEF RespawnPowers
    <3> HIDE DEF freed
    <3>4. /\ powers' \in [Players -> SUBSET Kinds]
          /\ owner' \in [Items -> Players \cup {NoPlayer}]
          /\ PowerHasItem'
      BY <3>1, <3>2, <3>3, LosePowersKeeps
    <3>5. owner' = [i \in Items |-> IF i \in freed THEN NoPlayer ELSE owner[i]]
      BY <3>3 DEF LosePowers
    <3>6. /\ think' \in [Items -> {"none", "DropPreThink", "DropThink", "CarryThink"}]
          /\ touchable' \in [Items -> BOOLEAN]
          /\ removed' \in SUBSET Items
          /\ ItemMachine'
      BY <3>1, <3>2, <3>3, <3>5, RespawnedKeeps
    <3>7. lastTouched' \in [Items -> Players \cup {NoPlayer}]
      BY <3>1, <3>3 DEF TypeOK
    <3>8. QED
      BY <3>4, <3>6, <3>7 DEF ItemsOK, ItemTypeOK
  <2>3. QED
    BY <2>1, <2>2 DEF ClientConnected
<1>3. QED
  BY <1>1, <1>2, IInvPartsPrime

(* A new player has no power, whatever the slot's last one left owned.     *)
LEMMA ClientPutInServerIInv ==
  ASSUME IInv, NEW p \in Players, ClientPutInServer(p)
  PROVE  IInv'
<1>1. SlotTypeOK'
  BY IInvParts DEF ClientPutInServer, SlotTypeOK, Teams, None
<1>2. ItemTypeOK' /\ ItemMachine'
  BY IInvParts DEF ClientPutInServer, ItemsOK, ItemTypeOK, ItemMachine, itemVars
<1>3. \A q \in Players : powers'[q] \in SUBSET powers[q]
  BY IInvParts DEF ClientPutInServer, ItemsOK, ItemTypeOK
<1>4. PowerHasItem'
  BY <1>3, IInvParts DEF ClientPutInServer, ItemsOK, PowerHasItem, itemVars
<1>5. QED
  BY <1>1, <1>2, <1>4, IInvPartsPrime DEF ItemsOK

LEMMA ClientDisconnectedIInv ==
  ASSUME IInv, NEW p \in Players, ClientDisconnected(p)
  PROVE  IInv'
<1>1. SlotTypeOK'
  BY IInvParts DEF ClientDisconnected, SlotTypeOK, Teams, None
<1>2. ItemsOK'
  BY ScatterUnlessOverOK DEF ClientDisconnected
<1>3. QED
  BY <1>1, <1>2, IInvPartsPrime

LEMMA KilledIInv ==
  ASSUME IInv, NEW p \in Players, Killed(p)
  PROVE  IInv'
<1>1. PICK gibbed \in BOOLEAN : solid' = [solid EXCEPT ![p] = @ /\ ~gibbed]
  BY DEF Killed
<1>2. solid' \in [Players -> BOOLEAN]
  BY <1>1, IInvParts DEF SlotTypeOK
<1>3. SlotTypeOK'
  BY <1>2, IInvParts DEF Killed, SlotTypeOK
<1>4. ItemsOK'
  BY ScatterUnlessOverOK DEF Killed
<1>5. QED
  BY <1>3, <1>4, IInvPartsPrime

LEMMA BecomeSpectatorIInv ==
  ASSUME IInv, NEW p \in Players, BecomeSpectator(p)
  PROVE  IInv'
<1>1. SlotTypeOK'
  BY IInvParts DEF BecomeSpectator, SlotTypeOK, Teams, None
<1>2. ItemsOK'
  BY ScatterUnlessOverOK DEF BecomeSpectator
<1>3. QED
  BY <1>1, <1>2, IInvPartsPrime

LEMMA SelectCharIInv ==
  ASSUME IInv, NEW p \in Players, NEW t \in Teams, SelectChar(p, t)
  PROVE  IInv'
<1>1. /\ client' \in [Players -> {"free", "connected", "active"}]
      /\ team' \in [Players -> Teams \cup {None}]
      /\ observer' \in [Players -> BOOLEAN]
      /\ gameOver' \in BOOLEAN
  BY IInvParts DEF SelectChar, SlotTypeOK
<1>2. CASE ~observer[p] /\ team[p] # t
  <2>1. alive' \in [Players -> BOOLEAN] /\ solid' \in [Players -> BOOLEAN]
    BY <1>2, IInvParts DEF SelectChar, SlotTypeOK
  <2>2. ItemsOK'
    BY <1>2, ScatterUnlessOverOK DEF SelectChar
  <2>3. QED
    BY <1>1, <2>1, <2>2, IInvPartsPrime DEF SlotTypeOK
<1>3. CASE ~(~observer[p] /\ team[p] # t)
  <2>1. alive' \in [Players -> BOOLEAN] /\ solid' \in [Players -> BOOLEAN]
    BY <1>3, IInvParts DEF SelectChar, SlotTypeOK
  <2>2. ItemsOK'
    BY <1>3, IInvParts, ItemsUnchanged DEF SelectChar
  <2>3. QED
    BY <1>1, <2>1, <2>2, IInvPartsPrime DEF SlotTypeOK
<1>4. QED
  BY <1>2, <1>3

LEMMA DropPlayerCTFPowerupIInv ==
  ASSUME IInv, NEW p \in Players, DropPlayerCTFPowerup(p)
  PROVE  IInv'
<1>1. SlotTypeOK'
  BY IInvParts, SlotsUnchanged DEF DropPlayerCTFPowerup
<1>2. ItemsOK'
  BY ScatterOK DEF DropPlayerCTFPowerup
<1>3. QED
  BY <1>1, <1>2, IInvPartsPrime

(* Steps of the slots alone.                                               *)
LEMMA SlotStepIInv ==
  ASSUME IInv, NEW p \in Players, ConnectionLost(p) \/ Respawn(p)
  PROVE  IInv'
<1>1. SlotTypeOK'
  BY IInvParts DEF ConnectionLost, Respawn, SlotTypeOK
<1>2. ItemsOK'
  BY IInvParts, ItemsUnchanged DEF ConnectionLost, Respawn
<1>3. QED
  BY <1>1, <1>2, IInvPartsPrime

LEMMA ClientStepIInv ==
  ASSUME IInv, NEW p \in Players, ClientStep(p)
  PROVE  IInv'
BY ClientConnectedIInv, ClientPutInServerIInv, ClientDisconnectedIInv, KilledIInv,
   BecomeSpectatorIInv, SelectCharIInv, DropPlayerCTFPowerupIInv, SlotStepIInv
   DEF ClientStep

(* Without players the level still ends.                                   *)
LEMMA StillIInv ==
  ASSUME IInv, GoToIntermission \/ UNCHANGED vars
  PROVE  IInv'
<1>1. SlotTypeOK'
  BY IInvParts DEF GoToIntermission, SlotTypeOK, playerVars, vars
<1>2. ItemsOK'
  BY IInvParts, ItemsUnchanged DEF GoToIntermission, vars
<1>3. QED
  BY <1>1, <1>2, IInvPartsPrime

LEMMA NextIInv == ASSUME IInv, [Next]_vars PROVE IInv'
<1>1. ASSUME NEW p \in Players, NEW i \in Items, TakeItem(p, i) \/ TouchInVain(p, i)
      PROVE  IInv'
  BY <1>1, TakeItemIInv, LastTouchedIInv DEF TouchInVain
<1>2. ASSUME NEW i \in Items, NextTouchTime(i) \/ ItemThink(i)
      PROVE  IInv'
  BY <1>2, ItemThinkIInv, LastTouchedIInv DEF NextTouchTime
<1>3. ASSUME NEW p \in Players, ClientStep(p)
      PROVE  IInv'
  BY <1>3, ClientStepIInv
<1>4. CASE GoToIntermission \/ UNCHANGED vars
  BY <1>4, StillIInv
<1>5. QED
  BY <1>1, <1>2, <1>3, <1>4 DEF Next

-----------------------------------------------------------------------------
(* The power-ups' bookkeeping: the bits of m_iItems, the owners and the    *)
(* functions of CItemCTF always agree.                                     *)
THEOREM IInvAlways == Spec => []IInv
<1>1. Init => IInv
  BY InitIInv
<1>2. IInv /\ [Next]_vars => IInv'
  BY NextIInv
<1>3. QED
  BY <1>1, <1>2, PTL DEF Spec

(* Every variable of the power-ups keeps its range (ctf_items.cpp).        *)
THEOREM TypeCorrect == Spec => []TypeOK
BY IInvAlways, PTL DEF IInv

(* A power-up is on the map, or owned, or gone (CItemCTF's thinks).        *)
THEOREM ItemMachineAlways == Spec => []ItemMachine
BY IInvAlways, PTL DEF IInv

(* Nobody has the bit of a power without an item that gives it             *)
(* (ForEachPlayerCTFPowerup, DropItem, ScatterItem).                       *)
THEOREM PowerHasItemAlways == Spec => []PowerHasItem
BY IInvAlways, PTL DEF IInv
=============================================================================
