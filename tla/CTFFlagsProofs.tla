--------------------------- MODULE CTFFlagsProofs ---------------------------
(***************************************************************************)
(* The safety properties of CTFFlags for any set of slots and any limits.  *)
(* IInv, the conjunction of the invariants, is inductive: CarrierInPlay    *)
(* needs CarrierKnown (a player who takes a flag had none) and             *)
(* TeamsAndSlots (whoever can touch is in a team), and both need           *)
(* FlagMachine (a flag that can be touched is nobody's).                   *)
(***************************************************************************)
EXTENDS CTFFlags, TLAPS

IInv ==
    /\ TypeOK
    /\ FlagMachine
    /\ CarrierKnown
    /\ CarrierInPlay
    /\ TeamsAndSlots

USE DEF None, Teams, Flags, NoFlag, Enemy, AtBase, Carried, Dropped

(* The initial state: every flag at its base, every slot free.             *)
LEMMA InitIInv == Init => IInv
<1> SUFFICES ASSUME Init PROVE IInv
  OBVIOUS
<1> USE DEF Init
<1>1. TypeOK
  BY DEF TypeOK, Thinks
<1>2. FlagMachine
  BY DEF FlagMachine
<1>3. CarrierKnown
  BY DEF CarrierKnown
<1>4. CarrierInPlay
  BY DEF CarrierInPlay
<1>5. TeamsAndSlots
  BY DEF TeamsAndSlots
<1>6. QED
  BY <1>1, <1>2, <1>3, <1>4, <1>5 DEF IInv

-----------------------------------------------------------------------------
(* The member functions of CTFGoalFlag.                                    *)

FlagTypeOK ==
    /\ m_pFlag \in [Players -> Flags \cup {NoFlag}]
    /\ flagItems \in [Players -> SUBSET Flags]
    /\ goalState \in [Flags -> {AtBase, Carried, Dropped}]
    /\ owner \in [Flags -> Players \cup {NoPlayer}]
    /\ touchable \in [Flags -> BOOLEAN]
    /\ think \in [Flags -> Thinks]

(* What a flag and its carrier agree on, whoever the carrier is.           *)
FlagsOK == FlagTypeOK /\ FlagMachine /\ CarrierKnown

(* ReturnFlag keeps the flags and their carriers consistent, whatever the  *)
(* flags were doing: the flags left in hands are not those returned.       *)
LEMMA ReturnFlagsOK ==
    ASSUME FlagsOK, NEW S \in SUBSET Flags, ReturnFlags(S)
    PROVE  FlagsOK'
<1> USE DEF FlagsOK, ReturnFlags
<1>1. FlagTypeOK'
  BY DEF FlagTypeOK, Thinks
<1>2. FlagMachine'
  <2> SUFFICES ASSUME NEW g \in Flags
               PROVE  FlagMachine!(g)'
    BY DEF FlagMachine
  <2>1. CASE g \in S
    BY <2>1 DEF FlagTypeOK
  <2>2. CASE g \notin S
    BY <2>2 DEF FlagTypeOK, FlagMachine
  <2>3. QED
    BY <2>1, <2>2
<1>3. CarrierKnown'
  <2> SUFFICES ASSUME NEW q \in Players
               PROVE  /\ flagItems'[q] = {} <=> m_pFlag'[q] = NoFlag
                      /\ m_pFlag'[q] # NoFlag => /\ goalState'[m_pFlag'[q]] = Carried
                                                 /\ owner'[m_pFlag'[q]] = q
    BY DEF CarrierKnown
  <2>1. CASE q \in {owner[f] : f \in S}
    BY <2>1
  <2>2. CASE q \notin {owner[f] : f \in S}
    <3>1. m_pFlag'[q] = m_pFlag[q] /\ flagItems'[q] = flagItems[q]
      BY <2>2
    <3>2. m_pFlag[q] # NoFlag => m_pFlag[q] \in Flags \ S
      BY <2>2 DEF CarrierKnown, FlagTypeOK
    <3>3. QED
      BY <3>1, <3>2 DEF CarrierKnown, FlagTypeOK
  <2>3. QED
    BY <2>1, <2>2
<1>4. QED
  BY <1>1, <1>2, <1>3

(* So does DropFlag, given the flag its player carries.                    *)
LEMMA DropFlagOK ==
    ASSUME FlagsOK, NEW p \in Players, m_pFlag[p] # NoFlag, DropFlag(m_pFlag[p], p)
    PROVE  FlagsOK'
<1> USE PlayersAssumption DEF FlagsOK, DropFlag
<1>1. FlagTypeOK'
  BY DEF FlagTypeOK, Thinks
<1>2. FlagMachine'
  BY DEF FlagTypeOK, FlagMachine
<1>3. CarrierKnown'
  BY DEF FlagTypeOK, CarrierKnown
<1>4. QED
  BY <1>1, <1>2, <1>3

(* And GiveFlagToPlayer, given a flag that nobody carries.                 *)
LEMMA GiveFlagOK ==
    ASSUME FlagsOK, NEW p \in Players, NEW f \in Flags, goalState[f] # Carried,
           GiveFlagToPlayer(f, p)
    PROVE  FlagsOK'
<1> USE PlayersAssumption DEF FlagsOK, GiveFlagToPlayer
<1>1. FlagTypeOK'
  BY DEF FlagTypeOK, Thinks
<1>2. FlagMachine'
  BY DEF FlagTypeOK, FlagMachine
<1>3. CarrierKnown'
  <2> SUFFICES ASSUME NEW q \in Players
               PROVE  /\ flagItems'[q] = {} <=> m_pFlag'[q] = NoFlag
                      /\ m_pFlag'[q] # NoFlag => /\ goalState'[m_pFlag'[q]] = Carried
                                                 /\ owner'[m_pFlag'[q]] = q
    BY DEF CarrierKnown
  <2>1. CASE q = p
    <3>1. m_pFlag'[q] = f /\ f \in flagItems'[q]
      BY <2>1 DEF FlagTypeOK
    <3>2. goalState'[f] = Carried /\ owner'[f] = p
      BY DEF FlagTypeOK
    <3>3. QED
      BY <2>1, <3>1, <3>2
  <2>2. CASE q # p
    <3>1. m_pFlag'[q] = m_pFlag[q] /\ flagItems'[q] = flagItems[q]
      BY <2>2 DEF FlagTypeOK
    <3>2. m_pFlag[q] # f
      BY DEF CarrierKnown
    <3>3. QED
      BY <3>1, <3>2 DEF CarrierKnown, FlagTypeOK
  <2>3. QED
    BY <2>1, <2>2
<1>4. QED
  BY <1>1, <1>2, <1>3

-----------------------------------------------------------------------------
(* The inductive step, action by action.  SlotTypeOK is what TypeOK says   *)
(* of everything but the flags and their carriers.                         *)

SlotTypeOK ==
    /\ client \in [Players -> {"free", "connected", "active"}]
    /\ team \in [Players -> Teams \cup {None}]
    /\ observer \in [Players -> BOOLEAN]
    /\ alive \in [Players -> BOOLEAN]
    /\ solid \in [Players -> BOOLEAN]
    /\ teamscores \in [Teams -> Nat]
    /\ gameOver \in BOOLEAN

(* The invariant, as the parts its proof treats one by one.                *)
LEMMA IInvParts == IInv <=> SlotTypeOK /\ FlagsOK /\ CarrierInPlay /\ TeamsAndSlots
  BY DEF IInv, TypeOK, SlotTypeOK, FlagsOK, FlagTypeOK

(* The same, of the next state.                                            *)
LEMMA IInvPartsPrime ==
    IInv' <=> SlotTypeOK' /\ FlagsOK' /\ CarrierInPlay' /\ TeamsAndSlots'
  BY DEF IInv, TypeOK, SlotTypeOK, FlagsOK, FlagTypeOK

(* A step that returns only dropped flags, flags that go home with a       *)
(* capture or a reset, or, after the game, any flag.                       *)
LEMMA ReturnFlagsIInv ==
    ASSUME IInv, NEW S \in SUBSET Flags, ReturnFlags(S),
           \A f \in S : goalState[f] # AtBase,
           UNCHANGED <<playerVars, gameOver>>, teamscores' \in [Teams -> Nat]
    PROVE  IInv'
<1> USE IInvParts DEF playerVars
<1>1. SlotTypeOK'
  BY DEF SlotTypeOK
<1>2. FlagsOK'
  BY ReturnFlagsOK
<1>3. CarrierInPlay'
  <2> SUFFICES ASSUME ~gameOver, NEW g \in Flags, goalState'[g] = Carried
               PROVE  CarriesInPlay(owner[g], g)'
    BY DEF CarrierInPlay
  <2>1. g \notin S /\ goalState[g] = Carried /\ owner'[g] = owner[g]
    BY DEF ReturnFlags, FlagsOK, FlagTypeOK
  <2>2. owner[g] \in Players /\ CarriesInPlay(owner[g], g)
    BY <2>1 DEF CarrierInPlay, FlagsOK, FlagMachine
  <2>3. ASSUME NEW f \in S PROVE owner[f] # owner[g]
    <3>1. CASE goalState[f] = Dropped
      BY <2>2, <3>1, PlayersAssumption DEF FlagsOK, FlagMachine
    <3>2. CASE goalState[f] = Carried
      BY <2>1, <2>2, <3>2 DEF CarrierInPlay, CarriesInPlay
    <3>3. QED
      BY <3>1, <3>2 DEF FlagsOK, FlagTypeOK
  <2>4. QED
    BY <2>1, <2>2, <2>3 DEF ReturnFlags, CarriesInPlay, FlagsOK, FlagTypeOK
<1>4. TeamsAndSlots'
  BY DEF TeamsAndSlots, ReturnFlags
<1>5. QED
  BY <1>1, <1>2, <1>3, <1>4, IInvPartsPrime

(* DropCarriedFlag: afterwards its player carries nothing, unless the game *)
(* is over, and no other flag has moved.                                   *)
LEMMA DropCarriedFlagOK ==
    ASSUME IInv, NEW p \in Players, DropCarriedFlag(p)
    PROVE  /\ FlagsOK'
           /\ \A q \in Players \ {p} : m_pFlag'[q] = m_pFlag[q] /\ flagItems'[q] = flagItems[q]
           /\ \A f \in Flags : goalState'[f] = Carried =>
                 /\ goalState[f] = Carried /\ owner'[f] = owner[f]
                 /\ owner[f] = p => gameOver
           /\ ~gameOver => m_pFlag'[p] = NoFlag
<1> USE IInvParts
<1>1. CASE m_pFlag[p] # NoFlag /\ ~gameOver
  <2>1. DropFlag(m_pFlag[p], p)
    BY <1>1 DEF DropCarriedFlag
  <2>2. FlagsOK'
    BY <1>1, <2>1, DropFlagOK
  <2>3. ASSUME NEW f \in Flags, goalState'[f] = Carried
        PROVE  goalState[f] = Carried /\ owner'[f] = owner[f] /\ owner[f] # p
    <3>1. f # m_pFlag[p] /\ goalState[f] = Carried /\ owner'[f] = owner[f]
      BY <2>1, <2>3 DEF DropFlag, FlagsOK, FlagTypeOK
    <3>2. CarriesInPlay(owner[f], f)
      BY <1>1, <3>1 DEF CarrierInPlay
    <3>3. QED
      BY <3>1, <3>2 DEF CarriesInPlay
  <2>4. QED
    BY <1>1, <2>1, <2>2, <2>3 DEF DropFlag, FlagsOK, FlagTypeOK
<1>2. CASE ~(m_pFlag[p] # NoFlag /\ ~gameOver)
  <2>1. UNCHANGED <<carryVars, flagVars>>
    BY <1>2 DEF DropCarriedFlag
  <2>2. FlagsOK'
    BY <2>1 DEF carryVars, flagVars, FlagsOK, FlagTypeOK, FlagMachine, CarrierKnown
  <2>3. ASSUME NEW f \in Flags, goalState[f] = Carried, ~gameOver
        PROVE  owner[f] # p
    BY <1>2, <2>3 DEF CarrierInPlay, CarriesInPlay
  <2>4. QED
    BY <1>2, <2>1, <2>2, <2>3 DEF carryVars, flagVars
<1>3. QED
  BY <1>1, <1>2

(* Nothing about another player changes.                                   *)
OthersUnchanged(p) ==
    \A q \in Players \ {p} :
        /\ client'[q] = client[q] /\ team'[q] = team[q] /\ solid'[q] = solid[q]
        /\ observer'[q] = observer[q] /\ alive'[q] = alive[q]
        /\ m_pFlag'[q] = m_pFlag[q] /\ flagItems'[q] = flagItems[q]

(* What TeamsAndSlots says of p, after a step that leaves gameOver alone.  *)
SlotInvPrime(p) ==
    /\ client'[p] = "active" => (observer'[p] <=> team'[p] = None)
    /\ client'[p] = "active" /\ observer'[p] => ~solid'[p]
    /\ ~gameOver /\ client'[p] # "active" => team'[p] = None /\ m_pFlag'[p] = NoFlag

(* A step of p's slot after which every flag still carried was carried     *)
(* before, and by another player or by p as ever.                          *)
LEMMA SlotStepIInv ==
    ASSUME IInv, NEW p \in Players, SlotTypeOK', FlagsOK', gameOver' = gameOver,
           OthersUnchanged(p),
           \A f \in Flags : goalState'[f] = Carried =>
               /\ goalState[f] = Carried /\ owner'[f] = owner[f]
               /\ owner[f] = p => gameOver \/ CarriesInPlay(p, f)',
           SlotInvPrime(p)
    PROVE  IInv'
<1> USE IInvParts DEF OthersUnchanged, SlotInvPrime
<1>1. CarrierInPlay'
  <2> SUFFICES ASSUME ~gameOver, NEW f \in Flags, goalState'[f] = Carried
               PROVE  CarriesInPlay(owner[f], f)'
    BY DEF CarrierInPlay
  <2>1. goalState[f] = Carried /\ owner'[f] = owner[f] /\ owner[f] \in Players
    BY DEF FlagsOK, FlagMachine
  <2>2. CarriesInPlay(owner[f], f)
    BY <2>1 DEF CarrierInPlay
  <2>3. CASE owner[f] # p
    BY <2>1, <2>2, <2>3 DEF CarriesInPlay
  <2>4. CASE owner[f] = p
    BY <2>1, <2>4
  <2>5. QED
    BY <2>3, <2>4
<1>2. TeamsAndSlots'
  BY DEF TeamsAndSlots
<1>3. QED
  BY <1>1, <1>2, IInvPartsPrime

-----------------------------------------------------------------------------
(* Touches.                                                                *)

(* Whoever takes a flag is in the other team, alive and empty-handed.      *)
LEMMA TakeFlagIInv ==
    ASSUME IInv, NEW p \in Players, NEW f \in Flags, TakeFlag(p, f)
    PROVE  IInv'
<1> USE IInvParts DEF TakeFlag, Touches, playerVars, matchVars
<1>1. goalState[f] # Carried
  BY DEF FlagsOK, FlagMachine
<1>2. team[p] = Enemy(f) /\ ~observer[p]
  BY DEF SlotTypeOK, TeamsAndSlots
<1>3. ~gameOver => m_pFlag[p] = NoFlag /\ flagItems[p] = {}
  BY <1>1, <1>2 DEF FlagsOK, FlagTypeOK, CarrierKnown, CarrierInPlay, CarriesInPlay
<1>4. SlotTypeOK'
  BY DEF SlotTypeOK
<1>5. FlagsOK'
  BY <1>1, GiveFlagOK
<1>6. CarrierInPlay'
  <2> SUFFICES ASSUME ~gameOver, NEW g \in Flags, goalState'[g] = Carried
               PROVE  CarriesInPlay(owner[g], g)'
    BY DEF CarrierInPlay
  <2>1. CASE g = f
    BY <1>2, <1>3, <2>1 DEF GiveFlagToPlayer, CarriesInPlay, FlagsOK, FlagTypeOK
  <2>2. CASE g # f
    <3>1. goalState[g] = Carried /\ owner'[g] = owner[g] /\ owner[g] \in Players
      BY <2>2 DEF GiveFlagToPlayer, FlagsOK, FlagTypeOK, FlagMachine
    <3>2. CarriesInPlay(owner[g], g)
      BY <3>1 DEF CarrierInPlay
    <3>3. owner[g] # p
      BY <1>3, <3>2 DEF CarriesInPlay
    <3>4. QED
      BY <3>1, <3>2, <3>3 DEF GiveFlagToPlayer, CarriesInPlay, FlagsOK, FlagTypeOK
  <2>3. QED
    BY <2>1, <2>2
<1>7. TeamsAndSlots'
  BY DEF TeamsAndSlots, GiveFlagToPlayer, FlagsOK, FlagTypeOK
<1>8. QED
  BY <1>4, <1>5, <1>6, <1>7, IInvPartsPrime

(* The flag p brings home is a carried one, so it is not the flag touched. *)
LEMMA CaptureFlagIInv ==
    ASSUME IInv, NEW p \in Players, NEW f \in Flags, CaptureFlag(p, f)
    PROVE  IInv'
<1> USE IInvParts DEF CaptureFlag
<1>1. m_pFlag[p] \in Flags /\ goalState[m_pFlag[p]] = Carried
  BY DEF FlagsOK, FlagTypeOK, CarrierKnown
<1>2. ReturnFlags({m_pFlag[p]})
  BY <1>1 DEF ReturnFlag
<1>3. teamscores' \in [Teams -> Nat]
  BY DEF SlotTypeOK
<1>4. QED
  BY <1>1, <1>2, <1>3, ReturnFlagsIInv

(* A flag its own team touches away from its base was dropped.             *)
LEMMA ReturnDroppedFlagIInv ==
    ASSUME IInv, NEW p \in Players, NEW f \in Flags, ReturnDroppedFlag(p, f)
    PROVE  IInv'
  BY IInvParts, ReturnFlagsIInv DEF ReturnDroppedFlag, ReturnFlag, matchVars, SlotTypeOK

-----------------------------------------------------------------------------
(* Thinks.                                                                 *)

(* A step that changes only the think and touch functions of the flags.    *)
LEMMA ThinkOnlyIInv ==
    ASSUME IInv, FlagsOK', UNCHANGED <<playerVars, carryVars, goalState, owner, matchVars>>
    PROVE  IInv'
<1> USE IInvParts DEF playerVars, carryVars, matchVars
<1>1. SlotTypeOK' /\ TeamsAndSlots'
  BY DEF SlotTypeOK, TeamsAndSlots
<1>2. CarrierInPlay'
  BY DEF CarrierInPlay, CarriesInPlay
<1>3. QED
  BY <1>1, <1>2, IInvPartsPrime

(* The thinks: the carrier of a flag has its bit until the intermission.   *)
LEMMA FlagThinkIInv ==
    ASSUME IInv, NEW f \in Flags, FlagThink(f)
    PROVE  IInv'
<1> USE IInvParts
<1>1. CASE PlaceItem(f)
  <2>1. FlagsOK'
    BY <1>1 DEF PlaceItem, FlagsOK, FlagTypeOK, FlagMachine, CarrierKnown, carryVars, Thinks
  <2>2. QED
    BY <1>1, <2>1, ThinkOnlyIInv DEF PlaceItem
<1>2. CASE FlagCarryThink(f)
  <2>1. CASE owner[f] # NoPlayer /\ flagItems[owner[f]] # {}
    <3>1. UNCHANGED <<playerVars, carryVars, flagVars, matchVars>>
      BY <1>2, <2>1 DEF FlagCarryThink
    <3>2. FlagsOK'
      BY <3>1 DEF carryVars, flagVars, FlagsOK, FlagTypeOK, FlagMachine, CarrierKnown
    <3>3. QED
      BY <3>1, <3>2, ThinkOnlyIInv DEF flagVars
  <2>2. CASE ~(owner[f] # NoPlayer /\ flagItems[owner[f]] # {})
    BY <1>2, <2>2, ReturnFlagsIInv
    DEF FlagCarryThink, ReturnFlag, matchVars, SlotTypeOK, FlagsOK, FlagTypeOK, FlagMachine
  <2>3. QED
    BY <2>1, <2>2
<1>3. CASE goal_item_dropthink(f)
  <2>1. CASE ReturnFlag(f)
    BY <1>3, <2>1, ReturnFlagsIInv
    DEF goal_item_dropthink, ReturnFlag, matchVars, SlotTypeOK, FlagsOK, FlagMachine
  <2>2. CASE /\ think' = [think EXCEPT ![f] = "ReturnFlag"]
             /\ UNCHANGED <<carryVars, goalState, owner, touchable>>
    <3>1. FlagsOK'
      BY <1>3, <2>2
      DEF goal_item_dropthink, carryVars, FlagsOK, FlagTypeOK, FlagMachine, CarrierKnown, Thinks
    <3>2. QED
      BY <1>3, <2>2, <3>1, ThinkOnlyIInv DEF goal_item_dropthink
  <2>3. QED
    BY <1>3, <2>1, <2>2 DEF goal_item_dropthink
<1>4. CASE ReturnTimeOver(f)
  BY <1>4, ReturnFlagsIInv
  DEF ReturnTimeOver, ReturnFlag, matchVars, SlotTypeOK, FlagsOK, FlagTypeOK, FlagMachine
<1>5. CASE ReturnFlagThink(f)
  <2>1. FlagsOK'
    BY <1>5 DEF ReturnFlagThink, FlagsOK, FlagTypeOK, FlagMachine, CarrierKnown, carryVars, Thinks
  <2>2. QED
    BY <1>5, <2>1, ThinkOnlyIInv DEF ReturnFlagThink
<1>6. QED
  BY <1>1, <1>2, <1>3, <1>4, <1>5 DEF FlagThink

-----------------------------------------------------------------------------
(* Clients.                                                                *)

(* The reset returns the flags that are in somebody's m_pFlag.             *)
LEMMA ClientConnectedIInv ==
    ASSUME IInv, NEW p \in Players, ClientConnected(p)
    PROVE  IInv'
<1> USE IInvParts DEF ClientConnected
<1> DEFINE S == {m_pFlag[q] : q \in {r \in Players : flagItems[r] # {}}} \ {NoFlag}
<1>1. CASE Cardinality({q \in Players : team[q] # None}) <= 1
  <2>1. ReturnFlags(S) /\ ResetTeamScores
    BY <1>1
  <2>2. S \in SUBSET Flags /\ \A f \in S : goalState[f] = Carried
    BY DEF FlagsOK, FlagTypeOK, CarrierKnown
  <2>3. SlotTypeOK' /\ FlagsOK'
    BY <2>1, <2>2, ReturnFlagsOK DEF SlotTypeOK, ResetTeamScores
  <2>4. CarrierInPlay'
    <3> SUFFICES ASSUME ~gameOver, NEW g \in Flags, goalState'[g] = Carried
                 PROVE  FALSE
      BY DEF CarrierInPlay
    <3>1. g \notin S /\ goalState[g] = Carried
      BY <2>1 DEF ReturnFlags, FlagsOK, FlagTypeOK
    <3>2. owner[g] \in Players /\ CarriesInPlay(owner[g], g)
      BY <3>1 DEF CarrierInPlay, FlagsOK, FlagMachine
    <3>3. QED
      BY <3>1, <3>2 DEF CarriesInPlay
  <2>5. TeamsAndSlots'
    BY <2>1 DEF TeamsAndSlots, ReturnFlags, SlotTypeOK
  <2>6. QED
    BY <2>3, <2>4, <2>5, IInvPartsPrime
<1>2. CASE ~(Cardinality({q \in Players : team[q] # None}) <= 1)
  <2>1. UNCHANGED <<carryVars, flagVars, teamscores>>
    BY <1>2
  <2>2. SlotTypeOK' /\ FlagsOK'
    BY <2>1 DEF SlotTypeOK, carryVars, flagVars, FlagsOK, FlagTypeOK, FlagMachine, CarrierKnown
  <2>3. CarrierInPlay'
    BY <2>1 DEF carryVars, flagVars, CarrierInPlay, CarriesInPlay, SlotTypeOK, FlagsOK, FlagMachine
  <2>4. TeamsAndSlots'
    BY <2>1 DEF carryVars, TeamsAndSlots, SlotTypeOK
  <2>5. QED
    BY <2>2, <2>3, <2>4, IInvPartsPrime
<1>3. QED
  BY <1>1, <1>2

(* The new player's slot held no carrier: it was not in the game.          *)
LEMMA ClientPutInServerIInv ==
    ASSUME IInv, NEW p \in Players, ClientPutInServer(p)
    PROVE  IInv'
<1> USE IInvParts DEF ClientPutInServer
<1>1. SlotTypeOK'
  BY DEF SlotTypeOK, matchVars
<1>2. FlagsOK'
  BY DEF FlagsOK, FlagTypeOK, FlagMachine, CarrierKnown, flagVars
<1>3. \A f \in Flags : goalState[f] = Carried /\ owner[f] = p => gameOver
  BY DEF CarrierInPlay, CarriesInPlay
<1>4. OthersUnchanged(p) /\ SlotInvPrime(p)
  BY DEF OthersUnchanged, SlotInvPrime, SlotTypeOK, FlagsOK, FlagTypeOK
<1>5. QED
  BY <1>1, <1>2, <1>3, <1>4, SlotStepIInv DEF flagVars, matchVars

(* ClientDisconnected lets go of the flag, except after the game.          *)
LEMMA ClientDisconnectedIInv ==
    ASSUME IInv, NEW p \in Players, ClientDisconnected(p)
    PROVE  IInv'
<1> USE IInvParts, DropCarriedFlagOK DEF ClientDisconnected
<1>1. SlotTypeOK'
  BY DEF SlotTypeOK, matchVars
<1>2. OthersUnchanged(p) /\ SlotInvPrime(p)
  BY DEF OthersUnchanged, SlotInvPrime, SlotTypeOK
<1>3. QED
  BY <1>1, <1>2, SlotStepIInv DEF matchVars

(* A client that never got into the game carried nothing.                  *)
LEMMA ConnectionLostIInv ==
    ASSUME IInv, NEW p \in Players, ConnectionLost(p)
    PROVE  IInv'
<1> USE IInvParts DEF ConnectionLost, carryVars, flagVars, matchVars
<1>1. SlotTypeOK'
  BY DEF SlotTypeOK
<1>2. FlagsOK'
  BY DEF FlagsOK, FlagTypeOK, FlagMachine, CarrierKnown
<1>3. \A f \in Flags : goalState[f] = Carried /\ owner[f] = p => gameOver
  BY DEF CarrierInPlay, CarriesInPlay
<1>4. OthersUnchanged(p) /\ SlotInvPrime(p)
  BY DEF OthersUnchanged, SlotInvPrime, SlotTypeOK, TeamsAndSlots
<1>5. QED
  BY <1>1, <1>2, <1>3, <1>4, SlotStepIInv

(* Killed lets go of the flag before the body can lose its solidity.       *)
LEMMA KilledIInv ==
    ASSUME IInv, NEW p \in Players, Killed(p)
    PROVE  IInv'
<1> USE IInvParts, DropCarriedFlagOK DEF Killed, InPlay, matchVars
<1>1. PICK gibbed \in BOOLEAN : solid' = [solid EXCEPT ![p] = @ /\ ~gibbed]
  OBVIOUS
<1>2. solid'[p] \in BOOLEAN /\ solid' \in [Players -> BOOLEAN]
  BY <1>1 DEF SlotTypeOK
<1>3. SlotTypeOK'
  BY <1>2 DEF SlotTypeOK
<1>4. \A q \in Players \ {p} : solid'[q] = solid[q]
  BY <1>1 DEF SlotTypeOK
<1>5. OthersUnchanged(p) /\ SlotInvPrime(p)
  BY <1>1, <1>4 DEF OthersUnchanged, SlotInvPrime, SlotTypeOK, TeamsAndSlots
<1>6. QED
  BY <1>3, <1>5, SlotStepIInv

(* A dead player carries nothing, so respawning is no carrier's step.      *)
LEMMA RespawnIInv ==
    ASSUME IInv, NEW p \in Players, Respawn(p)
    PROVE  IInv'
<1> USE IInvParts DEF Respawn, InPlay, carryVars, flagVars, matchVars
<1>1. SlotTypeOK'
  BY DEF SlotTypeOK
<1>2. FlagsOK'
  BY DEF FlagsOK, FlagTypeOK, FlagMachine, CarrierKnown
<1>3. \A f \in Flags : goalState[f] = Carried => owner[f] # p
  BY DEF CarrierInPlay, CarriesInPlay
<1>4. OthersUnchanged(p)
  BY DEF OthersUnchanged, SlotTypeOK
<1>5. SlotInvPrime(p)
  BY DEF SlotInvPrime, SlotTypeOK, TeamsAndSlots
<1>6. QED
  BY <1>1, <1>2, <1>3, <1>4, <1>5, SlotStepIInv

(* ChangePlayerTeam lets go of the flag of a player who leaves play.       *)
LEMMA BecomeSpectatorIInv ==
    ASSUME IInv, NEW p \in Players, BecomeSpectator(p)
    PROVE  IInv'
<1> USE IInvParts, DropCarriedFlagOK DEF BecomeSpectator, matchVars
<1>1. SlotTypeOK'
  BY DEF SlotTypeOK
<1>2. OthersUnchanged(p) /\ SlotInvPrime(p)
  BY DEF OthersUnchanged, SlotInvPrime, SlotTypeOK
<1>3. QED
  BY <1>1, <1>2, SlotStepIInv

(* A player who stays in the team may keep the flag, any other drops it.   *)
LEMMA SelectCharIInv ==
    ASSUME IInv, NEW p \in Players, NEW t \in Teams, SelectChar(p, t)
    PROVE  IInv'
<1> USE IInvParts DEF SelectChar, matchVars
<1>1. CASE ~observer[p] /\ team[p] # t
  <2>1. solid' = [solid EXCEPT ![p] = @ /\ ~alive[p]] /\ DropCarriedFlag(p)
    BY <1>1
  <2>2. SlotTypeOK'
    BY <1>1, <2>1 DEF SlotTypeOK
  <2>3. FlagsOK'
    BY <2>1, DropCarriedFlagOK
  <2>4. \A f \in Flags : goalState'[f] = Carried =>
            /\ goalState[f] = Carried /\ owner'[f] = owner[f]
            /\ owner[f] = p => gameOver
    BY <2>1, DropCarriedFlagOK
  <2>5. \A q \in Players \ {p} : m_pFlag'[q] = m_pFlag[q] /\ flagItems'[q] = flagItems[q]
    BY <2>1, DropCarriedFlagOK
  <2>6. OthersUnchanged(p) /\ SlotInvPrime(p)
    BY <2>1, <2>5 DEF OthersUnchanged, SlotInvPrime, SlotTypeOK
  <2>7. QED
    BY <2>2, <2>3, <2>4, <2>6, SlotStepIInv
<1>2. CASE ~(~observer[p] /\ team[p] # t)
  <2>1. /\ UNCHANGED <<carryVars, flagVars, alive>>
        /\ solid' = [solid EXCEPT ![p] = @ \/ observer[p]]
    BY <1>2
  <2>2. SlotTypeOK'
    BY <2>1 DEF SlotTypeOK
  <2>3. FlagsOK'
    BY <2>1 DEF carryVars, flagVars, FlagsOK, FlagTypeOK, FlagMachine, CarrierKnown
  <2>4. ASSUME NEW f \in Flags, goalState[f] = Carried, owner[f] = p, ~gameOver
        PROVE  CarriesInPlay(p, f)'
    <3>1. CarriesInPlay(p, f)
      BY <2>4 DEF CarrierInPlay
    <3>2. team[p] = t /\ solid'[p]
      BY <1>2, <2>1, <3>1 DEF CarriesInPlay, SlotTypeOK
    <3>3. QED
      BY <2>1, <3>1, <3>2 DEF CarriesInPlay, carryVars, SlotTypeOK
  <2>5. OthersUnchanged(p) /\ SlotInvPrime(p)
    BY <2>1 DEF OthersUnchanged, SlotInvPrime, SlotTypeOK, carryVars
  <2>6. QED
    BY <2>1, <2>2, <2>3, <2>4, <2>5, SlotStepIInv DEF flagVars
<1>3. QED
  BY <1>1, <1>2

(* The displacer's player goes on without the flag.                        *)
LEMMA DisplacedIInv ==
    ASSUME IInv, NEW p \in Players, Displaced(p)
    PROVE  IInv'
<1> USE IInvParts DEF Displaced, playerVars, matchVars
<1>1. SlotTypeOK'
  BY DEF SlotTypeOK
<1>2. FlagsOK'
  BY DropFlagOK
<1>3. ASSUME NEW f \in Flags, goalState'[f] = Carried
      PROVE  /\ goalState[f] = Carried /\ owner'[f] = owner[f]
             /\ owner[f] = p => gameOver
  <2>1. f # m_pFlag[p] /\ goalState[f] = Carried /\ owner'[f] = owner[f]
    BY <1>3 DEF DropFlag, FlagsOK, FlagTypeOK
  <2>2. QED
    BY <2>1 DEF CarrierInPlay, CarriesInPlay
<1>4. OthersUnchanged(p) /\ SlotInvPrime(p)
  BY DEF OthersUnchanged, SlotInvPrime, DropFlag, SlotTypeOK, TeamsAndSlots, FlagsOK, FlagTypeOK, InPlay
<1>5. QED
  BY <1>1, <1>2, <1>3, <1>4, SlotStepIInv

(* The intermission itself moves nothing.                                  *)
LEMMA GoToIntermissionIInv ==
    ASSUME IInv, GoToIntermission
    PROVE  IInv'
<1> USE IInvParts DEF GoToIntermission, playerVars, carryVars, flagVars
<1>1. SlotTypeOK' /\ FlagsOK'
  BY DEF SlotTypeOK, FlagsOK, FlagTypeOK, FlagMachine, CarrierKnown
<1>2. CarrierInPlay' /\ TeamsAndSlots'
  BY DEF CarrierInPlay, TeamsAndSlots
<1>3. QED
  BY <1>1, <1>2, IInvPartsPrime

-----------------------------------------------------------------------------
(* Every step keeps the invariant.                                         *)

(* Every operation on a client slot keeps the invariant.                   *)
LEMMA ClientStepIInv ==
    ASSUME IInv, NEW p \in Players, ClientStep(p)
    PROVE  IInv'
  BY ClientConnectedIInv, ClientPutInServerIInv, ClientDisconnectedIInv,
     ConnectionLostIInv, KilledIInv, RespawnIInv, BecomeSpectatorIInv,
     SelectCharIInv, DisplacedIInv
  DEF ClientStep

(* So does a step of something else.                                       *)
LEMMA StutterIInv == ASSUME IInv, UNCHANGED vars PROVE IInv'
<1> USE IInvParts DEF vars, playerVars, carryVars, flagVars, matchVars
<1>1. SlotTypeOK' /\ FlagsOK'
  BY DEF SlotTypeOK, FlagsOK, FlagTypeOK, FlagMachine, CarrierKnown
<1>2. CarrierInPlay' /\ TeamsAndSlots'
  BY DEF CarrierInPlay, CarriesInPlay, TeamsAndSlots
<1>3. QED
  BY <1>1, <1>2, IInvPartsPrime

(* And so does every step.                                                 *)
LEMMA NextIInv == ASSUME IInv, [Next]_vars PROVE IInv'
<1>1. ASSUME NEW p \in Players, NEW f \in Flags, Touch(p, f)
      PROVE  IInv'
  BY <1>1, TakeFlagIInv, CaptureFlagIInv, ReturnDroppedFlagIInv DEF Touch
<1>2. QED
  BY <1>1, FlagThinkIInv, ClientStepIInv, GoToIntermissionIInv, StutterIInv
  DEF Next, CaptureLimitReached, TimeOrFragLimitReached

(* The invariant holds in every reachable state of the flag game.          *)
THEOREM IInvAlways == Spec => []IInv
<1>1. Init => IInv
  BY InitIInv
<1>2. IInv /\ [Next]_vars => IInv'
  BY NextIInv
<1>3. QED
  BY <1>1, <1>2, PTL DEF Spec

(* Type correctness: TypeOK of the runs, for any set of client slots.      *)
THEOREM TypeCorrect == Spec => []TypeOK
  BY IInvAlways, PTL DEF IInv

(* No handler of ctf_goals.cpp leaves a flag that cannot be got any more.  *)
THEOREM FlagMachineAlways == Spec => []FlagMachine
  BY IInvAlways, PTL DEF IInv

(* m_pFlag and the flag bits of m_iItems agree with the flags' owners.     *)
THEOREM CarrierKnownAlways == Spec => []CarrierKnown
  BY IInvAlways, PTL DEF IInv

(* Until the intermission only living players of the other team, in the    *)
(* game and not spectating, carry a flag, and each only one.               *)
THEOREM CarrierInPlayAlways == Spec => []CarrierInPlay
  BY IInvAlways, PTL DEF IInv

(* Only players in a team touch things, and a free slot is in no team.     *)
THEOREM TeamsAndSlotsAlways == Spec => []TeamsAndSlots
  BY IInvAlways, PTL DEF IInv

-----------------------------------------------------------------------------
(* What the steps of CTFFlags mean for the game: how the score moves, and  *)
(* that every step is a step of CTFGame or none.  Both follow from IInv.   *)

USE DEF Game!GameTeams, Game!Opponent, Game!AtHome, Game!InHands, Game!OnGround

(* The carrier of each flag, as the refinement mapping of CTFFlags has it. *)
Carrier == [f \in Flags |-> IF goalState[f] = Carried THEN owner[f] ELSE NoPlayer]

(* The reset of ClientConnected leaves no flag in anyone's hands.          *)
LEMMA ResetReturnsAll ==
    ASSUME IInv, ~gameOver, NEW f \in Flags, goalState'[f] = Carried,
           ReturnFlags({m_pFlag[q] : q \in {r \in Players : flagItems[r] # {}}} \ {NoFlag})
    PROVE  FALSE
<1> USE IInvParts
<1>1. goalState[f] = Carried
  BY DEF ReturnFlags, FlagsOK, FlagTypeOK
<1>2. owner[f] \in Players /\ CarriesInPlay(owner[f], f)
  BY <1>1 DEF CarrierInPlay, FlagsOK, FlagMachine
<1>3. QED
  BY <1>2 DEF CarriesInPlay, ReturnFlags, FlagsOK, FlagTypeOK

(* The flag a capture brings home is the enemy's, carried by the scorer.   *)
LEMMA CapturedFlag ==
    ASSUME IInv, NEW p \in Players, NEW f \in Flags, CaptureFlag(p, f)
    PROVE  /\ m_pFlag[p] = Enemy(f)
           /\ goalState[Enemy(f)] = Carried /\ owner[Enemy(f)] = p
           /\ ReturnFlags({Enemy(f)})
<1> USE IInvParts DEF CaptureFlag
<1>1. m_pFlag[p] \in Flags /\ goalState[m_pFlag[p]] = Carried /\ owner[m_pFlag[p]] = p
  BY DEF FlagsOK, FlagTypeOK, CarrierKnown
<1>2. m_pFlag[p] = Enemy(f)
  BY <1>1
<1>3. QED
  BY <1>1, <1>2 DEF ReturnFlag

-----------------------------------------------------------------------------
(* The score.                                                              *)

(* A step that leaves the scores alone says nothing to ScoreStep.          *)
LEMMA SameScore == ASSUME IInv, teamscores' = teamscores PROVE ScoreStep
  BY IInvParts DEF ScoreStep, SlotTypeOK

(* A capture raises the score of the flag's own team by one.               *)
LEMMA CaptureFlagScore ==
    ASSUME IInv, NEW p \in Players, NEW f \in Flags, CaptureFlag(p, f)
    PROVE  ScoreStep
<1> USE IInvParts DEF CaptureFlag
<1>1. /\ goalState[Enemy(f)] = Carried /\ owner[Enemy(f)] = p
      /\ ReturnFlags({Enemy(f)})
  BY CapturedFlag
<1>2. goalState'[f] = AtBase /\ goalState'[Enemy(f)] = AtBase
  BY <1>1 DEF ReturnFlags, FlagsOK, FlagTypeOK
<1>3. teamscores' = [teamscores EXCEPT ![f] = @ + 1]
  OBVIOUS
<1>4. ASSUME NEW t \in Teams, t # f PROVE teamscores'[t] = teamscores[t]
  BY <1>3, <1>4 DEF SlotTypeOK
<1>5. teamscores'[f] > teamscores[f]
  BY <1>3 DEF SlotTypeOK
<1>6. team[owner[Enemy(f)]] = f /\ goalState[f] = AtBase
  BY <1>1
<1>7. \A t \in Teams : ~(teamscores'[t] < teamscores[t])
  BY <1>3 DEF SlotTypeOK
<1>8. \A t \in Teams : teamscores'[t] > teamscores[t] => t = f
  BY <1>4 DEF SlotTypeOK
<1> HIDE DEF CaptureFlag, Enemy
<1>9. QED
  BY <1>1, <1>2, <1>3, <1>6, <1>7, <1>8 DEF ScoreStep

(* A new client clears both scores or none.                                *)
LEMMA ClientConnectedScore ==
    ASSUME IInv, NEW p \in Players, ClientConnected(p)
    PROVE  ScoreStep
<1> USE IInvParts
<1>1. CASE Cardinality({q \in Players : team[q] # None}) <= 1
  <2>1. /\ ReturnFlags({m_pFlag[q] : q \in {r \in Players : flagItems[r] # {}}} \ {NoFlag})
        /\ teamscores' = [t \in Teams |-> 0]
    BY <1>1 DEF ClientConnected, ResetTeamScores
  <2>2. \A t \in Teams : ~(teamscores'[t] > teamscores[t])
    BY <2>1 DEF SlotTypeOK
  <2>3. ~gameOver => \A f \in Flags : goalState'[f] # Carried
    BY <2>1, ResetReturnsAll
  <2>4. QED
    BY <2>1, <2>2, <2>3 DEF ScoreStep
<1>2. CASE ~(Cardinality({q \in Players : team[q] # None}) <= 1)
  BY <1>2, SameScore DEF ClientConnected
<1>3. QED
  BY <1>1, <1>2

(* No other operation on a slot touches the scores.                        *)
LEMMA ClientStepScore ==
    ASSUME IInv, NEW p \in Players, ClientStep(p)
    PROVE  ScoreStep
<1>1. CASE ClientConnected(p)
  BY <1>1, ClientConnectedScore
<1>2. CASE ~ClientConnected(p)
  <2>1. teamscores' = teamscores
    BY <1>2 DEF ClientStep, ClientPutInServer, ClientDisconnected, ConnectionLost, Killed,
                Respawn, BecomeSpectator, SelectChar, Displaced, matchVars
  <2>2. QED
    BY <2>1, SameScore
<1>3. QED
  BY <1>1, <1>2

(* Every step moves the scores as ScoreStep allows.                        *)
LEMMA NextScore == ASSUME IInv, Next PROVE ScoreStep
<1>1. ASSUME NEW p \in Players, NEW f \in Flags, Touch(p, f) PROVE ScoreStep
  BY <1>1, CaptureFlagScore, SameScore DEF Touch, TakeFlag, ReturnDroppedFlag, matchVars
<1>2. ASSUME NEW f \in Flags, FlagThink(f) PROVE ScoreStep
  BY <1>2, SameScore
  DEF FlagThink, PlaceItem, FlagCarryThink, goal_item_dropthink, ReturnTimeOver,
      ReturnFlagThink, matchVars
<1>3. ASSUME GoToIntermission PROVE ScoreStep
  BY <1>3, SameScore DEF GoToIntermission
<1>4. QED
  BY <1>1, <1>2, <1>3, ClientStepScore DEF Next, CaptureLimitReached, TimeOrFragLimitReached

(* A team scores only by bringing the enemy flag to its own at its base,   *)
(* and scores fall only to zero, with no flag left in anyone's hands       *)
(* (ScoreFlagTouch, ClientConnected).                                      *)
THEOREM ScoreOnlyByCaptureAlways == Spec => ScoreOnlyByCapture
<1>1. IInv /\ [Next]_vars => [ScoreStep]_vars
  BY NextScore
<1>2. QED
  BY <1>1, IInvAlways, PTL DEF Spec, ScoreOnlyByCapture
-----------------------------------------------------------------------------
(* The refinement.  GameStep is a step of CTFGame under the mapping, with  *)
(* Carrier for the mapped carrier.                                         *)

GameStep == [Game!GameNext]_(Game!gameVars)

(* No flag moves and nobody scores.                                        *)
LEMMA StutterGame ==
    ASSUME IInv, UNCHANGED <<goalState, owner, matchVars>>
    PROVE  GameStep
<1>1. Carrier' = Carrier
  BY DEF Carrier
<1>2. QED
  BY <1>1 DEF GameStep, Game!gameVars, Carrier, matchVars

(* TakeFlag is Take: nobody holds two flags while the game runs.           *)
LEMMA TakeFlagGame ==
    ASSUME IInv, NEW p \in Players, NEW f \in Flags, TakeFlag(p, f)
    PROVE  GameStep
<1> USE IInvParts DEF TakeFlag, Touches, GiveFlagToPlayer
<1>1. goalState[f] # Carried
  BY DEF FlagsOK, FlagMachine
<1>2. ASSUME ~gameOver, NEW g \in Flags PROVE Carrier[g] # p
  <2>1. CASE goalState[g] = Carried /\ owner[g] = p
    <3>1. CarriesInPlay(p, g)
      BY <1>2, <2>1 DEF CarrierInPlay
    <3>2. g = f
      BY <3>1 DEF CarriesInPlay
    <3>3. QED
      BY <1>1, <2>1, <3>2
  <2>2. CASE ~(goalState[g] = Carried /\ owner[g] = p)
    BY <2>2, PlayersAssumption DEF Carrier
  <2>3. QED
    BY <2>1, <2>2
<1>3. goalState' = [goalState EXCEPT ![f] = Carried]
  OBVIOUS
<1>4. Carrier' = [Carrier EXCEPT ![f] = p]
  BY DEF Carrier, FlagsOK, FlagTypeOK
<1>5. UNCHANGED matchVars
  OBVIOUS
<1> HIDE DEF TakeFlag, Touches, GiveFlagToPlayer
<1>6. Game!Take(f, p)
  BY <1>1, <1>2, <1>3, <1>4, <1>5 DEF Game!Take, Carrier, matchVars
<1>7. QED
  BY <1>6 DEF GameStep, Game!GameNext

(* ReturnFlag of one flag, as the game sees it.                            *)
LEMMA ReturnOneFlag ==
    ASSUME IInv, NEW f \in Flags, ReturnFlags({f})
    PROVE  /\ goalState' = [goalState EXCEPT ![f] = AtBase]
           /\ Carrier' = [Carrier EXCEPT ![f] = NoPlayer]
<1> USE IInvParts
<1>1. goalState' = [goalState EXCEPT ![f] = AtBase]
  BY DEF ReturnFlags, FlagsOK, FlagTypeOK
<1>2. owner' = owner
  BY DEF ReturnFlags
<1>3. Carrier' = [Carrier EXCEPT ![f] = NoPlayer]
  <2>1. goalState'[f] = AtBase /\ \A g \in Flags \ {f} : goalState'[g] = goalState[g]
    BY <1>1 DEF FlagsOK, FlagTypeOK
  <2>2. Carrier'[f] = NoPlayer /\ \A g \in Flags \ {f} : Carrier'[g] = Carrier[g]
    BY <1>2, <2>1 DEF Carrier
  <2>3. Carrier \in [Flags -> Players \cup {NoPlayer}]
    BY DEF Carrier, FlagsOK, FlagTypeOK
  <2>4. Carrier' = [g \in Flags |-> Carrier'[g]]
    BY DEF Carrier
  <2>5. QED
    BY <2>2, <2>3, <2>4
<1>4. QED
  BY <1>1, <1>3

(* A flag on the ground that goes home is Return.                          *)
LEMMA ReturnDropped ==
    ASSUME IInv, NEW f \in Flags, ReturnFlags({f}), goalState[f] = Dropped, UNCHANGED matchVars
    PROVE  GameStep
<1>1. Carrier' = Carrier
  <2>1. Carrier[f] = NoPlayer /\ Carrier = [g \in Flags |-> Carrier[g]]
    BY DEF Carrier
  <2>2. Carrier' = [Carrier EXCEPT ![f] = NoPlayer]
    BY ReturnOneFlag
  <2>3. QED
    BY <2>1, <2>2
<1>2. Game!Return(f)
  BY <1>1, ReturnOneFlag DEF Game!Return, Carrier, matchVars
<1>3. QED
  BY <1>2 DEF GameStep, Game!GameNext

(* CaptureFlag is Capture of the enemy flag.                               *)
LEMMA CaptureFlagGame ==
    ASSUME IInv, NEW p \in Players, NEW f \in Flags, CaptureFlag(p, f)
    PROVE  GameStep
<1> DEFINE g == Enemy(f)
<1>1. goalState[g] = Carried /\ ReturnFlags({g})
  BY CapturedFlag
<1>2. /\ goalState[f] = AtBase
      /\ teamscores' = [teamscores EXCEPT ![f] = @ + 1]
      /\ gameOver' = gameOver
  BY DEF CaptureFlag
<1>3. g \in Flags /\ Enemy(g) = f
  OBVIOUS
<1>4. Game!Capture(g)
  BY <1>1, <1>2, <1>3, ReturnOneFlag DEF Game!Capture, Carrier
<1>5. QED
  BY <1>3, <1>4 DEF GameStep, Game!GameNext

(* A think is Return or nothing or, after the game, Abandon.               *)
LEMMA FlagThinkGame ==
    ASSUME IInv, NEW f \in Flags, FlagThink(f)
    PROVE  GameStep
<1> USE IInvParts
<1>1. CASE PlaceItem(f) \/ ReturnFlagThink(f)
  BY <1>1, StutterGame DEF PlaceItem, ReturnFlagThink
<1>2. CASE FlagCarryThink(f)
  <2>1. CASE owner[f] # NoPlayer /\ flagItems[owner[f]] # {}
    BY <1>2, <2>1, StutterGame DEF FlagCarryThink, flagVars
  <2>2. CASE ~(owner[f] # NoPlayer /\ flagItems[owner[f]] # {})
    <3>1. goalState[f] = Carried /\ owner[f] \in Players
      BY <1>2 DEF FlagCarryThink, FlagsOK, FlagTypeOK, FlagMachine
    <3>2. gameOver
      BY <2>2, <3>1, PlayersAssumption DEF CarrierInPlay, CarriesInPlay
    <3>3. Game!Abandon(f)
      BY <1>2, <2>2, <3>1, <3>2, ReturnOneFlag
      DEF Game!Abandon, FlagCarryThink, ReturnFlag, Carrier, matchVars
    <3>4. QED
      BY <3>3 DEF GameStep, Game!GameNext
  <2>3. QED
    BY <2>1, <2>2
<1>3. CASE goal_item_dropthink(f) \/ ReturnTimeOver(f)
  <2>1. goalState[f] = Dropped /\ UNCHANGED matchVars
    BY <1>3 DEF goal_item_dropthink, ReturnTimeOver, FlagsOK, FlagTypeOK, FlagMachine
  <2>2. ReturnFlags({f}) \/ UNCHANGED <<goalState, owner>>
    BY <1>3 DEF goal_item_dropthink, ReturnTimeOver, ReturnFlag
  <2>3. QED
    BY <2>1, <2>2, ReturnDropped, StutterGame
<1>4. QED
  BY <1>1, <1>2, <1>3 DEF FlagThink

(* DropFlag is Drop of the flag its player carries.                        *)
LEMMA DropFlagGame ==
    ASSUME IInv, NEW p \in Players, m_pFlag[p] # NoFlag, DropFlag(m_pFlag[p], p),
           UNCHANGED matchVars
    PROVE  GameStep
<1>0. PICK f : f = m_pFlag[p]
  OBVIOUS
<1> USE IInvParts, <1>0
<1>1. f \in Flags /\ goalState[f] = Carried
  BY DEF FlagsOK, FlagTypeOK, CarrierKnown
<1>2. goalState' = [goalState EXCEPT ![f] = Dropped]
  BY DEF DropFlag
<1>3. Carrier' = [Carrier EXCEPT ![f] = NoPlayer]
  BY <1>1 DEF DropFlag, Carrier, FlagsOK, FlagTypeOK
<1>4. Game!Drop(f)
  BY <1>1, <1>2, <1>3 DEF Game!Drop, Carrier, matchVars
<1>5. QED
  BY <1>1, <1>4 DEF GameStep, Game!GameNext

(* DropCarriedFlag is that, or nothing.                                    *)
LEMMA DropCarriedFlagGame ==
    ASSUME IInv, NEW p \in Players, DropCarriedFlag(p), UNCHANGED matchVars
    PROVE  GameStep
  BY DropFlagGame, StutterGame DEF DropCarriedFlag, flagVars

(* ClientConnected is StartOver, or nothing.                               *)
LEMMA ClientConnectedGame ==
    ASSUME IInv, NEW p \in Players, ClientConnected(p)
    PROVE  GameStep
<1> USE IInvParts
<1> DEFINE S == {m_pFlag[q] : q \in {r \in Players : flagItems[r] # {}}} \ {NoFlag}
<1>1. CASE Cardinality({q \in Players : team[q] # None}) <= 1
  <2>1. ReturnFlags(S) /\ teamscores' = [t \in Teams |-> 0] /\ gameOver' = gameOver
    BY <1>1 DEF ClientConnected, ResetTeamScores
  <2>2. S \in SUBSET Flags /\ \A f \in S : goalState[f] = Carried
    BY DEF FlagsOK, FlagTypeOK, CarrierKnown
  <2>3. goalState' = [f \in Flags |-> IF f \in S THEN AtBase ELSE goalState[f]]
    BY <2>1 DEF ReturnFlags
  <2>4. Carrier' = [f \in Flags |-> IF f \in S THEN NoPlayer ELSE Carrier[f]]
    BY <2>1, <2>3 DEF ReturnFlags, Carrier
  <2>5. ~gameOver => \A f \in Flags \ S : goalState[f] # Carried
    <3>1. ~gameOver => \A f \in Flags : goalState'[f] # Carried
      BY <2>1, ResetReturnsAll
    <3>2. QED
      BY <2>3, <3>1
  <2> HIDE DEF S
  <2>6. Game!StartOver
    BY <2>1, <2>2, <2>3, <2>4, <2>5 DEF Game!StartOver, Carrier
  <2>7. QED
    BY <2>6 DEF GameStep, Game!GameNext
<1>2. CASE ~(Cardinality({q \in Players : team[q] # None}) <= 1)
  BY <1>2, StutterGame DEF ClientConnected, flagVars, matchVars
<1>3. QED
  BY <1>1, <1>2

(* Every operation on a client slot is a step of the game or none.         *)
LEMMA ClientStepGame ==
    ASSUME IInv, NEW p \in Players, ClientStep(p)
    PROVE  GameStep
<1>1. CASE ClientConnected(p)
  BY <1>1, ClientConnectedGame
<1>2. CASE ClientPutInServer(p) \/ ConnectionLost(p) \/ Respawn(p)
  BY <1>2, StutterGame DEF ClientPutInServer, ConnectionLost, Respawn, flagVars
<1>3. CASE ClientDisconnected(p) \/ Killed(p) \/ BecomeSpectator(p)
  BY <1>3, DropCarriedFlagGame DEF ClientDisconnected, Killed, BecomeSpectator
<1>4. ASSUME NEW t \in Teams, SelectChar(p, t) PROVE GameStep
  <2>1. UNCHANGED matchVars /\ (DropCarriedFlag(p) \/ UNCHANGED flagVars)
    BY <1>4 DEF SelectChar
  <2>2. QED
    BY <2>1, DropCarriedFlagGame, StutterGame DEF flagVars
<1>5. CASE Displaced(p)
  BY <1>5, DropFlagGame DEF Displaced
<1>6. QED
  BY <1>1, <1>2, <1>3, <1>4, <1>5 DEF ClientStep

(* The intermission is Finish.                                             *)
LEMMA GoToIntermissionGame == ASSUME IInv, GoToIntermission PROVE GameStep
<1>1. Game!Finish
  BY DEF GoToIntermission, Game!Finish, Carrier, flagVars
<1>2. QED
  BY <1>1 DEF GameStep, Game!GameNext

(* Every step is a step of the game or none.                               *)
LEMMA NextGame == ASSUME IInv, [Next]_vars PROVE GameStep
<1>1. ASSUME NEW p \in Players, NEW f \in Flags, Touch(p, f) PROVE GameStep
  <2>1. CASE ReturnDroppedFlag(p, f)
    BY <2>1, IInvParts, ReturnDropped
    DEF ReturnDroppedFlag, Touches, ReturnFlag, FlagsOK, FlagTypeOK, FlagMachine
  <2>2. QED
    BY <1>1, <2>1, TakeFlagGame, CaptureFlagGame DEF Touch
<1>2. CASE UNCHANGED vars
  BY <1>2, StutterGame DEF vars, flagVars
<1>3. QED
  BY <1>1, <1>2, FlagThinkGame, ClientStepGame, GoToIntermissionGame
  DEF Next, CaptureLimitReached, TimeOrFragLimitReached

(* The flag entities, the player slots and the rules together play the     *)
(* game CTFGame describes.                                                 *)
THEOREM ImplementsGame == Spec => CTFFlagsRefinement
<1>1. Init => Game!GameInit
  BY DEF Init, Game!GameInit
<1>2. IInv /\ [Next]_vars => [Game!GameNext]_(Game!gameVars)
  BY NextGame DEF GameStep
<1>3. QED
  BY <1>1, <1>2, IInvAlways, PTL DEF Spec, CTFFlagsRefinement, Game!GameSpec

=============================================================================
