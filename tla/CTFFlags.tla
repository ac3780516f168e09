------------------------------ MODULE CTFFlags ------------------------------
(***************************************************************************)
(* The flag game of the Opposing Force "Capture The Flag" mode: the two    *)
(* flag entities (ctf_goals.cpp), the player slots they are carried by     *)
(* (client.cpp, player.cpp) and the rules that join them                   *)
(* (CHalfLifeCTFplay.cpp).                                                 *)
(*                                                                         *)
(* Everything runs on the server's main thread, one engine callback at a   *)
(* time, so one callback is one action; what interleaves is the order in   *)
(* which the engine delivers touches, thinks, client commands, damage,     *)
(* connections and disconnections.                                         *)
(*                                                                         *)
(* A flag's goal number is the number of the team it belongs to, so a flag *)
(* is named by its team.  Left out: the points of single players (no other *)
(* code reads them but the statistics screen), messages, sounds, models,   *)
(* positions.  A think is due at some later frame; when, is left open.     *)
(***************************************************************************)
EXTENDS Naturals, FiniteSets

CONSTANTS
    Players,       \* the client slots 1..maxClients
    NoPlayer,      \* a null pev->owner
    CaptureLimit,  \* min(mp_ctf_capture or 255, g_iMapScoreMax)
    ScoreBound     \* bound of the model on a team's score

ASSUME PlayersAssumption == /\ NoPlayer \notin Players
                            /\ IsFiniteSet(Players)
ASSUME LimitAssumption == /\ CaptureLimit \in Nat \ {0}
                          /\ ScoreBound \in Nat \ {0}

None == 0                    \* CTFTeam::None
Teams == {1, 2}              \* CTFTeam::BlackMesa, CTFTeam::OpposingForce
Flags == Teams               \* CTFGoalFlag, by m_iGoalNum
NoFlag == 0                  \* a null m_pFlag
Enemy(t) == 3 - t

AtBase == 1                  \* the three values of m_iGoalState
Carried == 2
Dropped == 3

Thinks == {"none", "PlaceItem", "FlagCarryThink", "goal_item_dropthink",
           "ReturnFlag", "ReturnFlagThink"}

VARIABLES
    (* the engine's view of a client slot *)
    client,      \* "free", "connected" (not yet in the game) or "active"
    (* CBasePlayer *)
    team,        \* m_iTeamNum
    observer,    \* pev->iuser1 # 0
    alive,       \* pev->health > 0
    solid,       \* pev->solid # SOLID_NOT
    m_pFlag,     \* the flag the player carries
    flagItems,   \* the flag bits of m_iItems, as the set of their flags
    (* CTFGoalFlag *)
    goalState,   \* m_iGoalState
    owner,       \* pev->owner
    touchable,   \* the touch function is goal_item_touch, not null
    think,       \* the think function that is due
    (* CHalfLifeCTFplay.cpp *)
    teamscores,
    gameOver     \* g_fGameOver

playerVars == <<client, team, observer, alive, solid>>
carryVars == <<m_pFlag, flagItems>>
flagVars == <<goalState, owner, touchable, think>>
matchVars == <<teamscores, gameOver>>
vars == <<playerVars, carryVars, flagVars, matchVars>>

TypeOK ==
    /\ client \in [Players -> {"free", "connected", "active"}]
    /\ team \in [Players -> Teams \cup {None}]
    /\ observer \in [Players -> BOOLEAN]
    /\ alive \in [Players -> BOOLEAN]
    /\ solid \in [Players -> BOOLEAN]
    /\ m_pFlag \in [Players -> Flags \cup {NoFlag}]
    /\ flagItems \in [Players -> SUBSET Flags]
    /\ goalState \in [Flags -> {AtBase, Carried, Dropped}]
    /\ owner \in [Flags -> Players \cup {NoPlayer}]
    /\ touchable \in [Flags -> BOOLEAN]
    /\ think \in [Flags -> Thinks]
    /\ teamscores \in [Teams -> Nat]
    /\ gameOver \in BOOLEAN

(* The map has just been loaded: CTFGoalFlag::Spawn ran, every slot is free. *)
Init ==
    /\ client = [p \in Players |-> "free"]
    /\ team = [p \in Players |-> None]
    /\ observer = [p \in Players |-> FALSE]
    /\ alive = [p \in Players |-> FALSE]
    /\ solid = [p \in Players |-> FALSE]
    /\ m_pFlag = [p \in Players |-> NoFlag]
    /\ flagItems = [p \in Players |-> {}]
    /\ goalState = [f \in Flags |-> AtBase]
    /\ owner = [f \in Flags |-> NoPlayer]
    /\ touchable = [f \in Flags |-> TRUE]
    /\ think = [f \in Flags |-> "PlaceItem"]
    /\ teamscores = [t \in Teams |-> 0]
    /\ gameOver = FALSE

-----------------------------------------------------------------------------
(* CTFGoalFlag: the member functions the handlers below call.              *)

(* Mutant: the returned flag keeps the think it had.                       *)
ReturnFlagsSameThink(S) ==
    LET owners == {owner[f] : f \in S}
    IN  /\ m_pFlag' = [p \in Players |-> IF p \in owners THEN NoFlag ELSE m_pFlag[p]]
        /\ flagItems' = [p \in Players |-> IF p \in owners THEN {} ELSE flagItems[p]]
        /\ touchable' = [f \in Flags |-> IF f \in S THEN FALSE ELSE touchable[f]]
        /\ goalState' = [f \in Flags |-> IF f \in S THEN AtBase ELSE goalState[f]]
        /\ UNCHANGED <<think, owner>>

(* ReturnFlag for each flag of S.  pev->owner is left as it was, and both  *)
(* flag bits of that owner are cleared.                                    *)
ReturnFlags(S) ==
    LET owners == {owner[f] : f \in S}
    IN  /\ m_pFlag' = [p \in Players |-> IF p \in owners THEN NoFlag ELSE m_pFlag[p]]
        /\ flagItems' = [p \in Players |-> IF p \in owners THEN {} ELSE flagItems[p]]
        /\ touchable' = [f \in Flags |-> IF f \in S THEN FALSE ELSE touchable[f]]
        /\ goalState' = [f \in Flags |-> IF f \in S THEN AtBase ELSE goalState[f]]
        /\ think' = [f \in Flags |-> IF f \in S THEN "ReturnFlagThink" ELSE think[f]]
        /\ owner' = owner

ReturnFlag(f) == ReturnFlags({f})

GiveFlagToPlayer(f, p) ==
    /\ m_pFlag' = [m_pFlag EXCEPT ![p] = f]
    /\ flagItems' = [flagItems EXCEPT ![p] = @ \cup {f}]
    /\ touchable' = [touchable EXCEPT ![f] = FALSE]
    /\ owner' = [owner EXCEPT ![f] = p]
    /\ goalState' = [goalState EXCEPT ![f] = Carried]
    /\ think' = [think EXCEPT ![f] = "FlagCarryThink"]

(* Mutant: the player keeps the flag bits of m_iItems.                     *)
DropFlagKeepItems(f, p) ==
    /\ m_pFlag' = [m_pFlag EXCEPT ![p] = NoFlag]
    /\ owner' = [owner EXCEPT ![f] = NoPlayer]
    /\ touchable' = [touchable EXCEPT ![f] = TRUE]
    /\ think' = [think EXCEPT ![f] = "goal_item_dropthink"]
    /\ goalState' = [goalState EXCEPT ![f] = Dropped]
    /\ UNCHANGED flagItems

(* DropFlag and the DoDrop it calls: f lands where p is.                   *)
DropFlag(f, p) ==
    /\ m_pFlag' = [m_pFlag EXCEPT ![p] = NoFlag]
    /\ flagItems' = [flagItems EXCEPT ![p] = {}]
    /\ owner' = [owner EXCEPT ![f] = NoPlayer]
    /\ touchable' = [touchable EXCEPT ![f] = TRUE]
    /\ think' = [think EXCEPT ![f] = "goal_item_dropthink"]
    /\ goalState' = [goalState EXCEPT ![f] = Dropped]

(* The "if (m_pFlag) m_pFlag->DropFlag(player)" that every handler taking  *)
(* a player out of play begins or ends with, skipped once the game is over.*)
DropCarriedFlag(p) ==
    IF m_pFlag[p] # NoFlag /\ ~gameOver
      THEN DropFlag(m_pFlag[p], p)
      ELSE UNCHANGED <<carryVars, flagVars>>

ResetTeamScores == teamscores' = [t \in Teams |-> 0]

CheckForLevelEnd == \E t \in Teams : teamscores[t] >= CaptureLimit

-----------------------------------------------------------------------------
(* goal_item_touch, which the engine calls for a solid player of a client  *)
(* in the game that overlaps the flag.                                     *)

Touches(p, f) ==
    /\ client[p] = "active" /\ solid[p]
    /\ touchable[f]
    /\ alive[p]

TakeFlag(p, f) ==
    /\ Touches(p, f)
    /\ team[p] # f
    /\ GiveFlagToPlayer(f, p)
    /\ UNCHANGED <<playerVars, matchVars>>

(* Mutant: the own flag need not be at its base.                           *)
CaptureFlagAnywhere(p, f) ==
    /\ Touches(p, f)
    /\ team[p] = f
    /\ flagItems[p] # {}
    /\ teamscores[f] < ScoreBound
    /\ IF m_pFlag[p] # NoFlag
         THEN ReturnFlag(m_pFlag[p])
         ELSE UNCHANGED <<carryVars, flagVars>>
    /\ teamscores' = [teamscores EXCEPT ![team[p]] = @ + 1]
    /\ UNCHANGED <<playerVars, gameOver>>

(* f is at its base and p carries a flag home to it.                       *)
CaptureFlag(p, f) ==
    /\ Touches(p, f)
    /\ team[p] = f
    /\ goalState[f] = AtBase
    /\ flagItems[p] # {}
    /\ teamscores[f] < ScoreBound
    /\ IF m_pFlag[p] # NoFlag
         THEN ReturnFlag(m_pFlag[p])
         ELSE UNCHANGED <<carryVars, flagVars>>
    /\ teamscores' = [teamscores EXCEPT ![team[p]] = @ + 1]
    /\ UNCHANGED <<playerVars, gameOver>>

ReturnDroppedFlag(p, f) ==
    /\ Touches(p, f)
    /\ team[p] = f
    /\ goalState[f] # AtBase
    /\ ReturnFlag(f)
    /\ UNCHANGED <<playerVars, matchVars>>

-----------------------------------------------------------------------------
(* The thinks of a flag.                                                   *)

PlaceItem(f) ==
    /\ think[f] = "PlaceItem"
    /\ think' = [think EXCEPT ![f] = "none"]
    /\ UNCHANGED <<playerVars, carryVars, goalState, owner, touchable, matchVars>>

(* Re-armed every 20 seconds while the owner has a flag bit.               *)
FlagCarryThink(f) ==
    /\ think[f] = "FlagCarryThink"
    /\ IF owner[f] # NoPlayer /\ flagItems[owner[f]] # {}
         THEN UNCHANGED <<carryVars, flagVars>>
         ELSE ReturnFlag(f)
    /\ UNCHANGED <<playerVars, matchVars>>

(* Mutant: the return is never scheduled.                                  *)
goal_item_dropthinkOnce(f) ==
    /\ think[f] = "goal_item_dropthink"
    /\ \/ ReturnFlag(f)
       \/ /\ think' = [think EXCEPT ![f] = "none"]
          /\ UNCHANGED <<carryVars, goalState, owner, touchable>>
    /\ UNCHANGED <<playerVars, matchVars>>

(* Five seconds after the drop: a flag in lava, slime, sky or a wall goes  *)
(* home at once, any other waits for g_flFlagReturnTime.                   *)
goal_item_dropthink(f) ==
    /\ think[f] = "goal_item_dropthink"
    /\ \/ ReturnFlag(f)
       \/ /\ think' = [think EXCEPT ![f] = "ReturnFlag"]
          /\ UNCHANGED <<carryVars, goalState, owner, touchable>>
    /\ UNCHANGED <<playerVars, matchVars>>

ReturnTimeOver(f) ==
    /\ think[f] = "ReturnFlag"
    /\ ReturnFlag(f)
    /\ UNCHANGED <<playerVars, matchVars>>

(* Mutant: the touch function is not set again.                            *)
ReturnFlagThinkNoTouch(f) ==
    /\ think[f] = "ReturnFlagThink"
    /\ think' = [think EXCEPT ![f] = "none"]
    /\ UNCHANGED <<playerVars, carryVars, goalState, owner, touchable, matchVars>>

ReturnFlagThink(f) ==
    /\ think[f] = "ReturnFlagThink"
    /\ think' = [think EXCEPT ![f] = "none"]
    /\ touchable' = [touchable EXCEPT ![f] = TRUE]
    /\ UNCHANGED <<playerVars, carryVars, goalState, owner, matchVars>>

-----------------------------------------------------------------------------
(* Clients coming and going.                                               *)

(* Mutant: the scores start over, the flags stay in their carriers' hands. *)
ClientConnectedKeepFlags(p) ==
    /\ client[p] = "free"
    /\ client' = [client EXCEPT ![p] = "connected"]
    /\ IF Cardinality({q \in Players : team[q] # None}) <= 1
         THEN ResetTeamScores
         ELSE UNCHANGED teamscores
    /\ UNCHANGED <<team, observer, alive, solid, carryVars, flagVars, gameOver>>

(* With at most one player in a team the game starts over: every carried   *)
(* flag goes home and the scores are cleared.                              *)
ClientConnected(p) ==
    /\ client[p] = "free"
    /\ client' = [client EXCEPT ![p] = "connected"]
    /\ IF Cardinality({q \in Players : team[q] # None}) <= 1
         THEN /\ ReturnFlags({m_pFlag[q] : q \in {r \in Players : flagItems[r] # {}}} \ {NoFlag})
              /\ ResetTeamScores
         ELSE UNCHANGED <<carryVars, flagVars, teamscores>>
    /\ UNCHANGED <<team, observer, alive, solid, gameOver>>

(* A new CBasePlayer in the slot; without a team it spawns as an observer. *)
ClientPutInServer(p) ==
    /\ client[p] = "connected"
    /\ client' = [client EXCEPT ![p] = "active"]
    /\ team' = [team EXCEPT ![p] = None]
    /\ observer' = [observer EXCEPT ![p] = TRUE]
    /\ alive' = [alive EXCEPT ![p] = TRUE]
    /\ solid' = [solid EXCEPT ![p] = FALSE]
    /\ m_pFlag' = [m_pFlag EXCEPT ![p] = NoFlag]
    /\ flagItems' = [flagItems EXCEPT ![p] = {}]
    /\ UNCHANGED <<flagVars, matchVars>>

(* ClientDisconnect: after the game nothing is done but freeing the slot.  *)
ClientDisconnected(p) ==
    /\ client[p] = "active"
    /\ client' = [client EXCEPT ![p] = "free"]
    /\ IF gameOver
         THEN UNCHANGED <<team, solid>>
         ELSE /\ solid' = [solid EXCEPT ![p] = FALSE]
              /\ team' = [team EXCEPT ![p] = None]
    /\ DropCarriedFlag(p)
    /\ UNCHANGED <<observer, alive, matchVars>>

(* A client that gives up before it is in the game; the DLL is not told.   *)
ConnectionLost(p) ==
    /\ client[p] = "connected"
    /\ client' = [client EXCEPT ![p] = "free"]
    /\ UNCHANGED <<team, observer, alive, solid, carryVars, flagVars, matchVars>>

-----------------------------------------------------------------------------
(* Death, respawn, spectating and joining a team.                          *)

InPlay(p) == client[p] = "active" /\ ~observer[p]

(* CBasePlayer::Killed and PlayerKilled, by damage or by the "kill"        *)
(* command, which a dead player may give too.  A gibbed body is not solid. *)
Killed(p) ==
    /\ InPlay(p)
    /\ alive' = [alive EXCEPT ![p] = FALSE]
    /\ \E gibbed \in BOOLEAN : solid' = [solid EXCEPT ![p] = @ /\ ~gibbed]
    /\ DropCarriedFlag(p)
    /\ UNCHANGED <<client, team, observer, matchVars>>

(* PlayerDeathThink, which PreThink does not reach once the game is over.  *)
Respawn(p) ==
    /\ InPlay(p)
    /\ ~alive[p] /\ ~gameOver
    /\ alive' = [alive EXCEPT ![p] = TRUE]
    /\ solid' = [solid EXCEPT ![p] = TRUE]
    /\ UNCHANGED <<client, team, observer, carryVars, flagVars, matchVars>>

(* Mutant: a player who leaves to spectate keeps the flag.                 *)
BecomeSpectatorWithFlag(p) ==
    /\ client[p] = "active"
    /\ alive' = [alive EXCEPT ![p] = TRUE]
    /\ solid' = [solid EXCEPT ![p] = FALSE]
    /\ team' = [team EXCEPT ![p] = None]
    /\ observer' = [observer EXCEPT ![p] = TRUE]
    /\ UNCHANGED <<client, carryVars, flagVars, matchVars>>

(* Menu_Team_Input(-1): ChangePlayerTeam without a character.  A dead      *)
(* player is respawned first.                                              *)
BecomeSpectator(p) ==
    /\ client[p] = "active"
    /\ alive' = [alive EXCEPT ![p] = TRUE]
    /\ solid' = [solid EXCEPT ![p] = FALSE]
    /\ team' = [team EXCEPT ![p] = None]
    /\ observer' = [observer EXCEPT ![p] = TRUE]
    /\ DropCarriedFlag(p)
    /\ UNCHANGED <<client, matchVars>>

(* Menu_Char_Input with a character of team t: a player in play who leaves *)
(* another team is killed and gibbed, an observer is put into play.        *)
SelectChar(p, t) ==
    /\ client[p] = "active"
    /\ team' = [team EXCEPT ![p] = t]
    /\ IF ~observer[p] /\ team[p] # t
         THEN /\ DropCarriedFlag(p)
              /\ alive' = [alive EXCEPT ![p] = FALSE]
              /\ solid' = [solid EXCEPT ![p] = @ /\ ~alive[p]]
         ELSE /\ UNCHANGED <<carryVars, flagVars, alive>>
              /\ solid' = [solid EXCEPT ![p] = @ \/ observer[p]]
    /\ observer' = [observer EXCEPT ![p] = FALSE]
    /\ UNCHANGED <<client, matchVars>>

(* The displacer teleports p away from the flag, after the game too.       *)
Displaced(p) ==
    /\ InPlay(p)
    /\ m_pFlag[p] # NoFlag
    /\ DropFlag(m_pFlag[p], p)
    /\ UNCHANGED <<playerVars, matchVars>>

(* CHalfLifeCTFplay::Think: the capture limit, or the time or frag limit,  *)
(* ends the game.                                                          *)
GoToIntermission ==
    /\ ~gameOver
    /\ gameOver' = TRUE
    /\ UNCHANGED <<playerVars, carryVars, flagVars, teamscores>>

CaptureLimitReached == CheckForLevelEnd /\ GoToIntermission

TimeOrFragLimitReached == GoToIntermission

-----------------------------------------------------------------------------
Touch(p, f) == TakeFlag(p, f) \/ CaptureFlag(p, f) \/ ReturnDroppedFlag(p, f)

FlagThink(f) ==
    \/ PlaceItem(f)
    \/ FlagCarryThink(f)
    \/ goal_item_dropthink(f)
    \/ ReturnTimeOver(f)
    \/ ReturnFlagThink(f)

ClientStep(p) ==
    \/ ClientConnected(p)
    \/ ClientPutInServer(p)
    \/ ClientDisconnected(p)
    \/ ConnectionLost(p)
    \/ Killed(p)
    \/ Respawn(p)
    \/ BecomeSpectator(p)
    \/ \E t \in Teams : SelectChar(p, t)
    \/ Displaced(p)

Next ==
    \/ \E p \in Players, f \in Flags : Touch(p, f)
    \/ \E f \in Flags : FlagThink(f)
    \/ \E p \in Players : ClientStep(p)
    \/ CaptureLimitReached
    \/ TimeOrFragLimitReached

Spec == Init /\ [][Next]_vars

(* The engine runs the think of an entity once its nextthink has come.     *)
FairSpec == Spec /\ \A f \in Flags : WF_vars(FlagThink(f))
-----------------------------------------------------------------------------
(* Safety.                                                                 *)

(* A flag's state, touch and think functions and owner always fit: a       *)
(* carried flag cannot be touched and looks after its carrier, a dropped   *)
(* one can be touched and is on its way home, one at its base is touchable *)
(* or about to be.  So no handler leaves a flag nobody can ever get.       *)
(* (ctf_goals.cpp: every SetTouch and SetThink.)                           *)
FlagMachine ==
    \A f \in Flags :
        /\ goalState[f] = Carried =>
             ~touchable[f] /\ think[f] = "FlagCarryThink" /\ owner[f] \in Players
        /\ goalState[f] = Dropped =>
             /\ touchable[f] /\ owner[f] = NoPlayer
             /\ think[f] \in {"goal_item_dropthink", "ReturnFlag"}
        /\ goalState[f] = AtBase =>
             IF touchable[f] THEN think[f] \in {"none", "PlaceItem"}
                             ELSE think[f] = "ReturnFlagThink"

(* m_pFlag and the flag bits of m_iItems agree, and m_pFlag never points   *)
(* at a flag that has left the player, in the intermission either.         *)
CarrierKnown ==
    \A p \in Players :
        /\ flagItems[p] = {} <=> m_pFlag[p] = NoFlag
        /\ m_pFlag[p] # NoFlag => /\ goalState[m_pFlag[p]] = Carried
                                  /\ owner[m_pFlag[p]] = p

(* p carries f, and only f, as a living, solid player of the other team.   *)
CarriesInPlay(p, f) ==
    /\ m_pFlag[p] = f /\ flagItems[p] = {f}
    /\ client[p] = "active" /\ ~observer[p] /\ alive[p] /\ solid[p]
    /\ team[p] = Enemy(f)

(* While the game runs the carrier of a flag holds exactly that flag, and  *)
(* is a living, solid player of the other team in the game: dying,         *)
(* spectating, changing teams and leaving all let go of the flag (the      *)
(* callers of DropFlag, and "Fixed spectators being able to choose         *)
(* characters and subsequently interact with flags" of the changelog).     *)
CarrierInPlay ==
    ~gameOver => \A f \in Flags : goalState[f] = Carried => CarriesInPlay(owner[f], f)

(* A player the engine lets touch things is in a team, so goal_item_touch  *)
(* never hands a flag to a spectator, whose team number is no flag's; and  *)
(* a free slot is in no team, so it never counts in ClientConnected.       *)
TeamsAndSlots ==
    \A p \in Players :
        /\ client[p] = "active" => (observer[p] <=> team[p] = None)
        /\ client[p] = "active" /\ observer[p] => ~solid[p]
        /\ ~gameOver /\ client[p] # "active" => team[p] = None /\ m_pFlag[p] = NoFlag

-----------------------------------------------------------------------------
(* Action properties.                                                      *)

(* A team's score rises by one, only when its player brings the enemy flag *)
(* home while the own flag is at its base, and falls only to zero, for     *)
(* both teams at once and with no flag left in anyone's hands.             *)
(* (ScoreFlagTouch, ClientConnected.)                                      *)
ScoreStep ==
    \A t \in Teams :
        /\ teamscores'[t] > teamscores[t] =>
             /\ teamscores' = [teamscores EXCEPT ![t] = @ + 1]
             /\ goalState[t] = AtBase /\ goalState'[t] = AtBase
             /\ goalState[Enemy(t)] = Carried /\ goalState'[Enemy(t)] = AtBase
             /\ team[owner[Enemy(t)]] = t
        /\ teamscores'[t] < teamscores[t] =>
             /\ \A u \in Teams : teamscores'[u] = 0
             /\ ~gameOver => \A f \in Flags : goalState'[f] # Carried

ScoreOnlyByCapture == [][ScoreStep]_vars

-----------------------------------------------------------------------------
(* Liveness, under FairSpec.                                               *)

Lost(f) ==
    \/ goalState[f] = Dropped
    \/ goalState[f] = Carried /\ flagItems[owner[f]] = {}

(* A flag is not lost for good: one that was dropped is taken or goes home *)
(* (goal_item_dropthink, then ReturnFlag), and so does one whose carrier   *)
(* left after the game without dropping it (FlagCarryThink).               *)
LostFlagLeaves == \A f \in Flags : []<>~Lost(f)

(* A flag that was returned can be touched again (ReturnFlagThink).        *)
ReturnedFlagTouchable ==
    \A f \in Flags : []<>(touchable[f] \/ goalState[f] # AtBase)

-----------------------------------------------------------------------------
(* The flag game as CTFGame describes it.  pev->owner keeps its last value *)
(* when a flag goes home, so only a carried flag's owner is its carrier.   *)
Game == INSTANCE CTFGame WITH
            place <- goalState,
            carrier <- [f \in Flags |-> IF goalState[f] = Carried THEN owner[f] ELSE NoPlayer],
            score <- teamscores,
            over <- gameOver

CTFFlagsRefinement == Game!GameSpec
=============================================================================
