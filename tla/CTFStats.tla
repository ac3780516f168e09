------------------------------ MODULE CTFStats ------------------------------
(***************************************************************************)
(* The end of a Capture The Flag game: CHalfLifeCTFplay::Think sends the   *)
(* statistics in phases, one every 0.2 seconds, and then opens the menu    *)
(* that shows them.  Meanwhile clients come, a game_end entity may end the *)
(* game again, and a button may end the intermission.  A client that       *)
(* leaves changes nothing here: its player object stays until the level    *)
(* ends (client.cpp:87), and its statistics are sent like any other's.     *)
(*                                                                         *)
(* Left out: the numbers sent, and which frames are 0.2 seconds apart.     *)
(***************************************************************************)
EXTENDS Integers, FiniteSets

CONSTANTS
    MaxClients,   \* gpGlobals->maxClients
    MaxGameEnds   \* bound of the model on the uses of game_end in a level

ASSUME ClientsAssumption == MaxClients \in Nat \ {0}
ASSUME BoundsAssumption == MaxGameEnds \in Nat

Indices == 1..MaxClients

Phases == {"Nothing", "SendTeam0", "SendTeam1", "SendTeam2", "SendPlayers", "OpenMenu"}

VARIABLES
    players,        \* the indices UTIL_PlayerByIndex finds a player for
    gameOver,       \* g_fGameOver
    gameEnds,       \* how often game_end was used
    m_iStatsPhase,
    m_iStatsPlayer,
    (* history *)
    present,        \* the players there when the statistics began
    sent            \* the players whose statistics were sent

statsVars == <<m_iStatsPhase, m_iStatsPlayer>>
vars == <<players, gameOver, gameEnds, statsVars, present, sent>>

TypeOK ==
    /\ players \subseteq Indices
    /\ gameOver \in BOOLEAN
    /\ gameEnds \in 0..MaxGameEnds
    /\ m_iStatsPhase \in Phases
    /\ m_iStatsPlayer \in Indices
    /\ present \subseteq players
    /\ sent \subseteq Indices

(* A level begins: the clients connect again.                              *)
NewRules ==
    /\ players' = {}
    /\ gameOver' = FALSE
    /\ gameEnds' = 0
    /\ m_iStatsPhase' = "Nothing"
    /\ m_iStatsPlayer' = 1
    /\ present' = {}
    /\ sent' = {}

Init ==
    /\ players = {}
    /\ gameOver = FALSE
    /\ gameEnds = 0
    /\ m_iStatsPhase = "Nothing"
    /\ m_iStatsPlayer = 1
    /\ present = {}
    /\ sent = {}

-----------------------------------------------------------------------------
Join(i) ==
    /\ i \notin players
    /\ players' = players \cup {i}
    /\ UNCHANGED <<gameOver, gameEnds, statsVars, present, sent>>

(* Mutant: the statistics go on with the player they had come to.          *)
BeginStatsSamePlayer ==
    /\ m_iStatsPhase' = "SendTeam0"
    /\ gameOver' = TRUE
    /\ present' = players
    /\ sent' = {}
    /\ UNCHANGED <<players, m_iStatsPlayer>>

(* CHalfLifeCTFplay::GoToIntermission begins the statistics whether or not *)
(* the intermission has begun already.                                     *)
BeginStats ==
    /\ m_iStatsPhase' = "SendTeam0"
    /\ m_iStatsPlayer' = 1
    /\ gameOver' = TRUE
    /\ present' = players
    /\ sent' = {}
    /\ UNCHANGED players

(* A limit is reached, while the game runs.                                *)
LimitReached == ~gameOver /\ BeginStats /\ UNCHANGED gameEnds

(* CGameEnd::Use, at any time.                                             *)
GameEnd ==
    /\ gameEnds < MaxGameEnds
    /\ gameEnds' = gameEnds + 1
    /\ BeginStats

-----------------------------------------------------------------------------
(* The phases.                                                             *)

NextTeamPhase == [SendTeam0 |-> "SendTeam1", SendTeam1 |-> "SendTeam2", SendTeam2 |-> "SendPlayers"]

SendTeam ==
    /\ m_iStatsPhase \in DOMAIN NextTeamPhase
    /\ m_iStatsPhase' = NextTeamPhase[m_iStatsPhase]
    /\ UNCHANGED <<players, gameOver, gameEnds, m_iStatsPlayer, present, sent>>

(* The players one frame sends: the first six from m_iStatsPlayer on.      *)
Batch ==
    {i \in players : /\ i >= m_iStatsPlayer
                     /\ Cardinality({j \in players : j \in m_iStatsPlayer..i}) <= 6}

(* The last index the loop looked at: that of the sixth player, or the     *)
(* last of all.                                                            *)
LastIndex(batch) ==
    IF Cardinality(batch) = 6
      THEN CHOOSE i \in batch : \A j \in batch : j <= i
      ELSE MaxClients

(* Mutant: the loop sends one player, and steps back to it.                *)
SendPlayersOneByOne ==
    /\ m_iStatsPhase = "SendPlayers"
    /\ \E i \in m_iStatsPlayer..MaxClients :
          /\ i \in players \cup {MaxClients}
          /\ players \cap (m_iStatsPlayer..(i - 1)) = {}
          /\ sent' = sent \cup (players \cap {i})
          /\ m_iStatsPlayer' = i
          /\ m_iStatsPhase' = IF MaxClients <= i + 1 THEN "OpenMenu" ELSE "SendPlayers"
    /\ UNCHANGED <<players, gameOver, gameEnds, present>>

SendPlayers ==
    /\ m_iStatsPhase = "SendPlayers"
    /\ sent' = sent \cup Batch
    /\ m_iStatsPlayer' = LastIndex(Batch)
    /\ m_iStatsPhase' = IF MaxClients <= LastIndex(Batch) + 1 THEN "OpenMenu" ELSE "SendPlayers"
    /\ UNCHANGED <<players, gameOver, gameEnds, present>>

OpenMenu ==
    /\ m_iStatsPhase = "OpenMenu"
    /\ m_iStatsPhase' = "Nothing"
    /\ UNCHANGED <<players, gameOver, gameEnds, m_iStatsPlayer, present, sent>>

(* CHalfLifeMultiplay::Think: the chat time is over and somebody pressed a *)
(* button, whatever the phase.  The next level has rules of its own.       *)
NewLevel ==
    /\ gameOver
    /\ NewRules

-----------------------------------------------------------------------------
SendStats == SendTeam \/ SendPlayers \/ OpenMenu

Next ==
    \/ \E i \in Indices : Join(i)
    \/ LimitReached
    \/ GameEnd
    \/ SendStats
    \/ NewLevel

Spec == Init /\ [][Next]_vars

(* The server runs Think every frame.                                      *)
FairSpec == Spec /\ WF_vars(SendStats)
-----------------------------------------------------------------------------
(* When the menu opens, the statistics of everyone there when the game     *)
(* ended have been sent, the last slot's excepted, whoever joined or       *)
(* restarted the statistics meanwhile (CHalfLifeCTFplay.cpp:549-567).      *)
OthersSent ==
    gameOver /\ m_iStatsPhase \in {"OpenMenu", "Nothing"} => present \ {MaxClients} \subseteq sent

(* Once the game is over the menu opens, or the level changes: stepping    *)
(* m_iStatsPlayer back after every batch does not make the server send the *)
(* same players for ever.                                                  *)
MenuOpens == gameOver ~> m_iStatsPhase = "Nothing"
=============================================================================
