---------------------------- MODULE CTFTeamMenu ----------------------------
(***************************************************************************)
(* How a player gets into a team: the team and character menus             *)
(* (CBasePlayer::Menu_Team_Input and Menu_Char_Input, player.cpp), the     *)
(* client commands around them (CHalfLifeCTFplay.cpp), and the balance of  *)
(* the teams that mp_ctf_autoteam asks for.                                *)
(*                                                                         *)
(* Each client command is one step. A menu is only what the client shows:  *)
(* any command may come at any time. Death and respawn do not touch any of *)
(* this; what becomes of flags and power-ups is in CTFFlags.               *)
(***************************************************************************)
EXTENDS Integers, FiniteSets

CONSTANTS
    Clients,      \* the player slots
    AutoTeam      \* mp_ctf_autoteam

ASSUME TeamMenuAssumption == IsFiniteSet(Clients) /\ AutoTeam \in BOOLEAN

VARIABLES
    entered,        \* "free", "spawned", once InitHUD was called "ready", or "left"
    m_iTeamNum,
    m_iNewTeamNum,
    m_iCurrentMenu,
    observing,      \* pev->iuser1 # 0
    ended,          \* g_fGameOver
    checked         \* history: no team has changed since the client's choice

menuVars ==
    <<entered, m_iTeamNum, m_iNewTeamNum, m_iCurrentMenu, observing, ended, checked>>

None == 0
Teams == {1, 2}
Menus == {"none", "default", "team", "class"}

\* The player objects, those of clients that left after the game included, and
\* the clients that send commands.
InGame == {c \in Clients : entered[c] # "free"}
Playing(c) == entered[c] \in {"spawned", "ready"}

TeamSize(t) == Cardinality({c \in InGame : m_iTeamNum[c] = t})
Other(t) == 3 - t

TeamsBalanced == TeamSize(1) = TeamSize(2)

\* The first team unless the second has fewer players.
TeamWithFewestPlayers == IF TeamSize(2) < TeamSize(1) THEN 2 ELSE 1

MenuInit ==
    /\ entered = [c \in Clients |-> "free"]
    /\ m_iTeamNum = [c \in Clients |-> None]
    /\ m_iNewTeamNum = [c \in Clients |-> None]
    /\ m_iCurrentMenu = [c \in Clients |-> "none"]
    /\ observing = [c \in Clients |-> FALSE]
    /\ ended = FALSE
    /\ checked = {}

-----------------------------------------------------------------------------
(* Joining and leaving the server.                                         *)

\* A change of c's team: the others' choices rest on an old balance.
SetTeam(c, t) ==
    /\ m_iTeamNum' = [m_iTeamNum EXCEPT ![c] = t]
    /\ checked' = IF t = m_iTeamNum[c] THEN checked ELSE {}

\* ClientPutInServer and Spawn: a new player object, in no team, in the place of
\* the one a client may have left.
ClientPutInServer(c) ==
    /\ ~Playing(c)
    /\ entered' = [entered EXCEPT ![c] = "spawned"]
    /\ m_iNewTeamNum' = [m_iNewTeamNum EXCEPT ![c] = None]
    /\ m_iCurrentMenu' = [m_iCurrentMenu EXCEPT ![c] = "class"]
    /\ observing' = [observing EXCEPT ![c] = TRUE]
    /\ SetTeam(c, None)
    /\ UNCHANGED ended

\* The first UpdateClientData.
InitHUD(c) ==
    /\ entered[c] = "spawned"
    /\ entered' = [entered EXCEPT ![c] = "ready"]
    /\ m_iCurrentMenu' = [m_iCurrentMenu EXCEPT ![c] = "team"]
    /\ UNCHANGED <<m_iTeamNum, m_iNewTeamNum, observing, ended, checked>>

\* After the end of the game the player object stays as it is, in its team.
ClientDisconnected(c) ==
    /\ Playing(c)
    /\ IF ended
       THEN /\ entered' = [entered EXCEPT ![c] = "left"]
            /\ UNCHANGED <<m_iTeamNum, m_iNewTeamNum, m_iCurrentMenu, observing, checked>>
       ELSE /\ entered' = [entered EXCEPT ![c] = "free"]
            /\ m_iNewTeamNum' = [m_iNewTeamNum EXCEPT ![c] = None]
            /\ m_iCurrentMenu' = [m_iCurrentMenu EXCEPT ![c] = "none"]
            /\ observing' = [observing EXCEPT ![c] = FALSE]
            /\ SetTeam(c, None)
    /\ UNCHANGED ended

\* GoToIntermission. The menus' commands do not ask whether the game is over.
EndOfGame ==
    /\ ~ended
    /\ ended' = TRUE
    /\ UNCHANGED <<entered, m_iTeamNum, m_iNewTeamNum, m_iCurrentMenu, observing, checked>>

-----------------------------------------------------------------------------
(* The team menu.                                                          *)

\* ResetMenu: what is shown after a choice was accepted.
AfterMenu(menu) ==
    CASE menu = "default" -> "team"
      [] menu = "team" -> "class"
      [] OTHER -> "none"

Show(c, menu) ==
    /\ m_iCurrentMenu' = [m_iCurrentMenu EXCEPT ![c] = menu]
    /\ UNCHANGED <<entered, observing, ended>>

\* A choice of the team menu.
Choose(c, t) ==
    /\ m_iNewTeamNum' = [m_iNewTeamNum EXCEPT ![c] = t]
    /\ Show(c, AfterMenu(m_iCurrentMenu[c]))
    /\ checked' = checked \cup {c}
    /\ UNCHANGED m_iTeamNum

\* Menu_Team_Input(-1) and "spectate": ChangePlayerTeam without a character.
BecomeSpectator(c) ==
    /\ Playing(c)
    /\ m_iNewTeamNum' = [m_iNewTeamNum EXCEPT ![c] = None]
    /\ m_iCurrentMenu' = [m_iCurrentMenu EXCEPT ![c] = "none"]
    /\ observing' = [observing EXCEPT ![c] = TRUE]
    /\ SetTeam(c, None)
    /\ UNCHANGED <<entered, ended>>

\* Menu_Team_Input(3): the server chooses.
AutoAssign(c) ==
    /\ Playing(c)
    /\ \E t \in Teams :
        /\ IF TeamsBalanced
           THEN m_iTeamNum[c] # None => t = m_iTeamNum[c]
           ELSE t = TeamWithFewestPlayers
        /\ Choose(c, t)

\* Mutant: only a player of a team is asked to wait.
AdmitsNewcomer(c, t) ==
    \/ ~AutoTeam \/ m_iTeamNum[c] \in {None, t} \/ TeamsBalanced \/ t = TeamWithFewestPlayers

\* Menu_Team_Input(1 or 2) asks whether the team may take another player.
Admits(c, t) ==
    \/ ~AutoTeam
    \/ t = m_iTeamNum[c]
    \/ TeamsBalanced
    \/ t = TeamWithFewestPlayers

JoinTeam(c, t) ==
    /\ Playing(c)
    /\ Admits(c, t)
    /\ Choose(c, t)

\* The team is full, or there is no such choice: back to the team menu. The
\* last choice is forgotten in any case.
Refuse(c, t) ==
    /\ Playing(c)
    /\ t \in Teams => ~Admits(c, t)
    /\ m_iNewTeamNum' = [m_iNewTeamNum EXCEPT ![c] = None]
    /\ Show(c, "team")
    /\ UNCHANGED <<m_iTeamNum, checked>>

\* Menu_Team_Input(6): leave the menu.
KeepTeam(c) ==
    /\ Playing(c) /\ m_iTeamNum[c] # None
    /\ m_iNewTeamNum' = [m_iNewTeamNum EXCEPT ![c] = None]
    /\ Show(c, "none")
    /\ UNCHANGED <<m_iTeamNum, checked>>

-----------------------------------------------------------------------------
(* The character menu, and the commands that open and close the menus.     *)

\* Mutant: a spectator who joins a team goes on watching.
SelectCharObserving(c) ==
    /\ Playing(c) /\ m_iNewTeamNum[c] # None
    /\ m_iCurrentMenu' = [m_iCurrentMenu EXCEPT ![c] = AfterMenu(@)]
    /\ observing' = [observing EXCEPT ![c] = @ /\ m_iTeamNum[c] = None]
    /\ SetTeam(c, m_iNewTeamNum[c])
    /\ UNCHANGED <<entered, m_iNewTeamNum, ended>>

\* Menu_Char_Input with a valid character; others change nothing.
SelectChar(c) ==
    /\ Playing(c) /\ m_iNewTeamNum[c] # None
    /\ m_iCurrentMenu' = [m_iCurrentMenu EXCEPT ![c] = AfterMenu(@)]
    /\ observing' = [observing EXCEPT ![c] = FALSE]
    /\ SetTeam(c, m_iNewTeamNum[c])
    /\ UNCHANGED <<entered, m_iNewTeamNum, ended>>

\* "cancelmenu" goes back one menu; without any team it makes a spectator.
CancelMenu(c) ==
    /\ Playing(c)
    /\ CASE m_iCurrentMenu[c] = "class" ->
              /\ m_iNewTeamNum' = [m_iNewTeamNum EXCEPT ![c] = None]
              /\ Show(c, "team")
              /\ UNCHANGED <<m_iTeamNum, checked>>
         [] m_iCurrentMenu[c] = "team" /\ ~(m_iNewTeamNum[c] = None /\ m_iTeamNum[c] = None) ->
              /\ Show(c, "none")
              /\ UNCHANGED <<m_iTeamNum, m_iNewTeamNum, checked>>
         [] m_iCurrentMenu[c] = "team" /\ m_iNewTeamNum[c] = None /\ m_iTeamNum[c] = None ->
              BecomeSpectator(c)
         [] OTHER -> FALSE

\* "endmotd" and "changeteam" open the team menu and keep the last choice.
ChangeTeam(c) ==
    /\ Playing(c) /\ m_iCurrentMenu[c] # "team"
    /\ Show(c, "team")
    /\ UNCHANGED <<m_iTeamNum, m_iNewTeamNum, checked>>

\* Mutant: the player's team is not taken as its choice.
ChangeClassOnly(c) ==
    /\ Playing(c) /\ m_iCurrentMenu[c] # "class"
    /\ m_iNewTeamNum[c] # None \/ m_iTeamNum[c] # None
    /\ Show(c, "class")
    /\ UNCHANGED <<m_iTeamNum, m_iNewTeamNum, checked>>

\* "changeclass" goes on with the last choice of a team, however old.
ChangeClass(c) ==
    /\ Playing(c) /\ m_iCurrentMenu[c] # "class"
    /\ m_iNewTeamNum[c] # None \/ m_iTeamNum[c] # None
    /\ m_iNewTeamNum' = [m_iNewTeamNum EXCEPT ![c] = IF @ = None THEN m_iTeamNum[c] ELSE @]
    /\ Show(c, "class")
    /\ UNCHANGED <<m_iTeamNum, checked>>

MenuNext ==
    \/ EndOfGame
    \/ \E c \in Clients :
           \/ ClientPutInServer(c)
           \/ InitHUD(c)
           \/ ClientDisconnected(c)
           \/ BecomeSpectator(c)
           \/ AutoAssign(c)
           \/ \E t \in Teams : JoinTeam(c, t)
           \/ \E t \in Teams \cup {None} : Refuse(c, t)
           \/ KeepTeam(c)
           \/ SelectChar(c)
           \/ CancelMenu(c)
           \/ ChangeTeam(c)
           \/ ChangeClass(c)

MenuSpec == MenuInit /\ [][MenuNext]_menuVars

-----------------------------------------------------------------------------
(* Properties.                                                             *)

MenuTypeOK ==
    /\ entered \in [Clients -> {"free", "spawned", "ready", "left"}]
    /\ m_iTeamNum \in [Clients -> Teams \cup {None}]
    /\ m_iNewTeamNum \in [Clients -> Teams \cup {None}]
    /\ m_iCurrentMenu \in [Clients -> Menus]
    /\ observing \in [Clients -> BOOLEAN]
    /\ ended \in BOOLEAN
    /\ checked \subseteq Clients

\* A player watches if and only if it is in no team, whatever menus it went
\* through: a watcher in a team would be counted in the balance and never play.
WatchersHaveNoTeam ==
    \A c \in InGame : observing[c] <=> m_iTeamNum[c] = None

\* A character menu can be answered: Menu_Char_Input refuses a player without
\* a choice of team, who would have a menu open that no choice closes. (Before
\* InitHUD the client shows no menus.)
ClassMenuHasTeam ==
    \A c \in Clients :
        entered[c] = "ready" /\ m_iCurrentMenu[c] = "class" => m_iNewTeamNum[c] # None

Joins(c, t) == m_iTeamNum[c] # t /\ m_iTeamNum'[c] = t

\* With mp_ctf_autoteam, a player whose choice is still fresh - no player has
\* changed teams since it was made - joins a team that is not the larger one.
FreshChoiceBalances ==
    [][\A c \in Clients, t \in Teams :
          AutoTeam /\ Joins(c, t) /\ c \in checked => TeamSize(t) <= TeamSize(Other(t))]_menuVars

=============================================================================
