------------------------------ MODULE MapCycle ------------------------------
(***************************************************************************)
(* The end of a multiplayer map and the choice of the next                 *)
(* (MapCycleSystem.cpp, CHalfLifeMultiplay::Think, GoToIntermission and    *)
(* ChangeLevel). The rules and the players live as long as the map; the    *)
(* map cycle and its Index live as long as the server.                     *)
(*                                                                         *)
(* A map is named by its place in a cycle file. Time is counted from the   *)
(* start of the intermission, in units of which MAX_INTERMISSION_TIME is a *)
(* few; a frame of the game rules may take one.                            *)
(***************************************************************************)
EXTENDS Integers, FiniteSets

CONSTANTS
    PlayerSlots,
    Files,                   \* the values of mapcyclejsonfile
    Cycle,                   \* file |-> its valid maps, numbered from 0
    NoFile,                  \* no file was asked for yet
    StartMap,                \* the map the server starts with
    MAX_INTERMISSION_TIME

\* A file that cannot be parsed has no maps. ParseMapCycle clamps the limits.
ASSUME MapCycleAssumption ==
    /\ IsFiniteSet(PlayerSlots)
    /\ MAX_INTERMISSION_TIME \in Nat \ {0}
    /\ NoFile \notin Files
    /\ \A f \in Files :
           /\ IsFiniteSet(DOMAIN Cycle[f])
           /\ Cycle[f] \in [0..Cardinality(DOMAIN Cycle[f]) - 1 ->
                              [Min : 0..Cardinality(PlayerSlots),
                               Max : 0..Cardinality(PlayerSlots)]]

VARIABLES
    mapcyclejsonfile,
    loaded,            \* m_PreviousMapCycleFile: the file m_MapCycle was read from
    Index,
    map,               \* gpGlobals->mapname: <<file, place>>
    g_fGameOver,
    elapsed,           \* time - m_flIntermissionStartTime
    mp_chattime,
    buttonHit,         \* m_iEndIntermissionButtonHit
    slots,             \* the slots that hold a player object
    connected          \* those whose client is there

cycleVars == <<mapcyclejsonfile, loaded, Index, map, g_fGameOver, elapsed, mp_chattime,
               buttonHit, slots, connected>>

Places(f) == DOMAIN Cycle[f]
Length(f) == Cardinality(Places(f))
Maps == {StartMap} \cup {<<f, i>> : f \in Files, i \in UNION {Places(g) : g \in Files}}

\* CountPlayers: a client who left during the map still has its player object.
CountPlayers == Cardinality(slots)

CycleInit ==
    /\ mapcyclejsonfile \in Files
    /\ loaded = NoFile
    /\ Index = 0
    /\ map = StartMap
    /\ g_fGameOver = FALSE
    /\ elapsed = 0
    /\ mp_chattime = 1
    /\ buttonHit = FALSE
    /\ slots = {}
    /\ connected = {}

-----------------------------------------------------------------------------
(* The map cycle.                                                          *)

FitsPlayers(item, players) ==
    /\ item.Min # 0 => players >= item.Min
    /\ item.Max # 0 => players <= item.Max

\* Mutant: only the maps that are left.
SearchToEnd(f, start, players) ==
    LET later == {i \in Places(f) : i >= start /\ FitsPlayers(Cycle[f][i], players)}
    IN  IF later # {} THEN CHOOSE i \in later : \A j \in later : i <= j ELSE start

\* GetNextMap's search: from Index to the end, then from the start to Index.
Search(f, start, players) ==
    LET ok == {i \in Places(f) : FitsPlayers(Cycle[f][i], players)}
        later == {i \in ok : i >= start}
        First(S) == CHOOSE i \in S : \A j \in S : i <= j
    IN  CASE later # {} -> First(later)
          [] later = {} /\ ok # {} -> First(ok)
          [] OTHER -> start

\* Mutant: the file is read again for every map.
CurrentIndexReread == 0

\* GetMapCycle reads the file again only if its name has changed.
CurrentIndex == IF loaded = mapcyclejsonfile THEN Index ELSE 0

\* CHANGE_LEVEL: the rules, the players and g_fGameOver start over.
NewMap ==
    /\ g_fGameOver' = FALSE
    /\ elapsed' = 0
    /\ buttonHit' = FALSE
    /\ slots' = {}
    /\ connected' = {}

\* Mutant: Index does not come back to the start.
ChangeLevelNoWrap ==
    LET f == mapcyclejsonfile
        item == Search(f, CurrentIndex, CountPlayers)
    IN  /\ loaded' = f
        /\ IF Places(f) = {}
           THEN Index' = CurrentIndex /\ UNCHANGED map
           ELSE Index' = item + 1 /\ map' = <<f, item>>
        /\ NewMap
        /\ UNCHANGED mapcyclejsonfile

\* Without a map to go to, the current one is restarted.
ChangeLevel ==
    LET f == mapcyclejsonfile
        item == Search(f, CurrentIndex, CountPlayers)
    IN  /\ loaded' = f
        /\ IF Places(f) = {}
           THEN Index' = CurrentIndex /\ UNCHANGED map
           ELSE Index' = (item + 1) % Length(f) /\ map' = <<f, item>>
        /\ NewMap
        /\ UNCHANGED mapcyclejsonfile

-----------------------------------------------------------------------------
(* The game rules.                                                         *)

\* GetChatTime
ClampChatTime ==
    CASE mp_chattime < 1 -> 1
      [] mp_chattime > MAX_INTERMISSION_TIME -> MAX_INTERMISSION_TIME
      [] OTHER -> mp_chattime

GoToIntermission ==
    /\ ~g_fGameOver
    /\ g_fGameOver' = TRUE
    /\ elapsed' = 0
    /\ buttonHit' = FALSE
    /\ mp_chattime' = ClampChatTime
    /\ UNCHANGED <<mapcyclejsonfile, loaded, Index, map, slots, connected>>

\* Mutant: only a button ends the intermission.
IntermissionThinkForButton ==
    \E now \in {elapsed, elapsed + 1} :
        /\ g_fGameOver /\ now <= MAX_INTERMISSION_TIME
        /\ mp_chattime' = ClampChatTime
        /\ IF ClampChatTime < now /\ buttonHit
           THEN ChangeLevel
           ELSE /\ elapsed' = now
                /\ UNCHANGED <<mapcyclejsonfile, loaded, Index, map, g_fGameOver, buttonHit,
                               slots, connected>>

\* Think during the intermission.
IntermissionThink ==
    \E now \in {elapsed, elapsed + 1} :
        /\ g_fGameOver
        /\ mp_chattime' = ClampChatTime
        /\ IF ClampChatTime < now /\ (buttonHit \/ MAX_INTERMISSION_TIME < now)
           THEN ChangeLevel
           ELSE /\ elapsed' = now
                /\ UNCHANGED <<mapcyclejsonfile, loaded, Index, map, g_fGameOver, buttonHit,
                               slots, connected>>

\* PlayerThink
PressButton ==
    /\ g_fGameOver /\ connected # {}
    /\ buttonHit' = TRUE
    /\ UNCHANGED <<mapcyclejsonfile, loaded, Index, map, g_fGameOver, elapsed, mp_chattime,
                   slots, connected>>

-----------------------------------------------------------------------------
(* Players and the console.                                                *)

PlayerJoins(c) ==
    /\ c \notin connected
    /\ slots' = slots \cup {c}
    /\ connected' = connected \cup {c}
    /\ UNCHANGED <<mapcyclejsonfile, loaded, Index, map, g_fGameOver, elapsed, mp_chattime,
                   buttonHit>>

\* The player object stays.
ClientDisconnect(c) ==
    /\ c \in connected
    /\ connected' = connected \ {c}
    /\ UNCHANGED <<mapcyclejsonfile, loaded, Index, map, g_fGameOver, elapsed, mp_chattime,
                   buttonHit, slots>>

SetMapCycleFile(f) ==
    /\ mapcyclejsonfile' = f
    /\ UNCHANGED <<loaded, Index, map, g_fGameOver, elapsed, mp_chattime, buttonHit, slots,
                   connected>>

\* Any value; those out of bounds differ only by being clamped.
SetChatTime(t) ==
    /\ mp_chattime' = t
    /\ UNCHANGED <<mapcyclejsonfile, loaded, Index, map, g_fGameOver, elapsed, buttonHit,
                   slots, connected>>

CycleNext ==
    \/ GoToIntermission
    \/ IntermissionThink
    \/ PressButton
    \/ \E c \in PlayerSlots : PlayerJoins(c) \/ ClientDisconnect(c)
    \/ \E f \in Files : SetMapCycleFile(f)
    \/ \E t \in 0..MAX_INTERMISSION_TIME + 1 : SetChatTime(t)

CycleSpec == CycleInit /\ [][CycleNext]_cycleVars

\* A time limit is set, the engine runs the rules in every frame, and time
\* passes.
TimePasses == IntermissionThink /\ (elapsed' > elapsed \/ ~g_fGameOver')

CycleFairSpec ==
    CycleSpec /\ WF_cycleVars(GoToIntermission) /\ WF_cycleVars(TimePasses)

-----------------------------------------------------------------------------
(* Properties.                                                             *)

\* Ranges, with an Index inside the loaded cycle: GetNextMap reads
\* Items[Index] when no map fits.
CycleTypeOK ==
    /\ mapcyclejsonfile \in Files
    /\ loaded \in Files \cup {NoFile}
    /\ Index \in Nat
    /\ loaded \in Files /\ Places(loaded) # {} => Index \in Places(loaded)
    /\ map \in Maps
    /\ g_fGameOver \in BOOLEAN
    /\ elapsed \in 0..MAX_INTERMISSION_TIME
    /\ mp_chattime \in 0..MAX_INTERMISSION_TIME + 1
    /\ buttonHit \in BOOLEAN
    /\ slots \subseteq PlayerSlots
    /\ connected \subseteq slots

\* Wherever the last search left Index, and whichever file is asked for, the
\* next map is one of that file's and admits the players counted, if any of
\* them does.
NextMapAdmits ==
    [][g_fGameOver /\ ~g_fGameOver' =>
          LET f == mapcyclejsonfile IN
          (\E i \in Places(f) : FitsPlayers(Cycle[f][i], CountPlayers)) =>
              map'[1] = f /\ FitsPlayers(Cycle[f][map'[2]], CountPlayers)]_cycleVars

\* The intermission ends even if nobody presses a button, everybody has left
\* or the console keeps changing the chat time.
IntermissionEnds == g_fGameOver ~> ~g_fGameOver

\* The rotation starves no map: if from some time on the file stays and the
\* players in every intermission fit a map, that map comes again and again,
\* however the player counts lead the search past it and others.
RotationFair ==
    \A f \in Files : \A i \in Places(f) :
        <>[](mapcyclejsonfile = f /\ (g_fGameOver => FitsPlayers(Cycle[f][i], CountPlayers)))
            => []<>(map = <<f, i>>)

=============================================================================
