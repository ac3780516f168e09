# Half-Life Unified SDK: a TLA+ verification project

TLA+ models of the stateful parts of the Half-Life Unified SDK: the server's
game rules and entities (`src/game/server`), the client's sound systems
(`src/game/client/sound`) and the code they share. TLC checks the models on
small instances; TLAPS proves theorems about them for every instance. Line
numbers below are those of the files under `src/src/game`.

- [What the system is](#what-the-system-is): components, state, operations
- [The modules](#the-modules): how each corresponds to the code
- [The runs](#the-runs): what is checked, with which bounds, and what it shows
- [The proofs](#the-proofs): what is proved, from what, and how
- [Disagreements found](#disagreements-found)
- [What is not modelled](#what-is-not-modelled) and [the plan](#the-plan)

## What the system is

The SDK builds two libraries that the Half-Life engine loads. The **server
library** is called back on one thread: the engine delivers a touch, a think, a
use, a client command, a connection or a frame, and the library runs the handler
to its end. The **client library** does the same on its side, and starts one
thread of its own, for music. So there are two kinds of concurrency:

1. On the server nothing interleaves *inside* a handler, but the order of the
   handlers is the engine's and the players'. State is spread over entities that
   point at each other (a flag's `pev->owner`, a player's `m_pFlag`), each handler
   updates a few of the fields, and a think that is due outlives the state it was
   set in. What is hard is the *sequence* of calls.
2. The music player is two threads sharing a vector of jobs and a few atomics.

No messages are lost between the parts modelled here: the engine's channel to a
client is reliable, and a client that goes away is a call like any other. What
outlives a map is modelled where it matters: the index of the map cycle, the
squads of a saved game (`SquadMonsters.Restore`).

### Components

| component | state it keeps | operations | depends on | what makes it correct |
|---|---|---|---|---|
| CTF flags and match (`server/entities/ctf/ctf_goals.cpp`, `server/gamerules/CHalfLifeCTFplay.cpp`) | a flag's `m_iGoalState`, `pev->owner`, touch and think functions; a player's `m_pFlag`, flag bits of `m_iItems`, team, spectator mode; `teamscores`, `g_fGameOver` | touch (take, capture, return), carry / drop / return thinks, connect, put in server, disconnect, killed, respawn, spectate, choose a character, displacer, end of the game | engine touches and thinks, client commands, damage | flag and carrier agree; a carrier is a living enemy in the game; scores come from captures; no flag is lost |
| CTF power-ups (`server/entities/ctf/ctf_items.cpp`) | an item's owner, touch, think, last toucher; the power bits of `m_iItems` | touch, drop (impulse), scatter on death, respawn, the thinks, start over | the same client handlers; `ForEachPlayerCTFPowerup` finds an item by its *kind* | an item is free, owned or gone; a bit has an item behind it; items come back |
| CTF statistics (`CHalfLifeCTFplay::Think`, `GoToIntermission`) | `m_iStatsPhase`, `m_iStatsPlayer` | one phase every 0.2 s; `game_end` starts over; level change | clients joining between frames | everyone is sent, the menu opens |
| Music player (`client/sound/MusicSystem.cpp`, blocked by `SoundSystem.cpp`) | `m_Jobs` under `m_JobMutex`; atomics `m_Enabled`, `m_Playing`, `m_Paused`, the fade; worker's `m_JobsToExecute`, `m_Info`, `m_Blocked`; main thread's `m_FileName` | play, stop, pause, resume, block, unblock, on, off, reset, fadeout, destroy; the worker's loop | OpenAL, the file system, console commands | calls run once and in order; what a command promises happens; the destructor returns |
| AI sound list (`server/entities/soundent.cpp`) | a fixed pool threaded by the lists of active and free sounds | insert, think (expire), reset of a client's sound | players' deaths and disconnections; read by `CBaseMonster::Listen` | the lists stay lists, no sound is lost, clients keep theirs |
| Team menu and balance (`player.cpp`, `CHalfLifeCTFplay.cpp`) | `m_iCurrentMenu`, `m_iNewTeamNum`, `m_iTeamNum`, who watches | `jointeam`, `selectchar`, `changeteam`, `changeclass`, cancel, spectate; connect, InitHUD, disconnect | CTF rules; any order of commands | whoever plays has a team; a choice never unbalances the teams it was made on |
| Map cycle and intermission (`server/gamerules/MapCycleSystem.cpp`, `CHalfLifeMultiplay.cpp`) | the cycle, its index and file (per server); `g_fGameOver`, the intermission's times, the button (per map) | next map, think, button, change of the file or the chat time | player count | a playable map is found if there is one, the rotation starves none, an intermission ends |
| Scripted sequences (`server/entities/NPCs/scripted.cpp`, the script state in `monsters.cpp`, `schedule.cpp`) | a script's `m_hTargetEnt`, think, `m_iDelay`, `m_startTime`; a monster's `m_pCine`, states, task | think (possess), trigger, walk's end, start, end, interrupt, cancel | other scripts of the name, damage, deaths, removals, followers | monster and script agree; a concert starts together |
| Squads and monster makers (`NPCs/squadmonster.cpp`, `NPCs/monstermaker.cpp`) | leaders, members, slot bits; live children, the maker's count and functions | recruit, slots, killed, gibbed, removed, restored; make, use, death notice | schedules, the engine's removals | leader and members agree, slots are released, children are counted |
| Buttons, multisources, delayed uses (`buttons.cpp`, `subs.cpp`) | toggle state, think, touch; `m_rgTriggered`; `delayed_use` entities | use, touch, damage, move done, return | doors and locks by name | a multisource has a button's input on exactly while it is in |
| Doors (`doors.cpp`, `CBaseToggle`) | toggle state, think, touch, place | touch, use, monster use, move done, close, blocked | partners of the same name, masters | a moving door arrives, a locked one stays, doors close |
| Multiplayer / teamplay / co-op rules | frags, limits, `g_fGameOver` | killed, think, item and weapon respawn | all players | limits end the game once |
| Other entity input and output (triggers, `multi_manager`, global state) | counters, global table | use, touch, think | each other by target name | each use is delivered once, in order |
| Plats, trains | toggle state, path | use, blocked, next | entity I/O | no stuck state |
| Inventory, weapons, ammo | slots, clips, counts | add, remove, reload, fire | prediction on the client | ammunition is conserved |
| NPC schedules | schedule and task | conditions, task complete / fail | monsters | schedules end |
| Save and level change | entity tables | save, restore, transition | the engine | - |
| The rest: navigation graph, networked data, sentences, sound cache, voice manager, bots, prediction, HUD, rendering, movement, configuration, logging, scripting | - | - | - | - |

`PROJECT.json` lists every component with its status. The hard behaviours, each
at its line, are its `hazards`.

## The modules

```
   CTFGame   <-- implemented by --  CTFFlags           MCCTFFlags           CTFFlagsProofs
                                    CTFPowerups        MCCTFPowerups        CTFPowerupsProofs
                                    CTFTeamMenu        MCCTFTeamMenu     \
                                    CTFStats           MCCTFStats         > GameRulesProofs
                                    MapCycle           MCMapCycle        /
   JobQueue  <-- implemented by --  MusicSystem        MCMusicSystem        MusicSystemProofs
                                    ScriptedSequences  MCScriptedSequences  ScriptedSequencesProofs
                                    ButtonsAndDoors    MCButtonsAndDoors    ButtonsAndDoorsProofs
                                    SquadMonsters      MCSquadMonsters      SquadMonstersProofs
                                    SoundList          MCSoundList          SoundListProofs
```

Definitions keep the names of the C++ functions and members they stand for, and
`PROJECT.json` maps each to its lines. A definition that a comment calls a
*mutant* is a variant of the next definition with a plausible bug; no
specification uses it. It is there to show that a property notices the bug.

### CTFFlags

One engine callback is one action. The two flags are named by the team they
belong to (`m_iGoalNum`), players by their slot. The variables are the fields
listed in the component table; `think` is the think function that is due (no clock:
*when* it is due is left open, so every order of thinks and other calls is
allowed) and `touchable` says whether the touch function is `goal_item_touch`.

| action | code |
|---|---|
| `TakeFlag`, `CaptureFlag`, `ReturnDroppedFlag` | `goal_item_touch`, `ScoreFlagTouch`, `GiveFlagToPlayer` |
| `PlaceItem`, `FlagCarryThink`, `goal_item_dropthink`, `ReturnTimeOver`, `ReturnFlagThink` | the think functions of `CTFGoalFlag` |
| `ClientConnected` | `CHalfLifeCTFplay::ClientConnected`: with at most one player in a team the match starts over |
| `ClientPutInServer`, `ClientDisconnected`, `ConnectionLost` | `client.cpp`; after the end of the game `ClientDisconnect` returns at once and leaves the slot as it is |
| `Killed`, `Respawn` | `CBasePlayer::Killed`, `PlayerKilled`, `PlayerDeathThink`; a gibbed body is not solid |
| `BecomeSpectator`, `SelectChar` | `Menu_Team_Input`, `Menu_Char_Input`, `ChangePlayerTeam` |
| `Displaced` | the displacer ball's `BallTouch`, which drops a flag after the game too |
| `CaptureLimitReached`, `TimeOrFragLimitReached` | `CHalfLifeCTFplay::Think` |

`ReturnFlags(S)` is `ReturnFlag` for one flag or, when the match starts over, for
several. As in the code it leaves `pev->owner` as it was and clears both flag bits
of that player, whoever is in the slot by now: the stale owner is in the model.

`CTFGame` is what the flag game promises without entities or thinks: a flag is at
its base, in somebody's hands or on the ground; who carries it; how a team scores;
that nothing but a capture takes a flag home from someone's hands while the game
runs. `CTFFlagsRefinement` maps `place` to `m_iGoalState` and `carrier` to the
owner *while the flag is carried*.

### CTFPowerups

The client handlers are those of `CTFFlags`, with power-ups in the place of flags.
A player drops a power by looking for the *first* item of that kind on the map
(`FirstItems`), which may belong to somebody else or to nobody; `LosePowers` then
takes the bit from the player *and* from the item's owner, as `DropItem` does. When
the match starts over, all players drop one after the other; `InTurn` says which
of the drops happen, given that an earlier one may take a later player's power.

### CTFTeamMenu

One client command is one action; a menu is only what the client shows, so every
command may come at any time. `Choose` is what the choice of a team does in all
four commands that make one, `SetTeam` the change of the team when a character is
chosen. `Admits` is the test of `mp_ctf_autoteam`. `EndOfGame` is `GoToIntermission`:
from then on `ClientDisconnect` returns at once (`client.cpp:65`), and a client that
leaves ("left") leaves its player object behind in its team, counted in the balance
until another client enters the slot. Commands do not ask whether the game is over.
`checked` is a history variable: the clients whose choice was made on the teams as they
still are.

### CTFStats

The phases of `CHalfLifeCTFplay::Think`. `Batch` is what the loop of one frame
sends, six players from `m_iStatsPlayer` on; `LastIndex` the index it then steps
back to. `BeginStats` is what the capture mode's `GoToIntermission` does with the
phases, `NewLevel` the change of the level. `Join`, `GameEnd` and `NewLevel` happen
between frames. Players only join: after the end of the game `ClientDisconnect` returns
at once, and the player object of a client that left stays (`client.cpp:65`). `present`
and `sent` are history variables.

### MapCycle

The rules and the players live as long as the map, `Index` and the cycle that is
loaded as long as the server: `NewMap` resets the one and keeps the other. A map
is a place in a file. The search of `ChangeLevel` from `Index` to the end and then
from the start is `Search`, its test of the player counts `FitsPlayers`. `slots` are the
player objects that `CountPlayers` counts, `connected` those whose client is still there:
clients leave a slot behind after the end of the game. `elapsed` is the time since the start of the
intermission in coarse units; the chat time is read and clamped in every frame.

### SquadMonsters

A monster's `life` runs from "none" (an edict not in use) through "spawned"
(`MonsterInitThink` due), "active", "killed" (killed before its first think),
"dying" to "dead". `SquadRecruit` takes monsters without a squad, by
their name or those near; `MaintainSchedule` takes and gives back slots; `Killed`, `Remove` and
`UpdateOnRemove` are the ways out, each with what it does to the squad and the
maker's `DeathNotice`. One that is dying is killed again by every hit, and leaves whatever squad
it has got into since; one that is dead can only be gibbed. `Restore` is a saved game, which keeps the members and loses
the slot bits. The maker makes monsters from its think or its use, until
`m_cNumMonsters` is used up, which takes its think and its use away. `strayed` is a history variable: a slot was not given back to its
squad, by one of the ways the code has to forget one (see below).

### ScriptedSequences

A record per script and one per monster. `CineThink` possesses a monster that
`CanPlaySequence` admits or, if `FindsNobody`, cancels the whole concert. The
monster then changes its state (`ChangeState`), walks (`ReachMark`), waits until
`Ready`, plays and ends; it may be interrupted, hurt, killed, removed or taken by a
leader to follow at any time. `Cleaned` is `CineCleanup` of several monsters.
`Overrides` and the AI scripts take a monster whatever its state. Two history
variables: `disturbed`, a monster has lost its script before the end; `early`, how
often an arrival was counted off a name's `m_iDelay` that no possession had counted on.
`DelayStart` changes every `scripted_sequence` of the name, whoever calls it: an AI
script's own `PossessEntity` never does, the task its monster comes to after the walk does.

### ButtonsAndDoors

One engine callback is one action, and a use goes on through everything it
reaches in the same callback. That part of the state is passed along as a record
(`World`): `FireTargets` gives the world after all entities of a name were used,
`SUB_UseTargets` the same or a new `delayed_use` entity if the sender has a delay. `DoorGoUp`,
`DoorHitTop`, ... give the record of a door as the function leaves it; they call each
other as in the code, where a move to the place where the door is already ends at
once. Places are known as far as this test needs them (`at`). `Found` lets a move
that has begun leave its end, or not yet. `Blocked` turns all doors of a name
round, those at rest included. `ButtonActivate`, `TriggerAndWait`,
`ButtonReturn` and `ButtonBackHome` are the buttons' functions. The uses of a
multisource toggle the input of the caller - or the last one if the caller is not
found, as with every `delayed_use` (`InputOf`).

Two history variables follow what a property has to tell apart. `kept` follows a locked
door from when it was last closed: still shut, turned by one block of a partner, turned
by two; "free" when its master is on. `stray` says of a multisource whether an odd
number of delayed uses has reached it, each of which was taken for its last input.

### MusicSystem

A step is what one thread does between two accesses the other can tell apart. A
call of the main thread is a step that reads and sets the flags (`Play`,
`Control`, ...), then `LockJobs` and `QueueJob`, the two ends of the lock; `music
off` has a last step `Disable`. The worker goes round `loop` (try_lock and swap),
`jobs` (conditions of the next job), `job` / `load` / `resume` (its effects, in
the order of the stores), `update`, `volume`. File loads fail, songs end and the
worker may fail to start, at any time. `JobQueue` is the queue
`RunOnWorkerThread` promises; the mapping is `m_JobsToExecute \o m_Jobs`.

### SoundList

`lists` holds the links of the pool and the two heads; `ListFrom` walks them as the
code does, `SoundsOf` are the sounds it meets and `Ends` says that the walk is over
within the size of the pool. `Think` repeats `Visit`, the body of the code's loop with
its variables `iSound` and `iPreviousSound`: the next link is read before `FreeSound`
overwrites it. Walks are recursive functions, so that they can be proved about. Time is abstracted to
whether a sound expires "never", "later" or "now".

## The runs

| run | configuration | what it shows |
|---|---|---|
| `flags` | 2 slots, capture limit 1, scores to 1, fair thinks | `FlagMachine`: state, functions and owner of a flag always fit; `CarrierKnown`: `m_pFlag` and `m_iItems` agree; `CarrierInPlay`: a carrier is a living, solid enemy of the flag; `ScoreOnlyByCapture`; `CTFFlagsRefinement`; `LostFlagLeaves`, `ReturnedFlagTouchable`: no flag is lost |
| `powerups` | 2 slots, 2 jump packs, one for team 1 only, fair thinks | `ItemMachine`, `PowerHasItem`, and `LostItemsReturn`: an item whose owner has no power returns |
| `stats` | 8 slots, 1 `game_end`, fair phases | `OthersSent`: whoever was there is sent, the last slot excepted, also over two batches; `MenuOpens`: stepping back never loops |
| `team_menu` | 3 clients, symmetric, `mp_ctf_autoteam`, game over at any time | `WatchersHaveNoTeam`, `ClassMenuHasTeam`: every order of commands leaves a player that can go on; `FreshChoiceBalances`: who joins the larger team chose on other teams |
| `map_cycle` | 3 clients, files of 3, 2 and no maps, longest intermission 2, fair time | `CycleTypeOK`: the index fits the cycle that is loaded, also after a shorter file; `NextMapAdmits`; `IntermissionEnds`; `RotationFair`: no map that fits is passed over for ever |
| `music` | 2 files, 4 calls, all calls, fair threads | `CallsInOrder` (refinement of `JobQueue`); `NamedFilePlays`: at rest, the file named is the file that plays; `JobsRun`; `FadeStops`: an ended fade stops the music, paused or not; `WorkerLeaves`: the destructor's join returns |
| `sounds` | pool of 7, 3 clients, fair think | `TypeOK`, `PoolPartitioned`: the lists stay apart and a reset loses no more than is known; `ExpiredSoundsFreed` |
| `squads` | 3 monsters, one of them made, squads of 3 with 2 slots, 1 live child | `TypeOK`, `SquadLinks`: living members and leaders agree; `LiveChildren`: the count is the children's number; `SlotsHeld`: a squad's bits are its members' slots |
| `scripts` | 2 monsters, a concert of two and a walking AI script of the same name, counts to 2, one arrival of the AI script, fair walks and acts | `ScriptTypeOK`, `LinksAgree`, `ScriptStateHasCine`: however a script ends, no monster keeps a script that is gone or stays in its state; `DelayCountsWalkers`: `m_iDelay` never falls below the number of walkers but by the AI script's arrivals, and is exact while undisturbed; `ConcertPlays`: an undisturbed concert starts |
| `buttons` | a lever that moves and a fixed switch with a delay feed a panel; a touch-only toggle feeds a latch that locks the lever, also on its way; the panel locks two of 3 doors, one of them of a rotating pair that panel and latch move; 1 delayed use | `MechanismTypeOK`: a moving door is going to arrive, an open one to close; `InputFollowsButton`: the panel knows whether the lever is in, whenever it is locked, but for delayed uses taken for it; `LockHolds`: a locked door opens only after two blocks of its partner; `DoorsClose` |
| `music_off`, `squad_leader` | small | violations, see [below](#disagreements-found) |

### Bounds, and why they are enough

- **Two slots** (`flags`, `powerups`): a carrier and an opponent, or two opponents
  each carrying a flag; team mates appear as the same slot in turn or as two
  slots of one team. All properties relate one flag, its owner and at most one other
  player. The theorems remove the bound for the safety properties.
- **`ScoreBound` 1, `CaptureLimit` 1**: a capture that ends the game, the
  intermission, and starting over from it. `CaptureFlag` is not enabled beyond
  `ScoreBound`; in the theorems both are any numbers.
- **Two power-ups of one kind**: a drop finds another player's item, a free one,
  or - the second is for one team - none. Powers of different kinds do not
  interfere except through `multipower`, which only forbids taking.
- **Eight slots** for the statistics: the smallest server on which a second frame sends
  players. The first sends six and ends at slot six, seven or eight; if it ends at six,
  the test `maxClients <= m_iStatsPlayer + 1` fails and the next starts with slot six
  again. With seven slots the test always holds after the first, and nothing is stepped
  back to. Players join before, between and after the batches.
- **Three clients** for the menus and the map cycle: teams of one and two with one
  more to choose; a choice, a second one and a join in between; one of them may be the
  player object of a client that left. Maps that need two or
  three players, at most one, or any number.
- **Four calls, two files** for the music: start, stop or pause, start of the other
  file with calls of the worker in between. `MaxCalls` bounds `calls`.
  `NamedFilePlays` leaves out players that have been turned off: a disabled player
  refuses jobs for a file it is already named after, which is what `music_off` is about.
- **A pool of seven, three clients' own**: lists of every length from empty to full,
  with a first, a middle and a last sound to free.
- **Three monsters**: a leader, a member and a third that recruits, is recruited or is
  made again in an edict in use before. Two slots are enough to be full.
- **Three scripts of one name**, one of them an AI script: a concert, and a competitor for
  its monsters that counts it down; one script repeats, one idles and overrides states. `MaxDelay`
  bounds a count that the code may leave behind higher and higher (see below), `MaxEarly`
  how often the AI script's monster arrives uncounted: once is enough to bring the count
  below the walkers, and to zero or minus one. Both are guards on the steps that add to them.
- **One delayed use** of a name at a time (`Room`): more of them only toggle more often.
  Two doors of a name, one locked and one not, one that returns and one that does
  not, are all pairs `Blocked` tells apart. Only a button that is no toggle, has no delay
  and moves can be locked on its way and is what `InputFollowsButton` is about: the lever,
  which is also the input the switch's delayed uses are taken for.
- The music runs and the player end when the calls are used up and the player is
  destroyed: those two do not check deadlock. All others do.

### Fairness

- `WF(FlagThink(f))`, `WF(ItemThink(i))`, `WF(Think)`, `WF(DoorCloses(d))`: the engine
  runs an entity's think in the first frame after `nextthink`. The handlers set
  `nextthink` with the think function. A think that is replaced by a touch or a drop
  is disabled, so weak fairness of the disjunction is what the engine gives. No
  player is assumed to do anything.
- `WF(SendStats)`: `CHalfLifeCTFplay::Think` runs every frame and one phase
  is due every 0.2 seconds. `WF(GoToIntermission)` of `MapCycle`: a time limit is set,
  and the first frame after it starts the intermission. `WF(TimePasses)`: frames take time.
- `WF(WorkerStep)`, `WF(MainGoesOn)`: threads are scheduled, and a call that was
  begun is finished. New calls need not come. `try_lock` may fail forever only if
  the main thread calls forever, which the bound on calls excludes: `JobsRun` says
  the queue does not stall, not that it wins every race.
- `WF(WalkEnds(m))`, `WF(Acts(m))`, `SF(StartSequence(m))`: a monster thinks every
  0.1 seconds; a walk ends at the mark or fails. A monster that waits
  looks every 0.1 seconds, more often than the others of its concert can play and be
  taken again: strong fairness of the start. `ConcertPlays` speaks of concerts that
  nothing disturbs.
- `WaysClear`, `WF(DoorArrives(d))`: the move of a door ends after its travel time
  unless something blocks it. `WaysClear` says that from some time on nothing does, and
  is part of `FairSpec`; without it a door may be turned round for ever, as in the game.

## The proofs

| module | theorem | establishes |
|---|---|---|
| `CTFFlagsProofs` | `TypeCorrect`, `FlagMachineAlways`, `CarrierKnownAlways`, `CarrierInPlayAlways`, `TeamsAndSlotsAlways`, `ScoreOnlyByCaptureAlways`, `ImplementsGame` | the invariants of `flags`, the action property and `Spec => CTFFlagsRefinement`, for any finite set of slots and any limits |
| `CTFPowerupsProofs` | `TypeCorrect`, `ItemMachineAlways`, `PowerHasItemAlways` | the invariants of `powerups`, for any players, items, kinds and team restrictions |
| `GameRulesProofs` | `MenuTypeCorrect`, `WatchersHaveNoTeamAlways`, `ClassMenuHasTeamAlways`, `FreshChoiceBalancesAlways` | the properties of `team_menu`, for any finite set of clients, with and without auto team |
| | `TypeCorrect`, `OthersSentAlways`, `BatchesAdvance` | of `stats`, for a server of any size |
| | `CycleTypeCorrect`, `NextMapAdmitsAlways`, `NextMapNearest` | of `map_cycle`, for any clients, files and maps |
| `MusicSystemProofs` | `TypeCorrect`, `CallsInOrderAlways`, `NamedFilePlaysAlways` | the queue refines `JobQueue`, and at rest the file named is the one that plays, for any files, commands and number of calls |
| `ScriptedSequencesProofs` | `ScriptTypeCorrect`, `LinksAgreeAlways`, `ScriptStateHasCineAlways`, `DelayCountsWalkersAlways` | the safety properties of `scripts`, for any finite set of monsters, any scripts and names |
| `ButtonsAndDoorsProofs` | `MechanismTypeCorrect`, `InputFollowsButtonAlways`, `LockHoldsAlways` | for any buttons, doors, multisources and wiring without a multisource that fires another |
| `SquadMonstersProofs` | `TypeCorrect`, `SquadLinksAlways`, `LiveChildrenAlways`, `SlotsHeldAlways` | the invariants of `squads`, for any finite set of monsters, any slots, sizes of squads and limits of the maker |
| `SoundListProofs` | `TypeCorrect`, `PoolPartitionedAlways`, `ThinkFreesExpired` | the invariants of `sounds` and what one walk of `Think` does, for a pool of any size and any number of clients |

**Assumptions.** Only those the modules name: sets of slots, clients and monsters are finite
and null values are none of their members (`CTFFlags`, `CTFTeamMenu`, `MusicSystem`,
`ScriptedSequences`, `ButtonsAndDoors`, `SquadMonsters`); item tables have the right types
(`CTFPowerups`); a server has a slot (`CTFStats`); the pool of sounds has one for each
client (`SoundList`); a cycle's maps are numbered from 0 and
its limits are numbers of players, which `ParseMapCycle` sees to (`MapCycle`); names are
those of doors or of multisources, and doors of one name fire nothing
(`ButtonsAndDoors`). How scripts are named is not restricted. TLC evaluates them in
every run.

**The flags' argument.** None of the four invariants is inductive alone; their
conjunction `IInv` is. A touch gives a flag to a player whose team number is not the
flag's, so `CarrierInPlay` needs `TeamsAndSlots` (a solid player is in a team) for the
carrier to be an *enemy*. A death drops `m_pFlag` only, so it needs `CarrierKnown`
for no other flag to stay with the player. `ReturnFlag` clears the carrying fields of
a stale `pev->owner`, so `CarrierKnown` needs every caller's precondition that the
flag is away from its base (`FlagMachine` then says its owner is either the carrier
or nobody), and the fact that the flags returned together are all carried. After
the end of the game a disconnected slot keeps its flag: `CarrierInPlay` and the third
part of `TeamsAndSlots` speak of the running game only, and the others survive
because nothing resets half of the fields. The proof has one lemma per helper
(`ReturnFlagsIInv`, `GiveFlagOK`, ...), one per action, and a frame lemma,
`SlotStepIInv`, for the handlers that touch one slot.

**The refinement's argument.** Every action is a step of `CTFGame` or leaves its
variables alone, given `IInv`: a capture *is* a capture because `flagItems` non-empty
implies `m_pFlag` is the enemy's carried flag (`CapturedFlag`); starting over leaves
no flag carried because whoever carries one has a flag bit (`ResetReturnsAll`).

**The power-ups' argument.** `PowerHasItem` is not inductive: a touch changes an
item's owner, and would take the item from under another player's power if it could be
touched while owned. `ItemMachine` says it cannot, so a touch only adds an owner. A
drop frees items that anybody may own, but `LosePowers` clears the bit of the freed
item's kind for its owner, whatever other items the owner has; `CarryThink` frees an
item only if its owner does not have the bit. The conjunction of `TypeOK`,
`ItemMachine` and `PowerHasItem` is inductive.

**The music's argument.** `TypeOK` includes that the worker's vector is empty
outside the job loop; so the swap puts an *empty* vector in `m_Jobs`, and the
concatenation of the two vectors does not change. Appending is at its end and
beginning a job at its head (`AppendConcat`, `TailConcat`). For `NamedFilePlays` the
invariant `NamedInv` follows the names on their way: a start is in the call, in
`m_Jobs`, in the worker's vector, in the job that runs, or is what plays, and the last
of them is for `m_FileName`. It holds while "music off" was never used, because an
enabled player admits every start.

**The menus' argument.** `MenuInv` adds that a free slot has no team and no choice, so
that the sizes of the teams depend on `m_iTeamNum` only, whoever comes, goes or stays
behind. For `FreshChoiceBalances` a second invariant, `FreshChoices`, carries what the
test found from the choice to the join: as long as a client is in `checked`, the team it
chose is not the larger one. A change of anybody's team empties `checked`.

**The statistics' argument.** `SentBelow`: while batches are under way, whoever was
there and has an index below `m_iStatsPlayer` was sent. It holds after the step back
because the batch that ended there sent everything up to that index (`Upto`); that
a batch ends where it does takes the smallest and largest element of a finite set.

**The map cycle's argument.** `SearchFinds`: wherever the search starts, it ends at a
place of the file, one that admits the players if any does; `SearchNearest`: the first
of them round the cycle. The theorems follow action by action.

**The scripts' argument.** `LinksAgree` is not inductive: a script may only take a
monster if it has none. `ScriptsRest` says that a script that has one does not think;
with the type invariant (only a monster in the script state has a task of a script)
and `ScriptStateHasCine` the conjunction is inductive. `DelayCountsWalkers` has two
parts, which count monsters by their tasks. That `m_iDelay` and `early` together are at
least the walkers is inductive by itself: a monster becomes a walker only when it is
possessed, which is counted on, and every arrival that is counted off takes a walker
away or is recorded in `early` (`StepSuffices`); whatever else happens to a monster only
makes walkers fewer. That they are exactly the walkers holds until one loses its script:
`WalkersInv` adds that until then only a monster with a script has a task of one, and is
to stay in the script state, so that every other step leaves the walkers as they were.

**The mechanisms' argument.** A use runs through several entities in one step, so the
invariant is stated of a *world* (`WorldOK`) and kept by every operator on worlds
(`FireTargetsOK`, ...). For `InputFollowsButton` one shows of each operator which inputs
it toggles, once or twice (`Fires`, `FiresTwice`), and needs two strengthenings: a
button's think fits its state (`ButtonOK`), and a delayed use was sent by an entity with
a delay (`DelayedOK`), since it may toggle another's input: each of them turns `stray`
round with the last input. For `LockHolds` one shows action by action what a step can do
to a door that is locked before and after it (`LockStep`): the lock is asked in the
middle of a step, where the multisources are as before it or as after it, unless a
toggle button uses its own more than once. So only a block turns it, and `kept` counts
those.

**The squads' argument.** `SquadLinks` is about the living, but what corpses point at
decides what the next recruiting does: a monster killed before its first think may
recruit at it, and a killed member stays in its leader's array. So `LinkInv` says of
every monster that a leader not killed leads itself (`LeadersLead`), that only a corpse
may be listed by a leader it does not follow (`MembersFollow`), and that an edict not in
use is referred to by nobody (`FreeEdicts`), without which a monster made again would
begin as a member. `LiveChildren` needs `OwnersWait`: the maker has still to be told of
a child exactly as long as it lives, so that a death is noticed, and once. `SlotsHeld` compares
cardinalities; the proof keeps instead that a slot is taken at a leader if and
only if exactly one of its monsters holds it (`Taken`), which one lemma turns into the
former.

**The sound list's argument.** What is met by following links is no formula over the
links, so `Partitioned` asks for a set of sounds and a *rank* of each, along which the
links lead from the head to the end (`Chain`), for the active and for the free list. Ranks
are integers: a sound pushed on a list gets one below all others, and no other
rank changes when one is unlinked or when `Reset` cuts the list. `FollowChain` then shows
that a walk along the links meets exactly that set and ends within the size
of the pool, since otherwise it would map more steps than there are sounds one to one
into them. What `Reset` cuts off are clients' sounds because they are ranked last.
The induction over the steps of a walk is that of `Upward`: a set of numbers that
has 0 and grows by one has no smallest number missing; `Recursion` shows by it that the
walks exist. `Think` takes the list apart while it follows it: `WalkInv` holds after each round,
and counts the sounds still ahead, so that the walk has come to the end after
`MAX_WORLD_SOUNDS` rounds.

**Behind the liveness properties.** Three theorems prove for all constants what a step
contributes to a property that TLC checks: `BatchesAdvance` to `MenuOpens`,
`NextMapNearest` to `RotationFair` and `ThinkFreesExpired` to `ExpiredSoundsFreed`.

**Only model-checked.** All liveness (`LostFlagLeaves`, `ReturnedFlagTouchable`,
`LostItemsReturn`, `MenuOpens`, `IntermissionEnds`, `RotationFair`, `JobsRun`,
`FadeStops`, `WorkerLeaves`, `ExpiredSoundsFreed`, `ConcertPlays`, `DoorsClose`) is
outside the reach of the prover, which knows neither fairness nor ENABLED. Every invariant
and every action property that a run checks is proved.

## Disagreements found

| run | what the code does | what it says |
|---|---|---|
| `music_off` | "music off" queues `Stop` and clears `m_Enabled` at once; the job finds the player disabled and does nothing (`MusicSystem.cpp:525`, `:256`) | `docs/features/sound-system.md:56` "stops any music that is currently playing" |
| `squad_leader` | `SquadRemove` looks for the leader instead of the member in the leader's array (`squadmonster.cpp:136`): a member that was killed stays in it, and may end as a monster whose leader leads nobody | `squadmonster.cpp:113` asserts `IsLeader()` |

Seen while modelling, each part of a model as it is and not hidden by it:

- **Statistics.** After a batch of six that ends at slot `maxClients - 1` the end test
  holds and the last slot is skipped; `CHalfLifeCTFplay.cpp:550` says "until we've
  sent everything" and "up to 5 players". `GetWinningTeam` (`:111`) compares with `<=`.
- **Sound list.** `CSound::Reset` empties `m_iNext` (`soundent.cpp:35`): the active list
  ends at a client that died or left. Clients' sounds come first in the pool, so no
  other sound is lost.
- **Music.** `Play` ignores the file that still plays, though a queued `Stop` will stop
  it (`MusicSystem.cpp:122`). If `Create` fails early, the destructor joins a thread
  that never ran (`:38`). Unpausing the game resumes music that the user had paused
  (`SoundSystem.cpp:119`).
- **CTF.** The assist for returning one's own flag is given to the player who captures,
  not to the one remembered in `m_nReturnPlayer` (`ctf_goals.cpp:609`).
- **Map cycle.** `CountPlayers` (`CHalfLifeMultiplay.cpp:713`) counts clients that left
  after the end of the game, whom `util.cpp:430` calls connected.
- **Monster makers.** A named maker with "start on" has its think set and no
  `nextthink` (`monstermaker.cpp:160`): it waits for a use.
- **Scripts.** A monster that loses its script on its walk leaves `m_iDelay` counted up
  (`scripted.cpp:582`), and the others of the concert wait for nobody. A walking
  `aiscripted_sequence` with a concert's name counts `m_iDelay` down when its monster
  arrives, without having counted it up (`:577` looks at who is counted, not at who counts):
  the concert may start while one of its monsters still walks. A monster
  killed in the frame in which a script takes it is revived. An
  `aiscripted_sequence` is never cancelled.
- **Buttons.** A button that is locked on its way, or is shot while locked, stays on its
  way or untouchable for ever (`buttons.cpp:573`; `:343`). A multisource's test
  `i > m_iTotal` never holds (`:170`), so a `delayed_use` toggles the last input. A
  toggle button uses its multisource up to three times in a cycle.
- **Doors.** The assertion of `DoorGoUp` (`doors.cpp:401`) fails when a door that a
  monster opened is touched. `Blocked` moves a partner that stands still to where the
  blocked door is (`:561`), and turns it (`:579`), without asking its master: a closed,
  locked leaf of a rotating pair is moved to where its partner is and goes down from there;
  if the partner is blocked again before it has arrived, it goes up and opens fully, with
  the master locked all along.

## What is not modelled

- Inside the modelled components: personal scores and capture assists, positions and
  visibility, messages, icons and models, what a power-up does, suits, the clock
  (a think is due at some later time), the numbers in the statistics,
  samples and formats, the game's own pause of the sound, what a sound is like, which
  enemies a squad fights, schedules beyond what scripts and squads see of them,
  barnacles, maps that remove a script in use; kill targets, global state, the
  registration of a multisource's inputs, doors' close targets, two-way rotating
  doors, doors of one name that fire targets.
- The components listed as "not modelled" in `PROJECT.json`, each with its reason.
  Rendering, HUD, movement physics, prediction and single monsters are continuous or
  display code; configuration, JSON, logging and scripting are plumbing around
  libraries; save/restore and networked data are serialisation by tables.

## The plan

Done: flags, statistics, music, power-ups and the sound list; then team menu, map
cycle, squads and makers, scripted sequences, buttons, multisources and doors.

1. **More entity input and output**: `multi_manager` with its threads, `trigger_counter`,
   `trigger_relay` and the global state table, composed with `ButtonsAndDoors`; close
   targets of doors; then plats and trains on the same moves.
2. **Multiplayer rules**: limits shared with `CTFStats`, item and weapon respawn;
   **inventory** with ammunition conserved over drop, pick up and reload.
3. **Voice game manager**: masks recomputed on a timer while players come and go.
4. **Compositions**: `CTFFlags`, `CTFTeamMenu` and `MapCycle` each have the end of the
   game and the slots that clients leave behind; one module would let them share these.
