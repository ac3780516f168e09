--------------------------- MODULE SquadMonsters ---------------------------
(***************************************************************************)
(* Squads of monsters (CSquadMonster, server/entities/NPCs/                *)
(* squadmonster.cpp) and the maker that spawns some of them (CMonsterMaker, *)
(* monstermaker.cpp), together with the ways in which a monster leaves the *)
(* game: killed, gibbed, faded out, or removed by the map.                 *)
(*                                                                         *)
(* Enemies are left out: whether the members of a squad fight different    *)
(* enemies (SquadEnemySplit) is a free choice.                             *)
(***************************************************************************)
EXTENDS Integers, FiniteSets

CONSTANTS
    Monster,            \* the edicts monsters live in
    Placed,             \* those that are on the map from the start
    LeaderFlagged,      \* those with SF_SQUADMONSTER_LEADER
    NumSlots,           \* the slots a kind of monster asks for: 0..NumSlots-1
    MAX_SQUAD_MEMBERS,  \* a leader and the entries of its m_hSquadMember
    NumMonsters,        \* values of the maker's "monstercount"
    MaxLiveChildren,    \* m_iMaxLiveChildren, 0 if there is no limit
    Null                \* an empty handle

ASSUME SquadAssumption ==
    /\ IsFiniteSet(Monster) /\ Null \notin Monster
    /\ Placed \subseteq Monster /\ LeaderFlagged \subseteq Monster
    /\ NumSlots \in Nat /\ MAX_SQUAD_MEMBERS \in Nat \ {0}
    /\ NumMonsters \subseteq Int /\ MaxLiveChildren \in Nat

VARIABLES
    life,        \* "none", "spawned", "active", "killed", "dying", "dead"
    named,       \* monsters with the squad's netname
    leader,      \* m_hSquadLeader
    member,      \* m_hSquadMember of each monster, as a set
    slots,       \* m_afSquadSlots of each monster, as a set
    mySlot,      \* m_iMySlot
    child,       \* monsters whose pev->owner is, or was, the maker
    owned,       \* monsters whose pev->owner is the maker
    informed,    \* m_InformedOwnerOfDeath
    maker,       \* the maker: active, thinks, use function, counts
    strayed      \* history: a slot was not given back to its squad

squad == <<leader, member, slots, mySlot>>
vars == <<life, named, squad, child, owned, informed, maker, strayed>>

-----------------------------------------------------------------------------
(* The monster's state.                                                    *)

Slot == 0 .. NumSlots - 1
NoSlot == -1
Split == NumSlots       \* bits_SLOT_SQUAD_SPLIT, above all others

\* "spawned": MonsterInitThink is due; "killed": it still is, but the monster
\* was killed; "dying": until TASK_DIE ends; "dead": a corpse, or gibbed.
Lives == {"none", "spawned", "active", "killed", "dying", "dead"}

Unharmed(m) == life[m] \in {"spawned", "active"}

\* CBaseMonster::IsAlive: whose deadflag is not DEAD_DEAD.
IsAlive(m) == life[m] \notin {"none", "dead"}

InSquad(m) == leader[m] # Null
MySquadLeader(m) == IF InSquad(m) THEN leader[m] ELSE m
IsLeader(m) == leader[m] = m

-----------------------------------------------------------------------------
(* Squads.                                                                 *)

\* A slot is kept by a monster that is no longer in a squad.
VacateSlot(m) ==
    /\ slots' = IF mySlot[m] # NoSlot /\ InSquad(m)
                THEN [slots EXCEPT ![leader[m]] = @ \ {mySlot[m]}]
                ELSE slots
    /\ mySlot' = IF InSquad(m) THEN [mySlot EXCEPT ![m] = NoSlot] ELSE mySlot

\* SquadRemove, called for l, the leader of m: a leader's squad is dissolved.
\* For a member, the loop looks for l, not for m, and mostly clears nothing.
SquadRemove(m) ==
    LET l == leader[m] IN
    IF m = MySquadLeader(l)
    THEN /\ leader' = [x \in Monster |->
                         IF x \in member[l] \cup {m} THEN Null ELSE leader[x]]
         /\ member' = [member EXCEPT ![l] = {}]
    ELSE /\ leader' = [leader EXCEPT ![m] = Null]
         /\ member' = [member EXCEPT ![MySquadLeader(l)] = @ \ {l}]

\* Mutant: monsters of another squad are recruited too.
CandidatesOfAnySquad(m) ==
    {r \in Monster \ {m} :
        /\ life[r] # "none"
        /\ IF m \in named THEN r \in named ELSE IsAlive(r) /\ r \notin named}

\* SquadRecruit: a named monster takes every monster of its name, dead or alive;
\* another takes those living ones in range and in sight that have no name.
Candidates(m) ==
    {r \in Monster \ {m} :
        /\ life[r] # "none" /\ ~InSquad(r)
        /\ IF m \in named THEN r \in named ELSE IsAlive(r) /\ r \notin named}

Recruits(m) ==
    LET room == MAX_SQUAD_MEMBERS - 1 - Cardinality(member[m]) IN
    {R \in SUBSET Candidates(m) :
        /\ Cardinality(R) <= room
        /\ m \in named => \/ R = Candidates(m)
                          \/ Cardinality(R) = room}

SquadRecruit(m) ==
    \E R \in Recruits(m) :
        /\ leader' = IF R = {} THEN leader
                     ELSE [x \in Monster |->
                             IF x \in R \cup {m} THEN m ELSE leader[x]]
        /\ member' = [member EXCEPT ![m] = @ \cup R]

-----------------------------------------------------------------------------
(* The maker.                                                              *)

\* A maker with a name has no next think, even if it is to start on.
Init ==
    /\ life = [m \in Monster |-> IF m \in Placed THEN "spawned" ELSE "none"]
    /\ named \in SUBSET Monster
    /\ leader = [m \in Monster |-> Null]
    /\ member = [m \in Monster |-> {}]
    /\ slots = [m \in Monster |-> {}]
    /\ mySlot = [m \in Monster |-> NoSlot]
    /\ child = {} /\ owned = {} /\ informed = {}
    /\ \E num \in NumMonsters, on \in BOOLEAN, use \in {"toggle", "cyclic", "none"} :
         /\ use = "none" => on
         /\ maker = [active |-> on, thinks |-> use = "none", use |-> use,
                     num |-> num, live |-> 0, fade |-> num # 1]
    /\ strayed = FALSE

\* MakeMonster, when it succeeds: the edict m is free, nothing is in the way.
MakeMonster(m) ==
    /\ MaxLiveChildren > 0 => maker.live < MaxLiveChildren
    /\ life[m] = "none"
    /\ life' = [life EXCEPT ![m] = "spawned"]
    /\ child' = child \cup {m}
    /\ owned' = owned \cup {m}
    /\ maker' = LET num == IF maker.num = -1 THEN -1 ELSE maker.num - 1 IN
                [maker EXCEPT !.live = @ + 1,
                              !.num = num,
                              !.thinks = @ /\ num # 0,
                              !.use = IF num = 0 THEN "none" ELSE @]
    /\ UNCHANGED <<named, squad, informed, strayed>>

MakerThink(m) == maker.thinks /\ MakeMonster(m)

CyclicUse(m) == maker.use = "cyclic" /\ MakeMonster(m)

ToggleUse ==
    /\ maker.use = "toggle"
    /\ maker' = [maker EXCEPT !.active = ~@, !.thinks = ~maker.active]
    /\ UNCHANGED <<life, named, squad, child, owned, informed, strayed>>

\* Mutant: the owner is told again when the corpse goes away.
DeathNoticeAgain(m) ==
    IF m \in owned THEN [maker EXCEPT !.live = @ - 1] ELSE maker

\* MaybeNotifyOwnerOfDeath calls the maker's DeathNotice once.
DeathNotice(m) ==
    IF m \in owned \ informed THEN [maker EXCEPT !.live = @ - 1] ELSE maker

-----------------------------------------------------------------------------
(* A monster's life.                                                       *)

\* StartMonster runs at the monster's first think, even if it was killed.
StartMonster(m) ==
    /\ life[m] \in {"spawned", "killed"}
    /\ life' = [life EXCEPT ![m] = IF @ = "spawned" THEN "active" ELSE "dying"]
    /\ IF ~InSquad(m) /\ (m \in named => m \in LeaderFlagged)
       THEN SquadRecruit(m)
       ELSE UNCHANGED <<leader, member>>
    /\ UNCHANGED <<named, slots, mySlot, child, owned, informed, maker, strayed>>

\* MaintainSchedule: ScheduleChange gives the slot back, then GetSchedule may
\* ask for one of the slots in wanted. OccupySlot gives the lowest free one.
MaintainSchedule(m) ==
    /\ life[m] = "active"
    /\ \/ VacateSlot(m)
       \/ /\ InSquad(m)
          /\ mySlot' = [mySlot EXCEPT ![m] = Split]
          /\ slots' = [slots EXCEPT ![leader[m]] = @ \ {mySlot[m]}]
       \/ /\ InSquad(m)
          /\ \E wanted \in SUBSET Slot, s \in Slot :
               LET taken == slots[leader[m]] \ {mySlot[m]} IN
               /\ s \in wanted \ taken
               /\ \A o \in wanted \ taken : s <= o
               /\ mySlot' = [mySlot EXCEPT ![m] = s]
               /\ slots' = [slots EXCEPT ![leader[m]] = taken \cup {s}]
    /\ UNCHANGED <<life, named, leader, member, child, owned, informed, maker, strayed>>

\* The schedule of a killed monster: ScheduleChange, and TASK_DIE to its end.
Die(m) ==
    /\ life[m] = "dying"
    /\ VacateSlot(m)
    /\ life' = [life EXCEPT ![m] = "dead"]
    /\ UNCHANGED <<named, leader, member, child, owned, informed, maker, strayed>>

\* Mutant: SquadRemove before VacateSlot, which then finds no squad.
KilledOutOfSquad(m, gib) ==
    /\ life[m] # "none" /\ (life[m] = "dead" => gib)
    /\ IF InSquad(m) THEN UNCHANGED <<slots, mySlot>> ELSE VacateSlot(m)
    /\ IF InSquad(m) THEN SquadRemove(m) ELSE UNCHANGED <<leader, member>>
    /\ strayed' = (strayed \/ \E x \in Monster \ {m} :
                                 leader[x] # leader'[x] /\ mySlot[x] \in Slot)
    /\ IF Unharmed(m)
       THEN /\ maker' = DeathNotice(m)
            /\ informed' = informed \cup {m}
            /\ owned' = IF maker.fade THEN owned ELSE owned \ {m}
       ELSE UNCHANGED <<informed, maker, owned>>
    /\ life' = [life EXCEPT ![m] = CASE gib -> "dead"
                                     [] ~gib /\ @ \in {"spawned", "killed"} -> "killed"
                                     [] OTHER -> "dying"]
    /\ UNCHANGED <<named, child>>

\* Mutant: a gibbed monster is not reported.
KilledUnlessGibbed(m, gib) ==
    /\ life[m] # "none" /\ (life[m] = "dead" => gib)
    /\ VacateSlot(m)
    /\ IF InSquad(m) THEN SquadRemove(m) ELSE UNCHANGED <<leader, member>>
    /\ strayed' = (strayed \/ \E x \in Monster \ {m} :
                                 leader[x] # leader'[x] /\ mySlot[x] \in Slot)
    /\ IF Unharmed(m) /\ ~gib
       THEN /\ maker' = DeathNotice(m)
            /\ informed' = informed \cup {m}
            /\ owned' = IF maker.fade THEN owned ELSE owned \ {m}
       ELSE UNCHANGED <<informed, maker, owned>>
    /\ life' = [life EXCEPT ![m] = CASE gib -> "dead"
                                     [] ~gib /\ @ \in {"spawned", "killed"} -> "killed"
                                     [] OTHER -> "dying"]
    /\ UNCHANGED <<named, child>>

\* CSquadMonster::Killed and CBaseMonster::Killed. One that is dying is killed
\* by every hit, the dead can only be gibbed; one that is gibbed is dead at once.
Killed(m, gib) ==
    /\ life[m] # "none" /\ (life[m] = "dead" => gib)
    /\ VacateSlot(m)
    /\ IF InSquad(m) THEN SquadRemove(m) ELSE UNCHANGED <<leader, member>>
    /\ strayed' = (strayed \/ \E x \in Monster \ {m} :
                                 leader[x] # leader'[x] /\ mySlot[x] \in Slot)
    /\ IF Unharmed(m)
       THEN /\ maker' = DeathNotice(m)
            /\ informed' = informed \cup {m}
            /\ owned' = IF maker.fade THEN owned ELSE owned \ {m}
       ELSE UNCHANGED <<informed, maker, owned>>
    /\ life' = [life EXCEPT ![m] = CASE gib -> "dead"
                                     [] ~gib /\ @ \in {"spawned", "killed"} -> "killed"
                                     [] OTHER -> "dying"]
    /\ UNCHANGED <<named, child>>

\* The entity goes away and every handle to it becomes empty.
Remove(m) ==
    /\ life' = [life EXCEPT ![m] = "none"]
    /\ leader' = [x \in Monster |-> IF m \in {x, leader[x]} THEN Null ELSE leader[x]]
    /\ member' = [x \in Monster |-> IF x = m THEN {} ELSE member[x] \ {m}]
    /\ slots' = [slots EXCEPT ![m] = {}]
    /\ mySlot' = [mySlot EXCEPT ![m] = NoSlot]
    /\ strayed' = (strayed \/ \E x \in Monster : InSquad(x) /\ m \in {x, leader[x]}
                                                /\ mySlot[x] \in Slot)
    /\ child' = child \ {m}

\* SUB_Remove at the end of the fade of a corpse that has an owner or was
\* gibbed, and UTIL_Remove, which a map's kill target may call at any time.
UpdateOnRemove(m) ==
    /\ life[m] # "none"
    /\ maker' = DeathNotice(m)
    /\ owned' = owned \ {m}
    /\ informed' = informed \ {m}
    /\ Remove(m)
    /\ UNCHANGED named

\* A saved game or a level change restores every field but m_afSquadSlots.
Restore ==
    /\ slots' = [m \in Monster |-> {}]
    /\ strayed' = (strayed \/ \E m \in Monster : mySlot[m] \in Slot)
    /\ UNCHANGED <<life, named, leader, member, mySlot, child, owned, informed, maker>>

Next ==
    \/ ToggleUse
    \/ Restore
    \/ \E m \in Monster :
         \/ MakerThink(m) \/ CyclicUse(m)
         \/ StartMonster(m) \/ MaintainSchedule(m) \/ Die(m)
         \/ \E gib \in BOOLEAN : Killed(m, gib)
         \/ UpdateOnRemove(m)

Spec == Init /\ [][Next]_vars

-----------------------------------------------------------------------------
(* Properties.                                                             *)

TypeOK ==
    /\ life \in [Monster -> Lives]
    /\ named \subseteq Monster
    /\ leader \in [Monster -> Monster \cup {Null}]
    /\ member \in [Monster -> SUBSET Monster]
    /\ \A m \in Monster : Cardinality(member[m]) < MAX_SQUAD_MEMBERS
    /\ slots \in [Monster -> SUBSET Slot]
    /\ mySlot \in [Monster -> Slot \cup {NoSlot, Split}]
    /\ owned \subseteq child /\ child \subseteq Monster
    /\ informed \subseteq Monster
    /\ maker \in [active : BOOLEAN, thinks : BOOLEAN, fade : BOOLEAN,
                   use : {"toggle", "cyclic", "none"}, num : Int, live : Nat]
    /\ strayed \in BOOLEAN

\* A squad can be told from its leader and from its members alike: whoever has
\* a leader is in that leader's array, and the leader leads itself, as long as
\* neither has been killed and whatever corpses were recruited or kept in
\* between. It is what SquadMakeEnemy and OccupySlot rely on.
SquadLinks ==
    \A m \in Monster : LET l == leader[m] IN
        l # Null /\ Unharmed(m) /\ Unharmed(l) => leader[l] = l /\ (m = l \/ m \in member[l])

\* m_cLiveChildren counts the children that live: a child is reported once,
\* whether it was killed, gibbed later, faded out or removed by the map.
LiveChildren ==
    /\ maker.live = Cardinality({m \in child : Unharmed(m)})
    /\ MaxLiveChildren > 0 => maker.live <= MaxLiveChildren

\* Unless a slot was carried out of its squad, the slots taken at a leader are
\* exactly those its members hold, and no two members hold the same one.
SlotsHeld ==
    strayed \/
    \A l \in Monster : IsLeader(l) =>
        LET squadOf == {m \in Monster : leader[m] = l}
            holders == {m \in squadOf : mySlot[m] \in Slot} IN
        /\ slots[l] = {mySlot[m] : m \in holders}
        /\ Cardinality(slots[l]) = Cardinality(holders)

\* The ASSERTs of SquadRemove: whoever is asked to remove a member is a leader.
AsksALeader ==
    \A m \in Monster : InSquad(m) => IsLeader(leader[m])

=============================================================================
