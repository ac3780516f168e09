------------------------ MODULE SquadMonstersProofs ------------------------
(***************************************************************************)
(* Proofs about SquadMonsters, for any monsters, slots, sizes of squads    *)
(* and limits of the maker. The edict of a monster that is gone must have  *)
(* no trace left when the maker uses it again (FreeEdicts); SquadLinks     *)
(* needs to know what corpses point at (LeadersLead, MembersFollow).       *)
(***************************************************************************)
EXTENDS SquadMonsters, FiniteSetTheorems, TLAPS

USE SquadAssumption

\* Nothing refers to an edict that is free, and its entity is as new.
FreeEdicts ==
    \A m \in Monster : life[m] = "none" =>
        /\ m \notin child \cup owned \cup informed
        /\ leader[m] = Null /\ member[m] = {}
        /\ \A x \in Monster : leader[x] # m /\ m \notin member[x]
        /\ slots[m] = {} /\ mySlot[m] = NoSlot

\* A leader that was not killed leads itself, even if only corpses follow it.
LeadersLead ==
    \A m \in Monster :
        leader[m] # Null /\ Unharmed(leader[m]) => leader[leader[m]] = leader[m]

\* Only a corpse may be in the array of a monster that it does not follow.
MembersFollow ==
    \A l, m \in Monster : m \in member[l] /\ Unharmed(m) => leader[m] = l

\* A monster is in its leader's array, unless one of them was killed.
FollowersListed ==
    \A m \in Monster :
        leader[m] # Null /\ Unharmed(m) /\ Unharmed(leader[m]) =>
            m = leader[m] \/ m \in member[leader[m]]

LinkInv == FreeEdicts /\ LeadersLead /\ MembersFollow /\ FollowersListed

\* The maker has yet to be told of a child exactly as long as it lives.
OwnersWait ==
    \A m \in Monster :
        /\ m \in child /\ Unharmed(m) <=> m \in owned \ informed
        /\ m \in informed => ~Unharmed(m)

CountInv == OwnersWait /\ LiveChildren

\* A slot is taken at a leader if and only if one of its monsters holds it,
\* and nobody else does.
Taken(of, at, holds) ==
    /\ \A l \in Monster, s \in Slot :
           s \in at[l] <=> \E m \in Monster : of[m] = l /\ holds[m] = s
    /\ \A m, n \in Monster :
           of[m] # Null /\ of[m] = of[n] /\ holds[m] \in Slot /\ holds[m] = holds[n] => m = n
    /\ \A m \in Monster : of[m] = Null => holds[m] \notin Slot

SlotsTaken == Taken(leader, slots, mySlot)

SlotInv == strayed \/ SlotsTaken

SquadInv == TypeOK /\ LinkInv /\ CountInv /\ SlotInv

\* What TypeOK says of the maker.
Makers ==
    [active : BOOLEAN, thinks : BOOLEAN, fade : BOOLEAN,
     use : {"toggle", "cyclic", "none"}, num : Int, live : Nat]

-----------------------------------------------------------------------------
(* The helpers.                                                            *)

\* The children the maker counts are finitely many.
LEMMA ChildrenFinite ==
    ASSUME TypeOK
    PROVE  IsFiniteSet(owned \ informed) /\ Cardinality(owned \ informed) \in Nat
<1>1. owned \ informed \in SUBSET Monster
  BY DEF TypeOK
<1> QED
  BY <1>1, FS_Subset, FS_CardinalityType

\* The maker's count is that of the children it has yet to hear of.
LEMMA LiveAreOwned ==
    ASSUME TypeOK, OwnersWait
    PROVE  {m \in child : Unharmed(m)} = owned \ informed
  BY DEF TypeOK, OwnersWait

\* A part of a squad is no larger than the squad.
LEMMA SmallerSquad ==
    ASSUME TypeOK, NEW m \in Monster, NEW S \in SUBSET member[m]
    PROVE  Cardinality(S) \in Nat /\ Cardinality(S) < MAX_SQUAD_MEMBERS
<1>1. member[m] \in SUBSET Monster /\ Cardinality(member[m]) < MAX_SQUAD_MEMBERS
  BY DEF TypeOK
<1>2. IsFiniteSet(member[m]) /\ Cardinality(member[m]) \in Nat
  BY <1>1, FS_Subset, FS_CardinalityType
<1>3. IsFiniteSet(S) /\ Cardinality(S) <= Cardinality(member[m]) /\ Cardinality(S) \in Nat
  BY <1>2, FS_Subset, FS_CardinalityType
<1> QED
  BY <1>1, <1>2, <1>3

\* Giving a slot back changes the slots of one leader and of the monster.
LEMMA VacateSlotType ==
    ASSUME TypeOK, NEW m \in Monster, VacateSlot(m)
    PROVE  /\ slots' \in [Monster -> SUBSET Slot]
           /\ mySlot' \in [Monster -> Slot \cup {NoSlot, Split}]
  BY DEF TypeOK, VacateSlot, InSquad

\* SquadRemove takes monsters out of squads and puts none into any.
LEMMA SquadRemoveType ==
    ASSUME TypeOK, NEW m \in Monster, InSquad(m), SquadRemove(m)
    PROVE  /\ leader' \in [Monster -> Monster \cup {Null}]
           /\ member' \in [Monster -> SUBSET Monster]
           /\ \A x \in Monster : leader'[x] \in {leader[x], Null} /\ member'[x] \subseteq member[x]
           /\ leader'[m] = Null
<1> DEFINE l == leader[m]
<1>1. l \in Monster /\ MySquadLeader(l) \in Monster \cup {Null}
  BY DEF TypeOK, InSquad, MySquadLeader
<1>2. CASE m = MySquadLeader(l)
  BY <1>1, <1>2 DEF TypeOK, SquadRemove
<1>3. CASE m # MySquadLeader(l)
  BY <1>1, <1>3 DEF TypeOK, SquadRemove
<1> QED
  BY <1>2, <1>3

\* Recruiting does not exceed the leader's array.
LEMMA SquadRecruitType ==
    ASSUME TypeOK, NEW m \in Monster, SquadRecruit(m)
    PROVE  /\ leader' \in [Monster -> Monster \cup {Null}]
           /\ member' \in [Monster -> SUBSET Monster]
           /\ \A x \in Monster : Cardinality(member'[x]) < MAX_SQUAD_MEMBERS
<1>1. PICK R \in Recruits(m) :
        /\ leader' = IF R = {} THEN leader
                     ELSE [x \in Monster |-> IF x \in R \cup {m} THEN m ELSE leader[x]]
        /\ member' = [member EXCEPT ![m] = @ \cup R]
  BY DEF SquadRecruit
<1>2. R \in SUBSET Monster /\ Cardinality(R) <= MAX_SQUAD_MEMBERS - 1 - Cardinality(member[m])
  BY <1>1 DEF Recruits, Candidates
<1>3. member[m] \in SUBSET Monster
  BY DEF TypeOK
<1>4. IsFiniteSet(R) /\ IsFiniteSet(member[m]) /\ Cardinality(R) \in Nat
      /\ Cardinality(member[m]) \in Nat
  BY <1>2, <1>3, FS_Subset, FS_CardinalityType
<1>5. Cardinality(member[m] \cup R) <= MAX_SQUAD_MEMBERS - 1 /\ Cardinality(member[m] \cup R) \in Nat
  <2>1. IsFiniteSet(member[m] \cup R)
        /\ Cardinality(member[m] \cup R) =
             Cardinality(member[m]) + Cardinality(R) - Cardinality(member[m] \cap R)
    BY <1>4, FS_Union
  <2>2. Cardinality(member[m] \cup R) \in Nat /\ Cardinality(member[m] \cap R) \in Nat
    BY <1>4, <2>1, FS_CardinalityType, FS_Intersection
  <2> QED
    BY <1>2, <1>4, <2>1, <2>2
<1>6. \A x \in Monster : Cardinality(member'[x]) < MAX_SQUAD_MEMBERS
  <2> SUFFICES ASSUME NEW x \in Monster PROVE Cardinality(member'[x]) < MAX_SQUAD_MEMBERS
    OBVIOUS
  <2>1. CASE x = m
    BY <1>1, <1>5, <2>1 DEF TypeOK
  <2>2. CASE x # m
    BY <1>1, <2>2 DEF TypeOK
  <2> QED
    BY <2>1, <2>2
<1> QED
  BY <1>1, <1>2, <1>6 DEF TypeOK

\* A notice takes one off a count that is not 0, and leaves the rest.
LEMMA DeathNoticeType ==
    ASSUME TypeOK, CountInv, NEW m \in Monster
    PROVE  /\ DeathNotice(m) \in Makers
           /\ DeathNotice(m).live = Cardinality((owned \ informed) \ {m})
           /\ DeathNotice(m).live <= maker.live
<1>1. maker.live = Cardinality(owned \ informed)
  BY LiveAreOwned DEF CountInv, LiveChildren
<1>2. IsFiniteSet(owned \ informed) /\ Cardinality(owned \ informed) \in Nat
  BY ChildrenFinite
<1>3. IsFiniteSet((owned \ informed) \ {m})
      /\ Cardinality((owned \ informed) \ {m}) =
           IF m \in owned \ informed THEN maker.live - 1 ELSE maker.live
  BY <1>1, <1>2, FS_RemoveElement
<1>4. Cardinality((owned \ informed) \ {m}) \in Nat
  BY <1>3, FS_CardinalityType
<1>5. CASE m \in owned \ informed
  BY <1>1, <1>2, <1>3, <1>4, <1>5 DEF DeathNotice, TypeOK, Makers
<1>6. CASE m \notin owned \ informed
  BY <1>1, <1>2, <1>3, <1>4, <1>6 DEF DeathNotice, TypeOK, Makers
<1> QED
  BY <1>5, <1>6

-----------------------------------------------------------------------------
(* Types.                                                                  *)

\* Who kills a monster takes it out of its squad and gives its slot back.
LEMMA KilledType ==
    ASSUME TypeOK, CountInv, NEW m \in Monster, NEW gib \in BOOLEAN, Killed(m, gib)
    PROVE  TypeOK'
<1>1. /\ slots' \in [Monster -> SUBSET Slot]
      /\ mySlot' \in [Monster -> Slot \cup {NoSlot, Split}]
  BY VacateSlotType DEF Killed
<1>2. /\ leader' \in [Monster -> Monster \cup {Null}]
      /\ member' \in [Monster -> SUBSET Monster]
      /\ \A x \in Monster : member'[x] \subseteq member[x]
  <2>1. CASE InSquad(m)
    BY <2>1, SquadRemoveType DEF Killed
  <2>2. CASE ~InSquad(m)
    BY <2>2 DEF Killed, TypeOK
  <2> QED
    BY <2>1, <2>2
<1>3. \A x \in Monster : Cardinality(member'[x]) < MAX_SQUAD_MEMBERS
  BY <1>2, SmallerSquad
<1>4. life' \in [Monster -> Lives]
  BY DEF Killed, TypeOK, Lives
<1>5. /\ owned' \subseteq child' /\ child' \subseteq Monster /\ informed' \subseteq Monster
      /\ named' \subseteq Monster /\ strayed' \in BOOLEAN
  BY DEF Killed, TypeOK
<1>6. maker' = maker \/ maker' = DeathNotice(m)
  BY DEF Killed
<1>7. maker' \in Makers
  <2>1. maker \in Makers
    BY DEF TypeOK, Makers
  <2>2. DeathNotice(m) \in Makers
    BY DeathNoticeType
  <2> QED
    BY <1>6, <2>1, <2>2
<1> QED
  BY <1>1, <1>2, <1>3, <1>4, <1>5, <1>7 DEF TypeOK, Makers

\* Who goes away leaves an empty edict.
LEMMA UpdateOnRemoveType ==
    ASSUME TypeOK, CountInv, NEW m \in Monster, UpdateOnRemove(m)
    PROVE  TypeOK'
<1>1. /\ leader' \in [Monster -> Monster \cup {Null}]
      /\ member' \in [Monster -> SUBSET Monster]
      /\ \A x \in Monster : member'[x] \subseteq member[x]
  BY DEF UpdateOnRemove, Remove, TypeOK
<1>2. \A x \in Monster : Cardinality(member'[x]) < MAX_SQUAD_MEMBERS
  BY <1>1, SmallerSquad
<1>3. /\ slots' \in [Monster -> SUBSET Slot]
      /\ mySlot' \in [Monster -> Slot \cup {NoSlot, Split}]
      /\ life' \in [Monster -> Lives]
  BY DEF UpdateOnRemove, Remove, TypeOK, Lives
<1>4. /\ owned' \subseteq child' /\ child' \subseteq Monster /\ informed' \subseteq Monster
      /\ named' \subseteq Monster /\ strayed' \in BOOLEAN
  BY DEF UpdateOnRemove, Remove, TypeOK
<1>5. maker' \in Makers
  BY DeathNoticeType DEF UpdateOnRemove
<1> QED
  BY <1>1, <1>2, <1>3, <1>4, <1>5 DEF TypeOK, Makers

\* The slots a monster asks for are slots.
LEMMA MaintainScheduleType ==
    ASSUME TypeOK, NEW m \in Monster, MaintainSchedule(m)
    PROVE  TypeOK'
<1>1. InSquad(m) => leader[m] \in Monster
  BY DEF TypeOK, InSquad
<1>2. /\ slots' \in [Monster -> SUBSET Slot]
      /\ mySlot' \in [Monster -> Slot \cup {NoSlot, Split}]
  <2>1. CASE VacateSlot(m)
    BY <2>1, VacateSlotType
  <2>2. CASE /\ InSquad(m)
             /\ mySlot' = [mySlot EXCEPT ![m] = Split]
             /\ slots' = [slots EXCEPT ![leader[m]] = @ \ {mySlot[m]}]
    BY <1>1, <2>2 DEF TypeOK
  <2>3. CASE /\ InSquad(m)
             /\ \E s \in Slot :
                  /\ mySlot' = [mySlot EXCEPT ![m] = s]
                  /\ slots' = [slots EXCEPT ![leader[m]] = (slots[leader[m]] \ {mySlot[m]}) \cup {s}]
    <3>1. PICK s \in Slot :
            /\ mySlot' = [mySlot EXCEPT ![m] = s]
            /\ slots' = [slots EXCEPT ![leader[m]] = (slots[leader[m]] \ {mySlot[m]}) \cup {s}]
      BY <2>3
    <3> QED
      BY <1>1, <2>3, <3>1 DEF TypeOK
  <2> QED
    BY <2>1, <2>2, <2>3 DEF MaintainSchedule
<1> QED
  BY <1>2 DEF MaintainSchedule, TypeOK

LEMMA InitType == Init => TypeOK
<1> SUFFICES ASSUME Init PROVE TypeOK
  OBVIOUS
<1>1. \A m \in Monster : Cardinality(member[m]) < MAX_SQUAD_MEMBERS
  <2>1. Cardinality({}) = 0
    BY FS_EmptySet
  <2> QED
    BY <2>1 DEF Init
<1>2. maker \in [active : BOOLEAN, thinks : BOOLEAN, fade : BOOLEAN,
                 use : {"toggle", "cyclic", "none"}, num : Int, live : Nat]
  <2>1. PICK num \in NumMonsters, on \in BOOLEAN, use \in {"toggle", "cyclic", "none"} :
          maker = [active |-> on, thinks |-> use = "none", use |-> use,
                   num |-> num, live |-> 0, fade |-> num # 1]
    BY DEF Init
  <2>2. num \in Int /\ (use = "none") \in BOOLEAN /\ (num # 1) \in BOOLEAN
    OBVIOUS
  <2> QED
    BY <2>1, <2>2
<1> QED
  BY <1>1, <1>2 DEF Init, TypeOK, Lives

\* Every step keeps the types.
LEMMA NextType ==
    ASSUME TypeOK, CountInv, [Next]_vars
    PROVE  TypeOK'
<1>1. CASE ToggleUse
  BY <1>1 DEF ToggleUse, squad, TypeOK
<1>2. CASE Restore
  BY <1>2 DEF Restore, TypeOK
<1>3. ASSUME NEW m \in Monster, MakeMonster(m)
      PROVE  TypeOK'
  <2> DEFINE num == IF maker.num = -1 THEN -1 ELSE maker.num - 1
  <2>1. maker \in Makers
    BY DEF TypeOK, Makers
  <2>2. num \in Int /\ maker.live + 1 \in Nat /\ (maker.thinks /\ num # 0) \in BOOLEAN
        /\ (IF num = 0 THEN "none" ELSE maker.use) \in {"toggle", "cyclic", "none"}
    BY <2>1 DEF Makers
  <2>3. maker' = [maker EXCEPT !.live = maker.live + 1, !.num = num,
                               !.thinks = maker.thinks /\ num # 0,
                               !.use = IF num = 0 THEN "none" ELSE maker.use]
    BY <1>3, <2>1 DEF MakeMonster, Makers
  <2>4. maker' \in Makers
    <3> HIDE DEF num
    <3> QED
      BY <2>1, <2>2, <2>3 DEF Makers
  <2> QED
    BY <1>3, <2>4 DEF MakeMonster, TypeOK, squad, Lives, Makers
<1>4. ASSUME NEW m \in Monster, StartMonster(m)
      PROVE  TypeOK'
  <2>1. /\ leader' \in [Monster -> Monster \cup {Null}]
        /\ member' \in [Monster -> SUBSET Monster]
        /\ \A x \in Monster : Cardinality(member'[x]) < MAX_SQUAD_MEMBERS
    BY <1>4, SquadRecruitType DEF StartMonster, TypeOK
  <2> QED
    BY <1>4, <2>1 DEF StartMonster, TypeOK, Lives
<1>5. ASSUME NEW m \in Monster, Die(m)
      PROVE  TypeOK'
  BY <1>5, VacateSlotType DEF Die, TypeOK, Lives
<1>6. CASE UNCHANGED vars
  BY <1>6 DEF vars, squad, TypeOK
<1> QED
  BY <1>1, <1>2, <1>3, <1>4, <1>5, <1>6, KilledType, UpdateOnRemoveType, MaintainScheduleType
     DEF Next, MakerThink, CyclicUse

-----------------------------------------------------------------------------
(* The squads' links.                                                      *)

\* The invariant looks at nothing else, and at lives only as far as this.
LEMMA LinksKept ==
    ASSUME TypeOK, LinkInv, UNCHANGED <<leader, member>>,
           \A m \in Monster : life'[m] = "none" =>
               /\ life[m] = "none" /\ m \notin child' \cup owned' \cup informed'
               /\ slots'[m] = {} /\ mySlot'[m] = NoSlot,
           \A m \in Monster : Unharmed(m)' => Unharmed(m)
    PROVE  LinkInv'
<1>1. leader' = leader /\ member' = member
  OBVIOUS
<1>2. FreeEdicts'
  BY <1>1 DEF LinkInv, FreeEdicts
<1>3. LeadersLead'
  <2> SUFFICES ASSUME NEW m \in Monster, leader[m] # Null, Unharmed(leader[m])'
               PROVE  leader[leader[m]] = leader[m]
    BY <1>1 DEF LeadersLead
  <2>1. leader[m] \in Monster
    BY DEF TypeOK
  <2> QED
    BY <2>1 DEF LinkInv, LeadersLead
<1>4. MembersFollow'
  BY <1>1 DEF LinkInv, MembersFollow
<1>5. FollowersListed'
  <2> SUFFICES ASSUME NEW m \in Monster, leader[m] # Null, Unharmed(m)', Unharmed(leader[m])'
               PROVE  m = leader[m] \/ m \in member[leader[m]]
    BY <1>1 DEF FollowersListed
  <2>1. leader[m] \in Monster
    BY DEF TypeOK
  <2> QED
    BY <2>1 DEF LinkInv, FollowersListed
<1> QED
  BY <1>2, <1>3, <1>4, <1>5 DEF LinkInv

\* A monster that starts may recruit; it and its recruits had no squad.
LEMMA StartMonsterLinks ==
    ASSUME TypeOK, LinkInv, NEW m \in Monster, StartMonster(m)
    PROVE  LinkInv'
<1>1. \A x \in Monster : (Unharmed(x)' <=> Unharmed(x)) /\ (life'[x] = "none" <=> life[x] = "none")
  BY DEF StartMonster, Unharmed, TypeOK
<1>2. UNCHANGED <<slots, mySlot, child, owned, informed>> /\ life[m] # "none"
  BY DEF StartMonster
<1>3. CASE UNCHANGED <<leader, member>>
  BY <1>1, <1>2, <1>3, LinksKept DEF LinkInv, FreeEdicts
<1>4. CASE SquadRecruit(m) /\ ~InSquad(m)
  <2>1. PICK R \in Recruits(m) :
          /\ leader' = IF R = {} THEN leader
                       ELSE [x \in Monster |-> IF x \in R \cup {m} THEN m ELSE leader[x]]
          /\ member' = [member EXCEPT ![m] = @ \cup R]
    BY <1>4 DEF SquadRecruit
  <2>2. CASE R = {}
    <3>1. member' = member
      BY <2>1, <2>2 DEF TypeOK
    <3> QED
      BY <1>3, <2>1, <2>2, <3>1
  <2>3. CASE R # {}
    <3>1. R \subseteq Monster /\ m \notin R /\ \A r \in R : leader[r] = Null /\ life[r] # "none"
      BY <2>1 DEF Recruits, Candidates, InSquad
    <3>2. leader[m] = Null /\ m # Null
      BY <1>4 DEF InSquad
    <3>3. \A x \in Monster : leader'[x] = IF x \in R \cup {m} THEN m ELSE leader[x]
      BY <2>1, <2>3
    <3>4. \A x \in Monster : member'[x] = IF x = m THEN member[m] \cup R ELSE member[x]
      BY <2>1 DEF TypeOK
    <3>5. leader \in [Monster -> Monster \cup {Null}]
      BY DEF TypeOK
    <3>6. FreeEdicts'
      BY <1>1, <1>2, <3>1, <3>3, <3>4 DEF LinkInv, FreeEdicts
    <3>7. LeadersLead'
      BY <1>1, <3>1, <3>2, <3>3, <3>5 DEF LinkInv, LeadersLead
    <3>8. MembersFollow'
      BY <1>1, <3>1, <3>2, <3>3, <3>4 DEF LinkInv, MembersFollow
    <3>9. FollowersListed'
      BY <1>1, <3>1, <3>2, <3>3, <3>4, <3>5 DEF LinkInv, LeadersLead, FollowersListed
    <3> QED
      BY <3>6, <3>7, <3>8, <3>9 DEF LinkInv
  <2> QED
    BY <2>2, <2>3
<1> QED
  BY <1>3, <1>4 DEF StartMonster

\* A monster that is made finds its edict without a trace.
LEMMA MakeMonsterLinks ==
    ASSUME TypeOK, LinkInv, NEW m \in Monster, MakeMonster(m)
    PROVE  LinkInv'
<1>1. \A x \in Monster : life'[x] = IF x = m THEN "spawned" ELSE life[x]
  BY DEF MakeMonster, TypeOK
<1>2. life[m] = "none" /\ UNCHANGED <<leader, member, slots, mySlot, informed>>
  BY DEF MakeMonster, squad
<1>3. child' = child \cup {m} /\ owned' = owned \cup {m}
  BY DEF MakeMonster
<1>4. \A x \in Monster : leader[x] # m /\ m \notin member[x]
  BY <1>2 DEF LinkInv, FreeEdicts
<1>5. FreeEdicts'
  BY <1>1, <1>2, <1>3 DEF LinkInv, FreeEdicts
<1>6. leader[m] = Null /\ member[m] = {}
  BY <1>2 DEF LinkInv, FreeEdicts
<1>7. LeadersLead' /\ MembersFollow' /\ FollowersListed'
  BY <1>1, <1>2, <1>4, <1>6 DEF LinkInv, LeadersLead, MembersFollow, FollowersListed, Unharmed, TypeOK
<1> QED
  BY <1>5, <1>7 DEF LinkInv

\* A monster that is gone is in no squad and has none.
LEMMA UpdateOnRemoveLinks ==
    ASSUME TypeOK, LinkInv, NEW m \in Monster, UpdateOnRemove(m)
    PROVE  LinkInv'
<1>1. \A x \in Monster : life'[x] = IF x = m THEN "none" ELSE life[x]
  BY DEF UpdateOnRemove, Remove, TypeOK
<1>2. \A x \in Monster : /\ leader'[x] = IF x = m \/ leader[x] = m THEN Null ELSE leader[x]
                        /\ member'[x] = IF x = m THEN {} ELSE member[x] \ {m}
  BY DEF UpdateOnRemove, Remove
<1>3. \A x \in Monster : /\ slots'[x] = IF x = m THEN {} ELSE slots[x]
                        /\ mySlot'[x] = IF x = m THEN NoSlot ELSE mySlot[x]
  BY DEF UpdateOnRemove, Remove, TypeOK
<1>4. child' = child \ {m} /\ owned' = owned \ {m} /\ informed' = informed \ {m}
  BY DEF UpdateOnRemove, Remove
<1>5. m # Null /\ leader \in [Monster -> Monster \cup {Null}]
  BY DEF TypeOK
<1>6. FreeEdicts'
  <2> SUFFICES ASSUME NEW x \in Monster, life'[x] = "none"
               PROVE  /\ x \notin child' \cup owned' \cup informed'
                      /\ leader'[x] = Null /\ member'[x] = {}
                      /\ \A y \in Monster : leader'[y] # x /\ x \notin member'[y]
                      /\ slots'[x] = {} /\ mySlot'[x] = NoSlot
    BY DEF FreeEdicts
  <2>1. CASE x = m
    BY <1>2, <1>3, <1>4, <1>5, <2>1
  <2>2. CASE x # m
    <3>1. /\ x \notin child \cup owned \cup informed
          /\ leader[x] = Null /\ member[x] = {}
          /\ \A y \in Monster : leader[y] # x /\ x \notin member[y]
          /\ slots[x] = {} /\ mySlot[x] = NoSlot
      BY <1>1, <2>2 DEF LinkInv, FreeEdicts
    <3>2. \A y \in Monster : leader'[y] # x /\ x \notin member'[y]
      BY <1>2, <1>5, <3>1
    <3> QED
      BY <1>2, <1>3, <1>4, <2>2, <3>1, <3>2
  <2> QED
    BY <2>1, <2>2
<1>7. \A x \in Monster : Unharmed(x)' <=> Unharmed(x) /\ x # m
  BY <1>1 DEF Unharmed
<1>8. LeadersLead'
  BY <1>2, <1>5, <1>7 DEF LinkInv, LeadersLead
<1>9. MembersFollow'
  BY <1>2, <1>5, <1>7 DEF LinkInv, MembersFollow
<1>10. FollowersListed'
  BY <1>2, <1>5, <1>7 DEF LinkInv, FollowersListed
<1> QED
  BY <1>6, <1>8, <1>9, <1>10 DEF LinkInv

\* A monster that is killed leaves its squad. If it is the leader of its leader,
\* that is itself or a corpse, and all who are listed go with it.
LEMMA KilledLinks ==
    ASSUME TypeOK, LinkInv, NEW m \in Monster, NEW gib \in BOOLEAN, Killed(m, gib)
    PROVE  LinkInv'
<1> DEFINE l == leader[m]
<1>1. /\ \A x \in Monster : Unharmed(x)' <=> Unharmed(x) /\ x # m
      /\ \A x \in Monster : life'[x] = "none" <=> life[x] = "none"
      /\ life[m] # "none"
  BY DEF Killed, Unharmed, TypeOK
<1>2. UNCHANGED child /\ owned' \subseteq owned /\ informed' \subseteq informed \cup {m}
  BY DEF Killed
<1>3. \A x \in Monster : x # m /\ slots[x] = {} => slots'[x] = {}
  BY DEF Killed, VacateSlot, TypeOK, InSquad
<1>4. \A x \in Monster : x # m => mySlot'[x] = mySlot[x]
  BY DEF Killed, VacateSlot, TypeOK
<1>5. CASE ~InSquad(m)
  <2>1. UNCHANGED <<leader, member>>
    BY <1>5 DEF Killed
  <2> QED
    BY <1>1, <1>2, <1>3, <1>4, <2>1, LinksKept DEF LinkInv, FreeEdicts
<1>6. CASE InSquad(m)
  <2>1. l \in Monster /\ l # Null /\ leader \in [Monster -> Monster \cup {Null}]
    BY <1>6 DEF TypeOK, InSquad
  <2>2. Unharmed(l) => leader[l] = l
    BY <2>1 DEF LinkInv, LeadersLead
  <2>3. FreeEdicts'
    <3>1. \A x \in Monster : leader'[x] \in {leader[x], Null} /\ member'[x] \subseteq member[x]
      BY <1>6, SquadRemoveType DEF Killed
    <3> QED
      BY <1>1, <1>2, <1>3, <1>4, <3>1 DEF LinkInv, FreeEdicts
  <2>4. CASE m = MySquadLeader(l)
    <3>1. /\ \A x \in Monster : leader'[x] = IF x \in member[l] \cup {m} THEN Null ELSE leader[x]
          /\ \A x \in Monster : member'[x] = IF x = l THEN {} ELSE member[x]
      BY <1>6, <2>1, <2>4 DEF Killed, SquadRemove, TypeOK
    <3>2. Unharmed(l) => m = l
      BY <2>1, <2>2, <2>4 DEF MySquadLeader, InSquad
    <3>3. \A x \in member[l] : Unharmed(x) => leader[x] = l
      BY <2>1 DEF LinkInv, MembersFollow, TypeOK
    <3>4. LeadersLead'
      BY <1>1, <2>1, <3>1, <3>2, <3>3 DEF LinkInv, LeadersLead
    <3>5. MembersFollow'
      BY <1>1, <2>1, <3>1, <3>3 DEF LinkInv, MembersFollow
    <3>6. FollowersListed'
      BY <1>1, <2>1, <3>1 DEF LinkInv, FollowersListed
    <3> QED
      BY <2>3, <3>4, <3>5, <3>6 DEF LinkInv
  <2>5. CASE m # MySquadLeader(l)
    <3>1. /\ \A x \in Monster : leader'[x] = IF x = m THEN Null ELSE leader[x]
          /\ \A x \in Monster : member'[x] = IF x = MySquadLeader(l) THEN member[x] \ {l} ELSE member[x]
      BY <1>6, <2>1, <2>5 DEF Killed, SquadRemove, TypeOK
    <3>2. LeadersLead'
      BY <1>1, <2>1, <3>1 DEF LinkInv, LeadersLead
    <3>3. MembersFollow'
      BY <1>1, <3>1 DEF LinkInv, MembersFollow
    <3>4. FollowersListed'
      <4> SUFFICES ASSUME NEW x \in Monster, leader'[x] # Null, Unharmed(x)', Unharmed(leader[x])'
                   PROVE  x = leader'[x] \/ x \in member'[leader'[x]]
        BY DEF FollowersListed
      <4>1. x # m /\ leader'[x] = leader[x] /\ leader[x] \in Monster /\ leader[x] # Null
        BY <1>1, <2>1, <3>1
      <4>2. Unharmed(x) /\ Unharmed(leader[x])
        BY <1>1, <4>1 DEF Unharmed
      <4>3. x = leader[x] \/ x \in member[leader[x]]
        BY <4>1, <4>2 DEF LinkInv, FollowersListed
      <4>4. x = l => leader[x] = x
        BY <2>2, <4>2
      <4> QED
        BY <3>1, <4>1, <4>3, <4>4
    <3> QED
      BY <2>3, <3>2, <3>3, <3>4 DEF LinkInv
  <2> QED
    BY <2>4, <2>5
<1> QED
  BY <1>5, <1>6

\* Every step keeps the links.
LEMMA NextLinks ==
    ASSUME TypeOK, LinkInv, [Next]_vars
    PROVE  LinkInv'
<1>1. CASE ToggleUse \/ UNCHANGED vars
  BY <1>1, LinksKept DEF ToggleUse, squad, vars, LinkInv, FreeEdicts, Unharmed
<1>2. CASE Restore
  BY <1>2, LinksKept DEF Restore, LinkInv, FreeEdicts, Unharmed
<1>3. ASSUME NEW m \in Monster, MaintainSchedule(m) \/ Die(m)
      PROVE  LinkInv'
  <2>1. UNCHANGED <<leader, member, child, owned, informed>> /\ life[m] # "none"
    BY <1>3 DEF MaintainSchedule, Die
  <2>2. \A x \in Monster : life'[x] = "none" => life[x] = "none" /\ x # m
    BY <1>3 DEF MaintainSchedule, Die, TypeOK
  <2>3. \A x \in Monster : Unharmed(x)' => Unharmed(x)
    BY <1>3 DEF MaintainSchedule, Die, Unharmed, TypeOK
  <2>4. \A x \in Monster : x # m /\ x # leader[m] => slots'[x] = slots[x]
    BY <1>3 DEF MaintainSchedule, Die, VacateSlot, TypeOK
  <2>5. \A x \in Monster : x # m => mySlot'[x] = mySlot[x]
    BY <1>3 DEF MaintainSchedule, Die, VacateSlot, TypeOK
  <2>6. \A x \in Monster : life'[x] = "none" =>
            /\ life[x] = "none" /\ x \notin child' \cup owned' \cup informed'
            /\ slots'[x] = {} /\ mySlot'[x] = NoSlot
    <3> SUFFICES ASSUME NEW x \in Monster, life'[x] = "none"
                 PROVE  /\ life[x] = "none" /\ x \notin child \cup owned \cup informed
                        /\ slots'[x] = {} /\ mySlot'[x] = NoSlot
      BY <2>1
    <3>1. life[x] = "none" /\ x # m
      BY <2>2
    <3>2. /\ x \notin child \cup owned \cup informed
          /\ leader[m] # x /\ slots[x] = {} /\ mySlot[x] = NoSlot
      BY <3>1 DEF LinkInv, FreeEdicts
    <3> QED
      BY <2>4, <2>5, <3>1, <3>2
  <2> QED
    BY <2>1, <2>3, <2>6, LinksKept
<1> QED
  BY <1>1, <1>2, <1>3, MakeMonsterLinks, StartMonsterLinks, KilledLinks, UpdateOnRemoveLinks
     DEF Next, MakerThink, CyclicUse

-----------------------------------------------------------------------------
(* The maker's count.                                                      *)

\* It is right if it is that of the children the maker has yet to hear of.
LEMMA CountFrom ==
    ASSUME TypeOK', OwnersWait', maker'.live = Cardinality(owned' \ informed'),
           MaxLiveChildren > 0 => maker'.live <= MaxLiveChildren
    PROVE  CountInv'
<1>1. {m \in child' : Unharmed(m)'} = owned' \ informed'
  BY DEF TypeOK, OwnersWait
<1> QED
  BY <1>1 DEF CountInv, LiveChildren

\* Steps of monsters that stay alive, or dead, do not concern the maker.
LEMMA CountKept ==
    ASSUME TypeOK, TypeOK', CountInv, UNCHANGED <<child, owned, informed>>, maker'.live = maker.live,
           \A m \in Monster : Unharmed(m)' <=> Unharmed(m)
    PROVE  CountInv'
<1>1. child' = child /\ owned' = owned /\ informed' = informed
  OBVIOUS
<1>2. OwnersWait'
  BY <1>1 DEF CountInv, OwnersWait
<1>3. maker.live = Cardinality(owned \ informed)
  BY LiveAreOwned DEF CountInv, LiveChildren
<1>4. MaxLiveChildren > 0 => maker.live <= MaxLiveChildren
  BY DEF CountInv, LiveChildren
<1> QED
  BY <1>1, <1>2, <1>3, <1>4, CountFrom

\* A new child is owned, and its edict was not known to the maker.
LEMMA MakeMonsterCount ==
    ASSUME TypeOK, TypeOK', LinkInv, CountInv, NEW m \in Monster, MakeMonster(m)
    PROVE  CountInv'
<1>1. /\ \A x \in Monster : Unharmed(x)' <=> Unharmed(x) \/ x = m
      /\ life[m] = "none"
  BY DEF MakeMonster, Unharmed, TypeOK
<1>2. m \notin child /\ m \notin owned /\ m \notin informed
  BY <1>1 DEF LinkInv, FreeEdicts
<1>3. child' = child \cup {m} /\ owned' = owned \cup {m} /\ informed' = informed
  BY DEF MakeMonster
<1>4. OwnersWait'
  BY <1>1, <1>2, <1>3 DEF CountInv, OwnersWait
<1>5. owned' \ informed' = (owned \ informed) \cup {m}
  BY <1>2, <1>3
<1>6. Cardinality(owned' \ informed') = Cardinality(owned \ informed) + 1
  BY <1>2, <1>5, ChildrenFinite, FS_AddElement
<1>7. maker.live = Cardinality(owned \ informed)
  BY LiveAreOwned DEF CountInv, LiveChildren
<1>8. maker.live \in Nat /\ maker'.live = maker.live + 1
  <2>1. maker \in Makers
    BY DEF TypeOK, Makers
  <2> QED
    BY <2>1 DEF MakeMonster, Makers
<1>9. MaxLiveChildren > 0 => maker'.live <= MaxLiveChildren
  BY <1>8 DEF MakeMonster
<1> QED
  BY <1>4, <1>6, <1>7, <1>8, <1>9, CountFrom

\* Whoever dies or goes away is taken off the count, unless it was before.
LEMMA NoticeCount ==
    ASSUME TypeOK, TypeOK', CountInv, OwnersWait', NEW m \in Monster,
           maker' = DeathNotice(m), owned' \ informed' = (owned \ informed) \ {m}
    PROVE  CountInv'
<1>1. maker'.live = Cardinality(owned' \ informed') /\ maker'.live <= maker.live
  BY DeathNoticeType
<1>2. maker.live \in Nat /\ maker'.live \in Nat
  BY DEF TypeOK
<1>3. MaxLiveChildren > 0 => maker.live <= MaxLiveChildren
  BY DEF CountInv, LiveChildren
<1> QED
  BY <1>1, <1>2, <1>3, CountFrom

LEMMA KilledCount ==
    ASSUME TypeOK, TypeOK', CountInv, NEW m \in Monster, NEW gib \in BOOLEAN, Killed(m, gib)
    PROVE  CountInv'
<1>1. \A x \in Monster : Unharmed(x)' <=> Unharmed(x) /\ x # m
  BY DEF Killed, Unharmed, TypeOK
<1>2. child' = child
  BY DEF Killed
<1>3. CASE Unharmed(m)
  <2>1. /\ maker' = DeathNotice(m) /\ informed' = informed \cup {m}
        /\ owned' = IF maker.fade THEN owned ELSE owned \ {m}
    BY <1>3 DEF Killed
  <2>2. OwnersWait'
    BY <1>1, <1>2, <2>1 DEF CountInv, OwnersWait
  <2>3. owned' \ informed' = (owned \ informed) \ {m}
    BY <2>1
  <2> QED
    BY <2>1, <2>2, <2>3, NoticeCount
<1>4. CASE ~Unharmed(m)
  <2>1. UNCHANGED <<child, owned, informed>> /\ maker'.live = maker.live
    BY <1>4 DEF Killed
  <2>2. \A x \in Monster : Unharmed(x)' <=> Unharmed(x)
    BY <1>1, <1>4
  <2> QED
    BY <2>1, <2>2, CountKept
<1> QED
  BY <1>3, <1>4

LEMMA UpdateOnRemoveCount ==
    ASSUME TypeOK, TypeOK', CountInv, NEW m \in Monster, UpdateOnRemove(m)
    PROVE  CountInv'
<1>1. \A x \in Monster : Unharmed(x)' <=> Unharmed(x) /\ x # m
  BY DEF UpdateOnRemove, Remove, Unharmed, TypeOK
<1>2. child' = child \ {m} /\ owned' = owned \ {m} /\ informed' = informed \ {m}
  BY DEF UpdateOnRemove, Remove
<1>3. OwnersWait'
  BY <1>1, <1>2 DEF CountInv, OwnersWait
<1>4. owned' \ informed' = (owned \ informed) \ {m}
  BY <1>2
<1> QED
  BY <1>3, <1>4, NoticeCount DEF UpdateOnRemove

\* Every step keeps the count.
LEMMA NextCount ==
    ASSUME TypeOK, TypeOK', LinkInv, CountInv, [Next]_vars
    PROVE  CountInv'
<1>1. CASE ToggleUse
  <2>1. maker \in Makers
    BY DEF TypeOK, Makers
  <2>2. maker'.live = maker.live
    BY <1>1, <2>1 DEF ToggleUse, Makers
  <2> QED
    BY <1>1, <2>2, CountKept DEF ToggleUse, Unharmed
<1>2. CASE Restore \/ UNCHANGED vars
  BY <1>2, CountKept DEF Restore, vars, Unharmed
<1>3. ASSUME NEW m \in Monster, StartMonster(m) \/ MaintainSchedule(m) \/ Die(m)
      PROVE  CountInv'
  <2>1. UNCHANGED <<child, owned, informed>> /\ maker'.live = maker.live
    BY <1>3 DEF StartMonster, MaintainSchedule, Die
  <2>2. \A x \in Monster : Unharmed(x)' <=> Unharmed(x)
    BY <1>3 DEF StartMonster, MaintainSchedule, Die, Unharmed, TypeOK
  <2> QED
    BY <2>1, <2>2, CountKept
<1> QED
  BY <1>1, <1>2, <1>3, MakeMonsterCount, KilledCount, UpdateOnRemoveCount
     DEF Next, MakerThink, CyclicUse

-----------------------------------------------------------------------------
(* The squads' slots.                                                      *)

LEMMA OtherSlots == NoSlot \notin Slot /\ Split \notin Slot
  BY DEF NoSlot, Split, Slot

\* A monster in a squad may give its slot back and take one that is free.
LEMMA ChangeSlot ==
    ASSUME TypeOK, SlotsTaken, NEW m \in Monster, InSquad(m), NEW v,
           v \in Slot => v \notin slots[leader[m]] \ {mySlot[m]},
           mySlot' = [mySlot EXCEPT ![m] = v],
           slots' = [slots EXCEPT ![leader[m]] = (slots[leader[m]] \ {mySlot[m]}) \cup (Slot \cap {v})]
    PROVE  Taken(leader, slots', mySlot')
<1> DEFINE l == leader[m]
<1>1. l \in Monster /\ l # Null
  BY DEF TypeOK, InSquad
<1>2. \A x \in Monster : mySlot'[x] = IF x = m THEN v ELSE mySlot[x]
  BY DEF TypeOK
<1>3. \A x \in Monster : slots'[x] =
         IF x = l THEN (slots[l] \ {mySlot[m]}) \cup (Slot \cap {v}) ELSE slots[x]
  BY <1>1 DEF TypeOK
<1>4. /\ \A k \in Monster, s \in Slot :
             s \in slots[k] <=> \E x \in Monster : leader[x] = k /\ mySlot[x] = s
      /\ \A x, y \in Monster :
             leader[x] # Null /\ leader[x] = leader[y] /\ mySlot[x] \in Slot /\ mySlot[x] = mySlot[y]
                 => x = y
      /\ \A x \in Monster : leader[x] = Null => mySlot[x] \notin Slot
  BY DEF SlotsTaken, Taken
<1> HIDE DEF l
<1>5. ASSUME NEW k \in Monster, NEW s \in Slot
      PROVE  s \in slots'[k] <=> \E x \in Monster : leader[x] = k /\ mySlot'[x] = s
  <2>1. CASE k # l
    BY <1>2, <1>3, <1>4, <2>1 DEF l
  <2>2. CASE k = l /\ s = v
    BY <1>2, <1>3, <2>2 DEF l
  <2>3. CASE k = l /\ s # v
    <3>1. s \in slots'[k] <=> s \in slots[l] /\ s # mySlot[m]
      BY <1>3, <2>3
    <3>2. s \in slots[l] <=> \E x \in Monster : leader[x] = l /\ mySlot[x] = s
      BY <1>1, <1>4
    <3>3. \A x \in Monster : leader[x] = l /\ mySlot[x] = s /\ s # mySlot[m] => mySlot'[x] = s
      BY <1>2
    <3>4. \A x \in Monster : mySlot'[x] = s => x # m /\ mySlot[x] = s
      BY <1>2, <2>3
    <3>5. \A x \in Monster : x # m /\ leader[x] = l /\ mySlot[x] = s => s # mySlot[m]
      BY <1>1, <1>4 DEF l
    <3> QED
      BY <2>3, <3>1, <3>2, <3>3, <3>4, <3>5
  <2> QED
    BY <2>1, <2>2, <2>3
<1>6. ASSUME NEW x \in Monster, NEW y \in Monster, leader[x] # Null, leader[x] = leader[y],
             mySlot'[x] \in Slot, mySlot'[x] = mySlot'[y], x # y
      PROVE  FALSE
  <2>1. CASE x # m /\ y # m
    BY <1>2, <1>4, <1>6, <2>1
  <2>2. ASSUME NEW z \in Monster, z # m, leader[z] = l, mySlot[z] = v, v \in Slot
        PROVE  FALSE
    BY <1>1, <1>4, <2>2 DEF l
  <2> QED
    BY <1>2, <1>6, <2>1, <2>2 DEF l
<1>7. \A x \in Monster : leader[x] = Null => mySlot'[x] \notin Slot
  BY <1>1, <1>2, <1>4 DEF l
<1> QED
  BY <1>5, <1>6, <1>7 DEF Taken

\* After VacateSlot, the slots are right and the monster holds none.
LEMMA VacateSlotTaken ==
    ASSUME TypeOK, SlotsTaken, NEW m \in Monster, VacateSlot(m)
    PROVE  /\ Taken(leader, slots', mySlot') /\ mySlot'[m] \notin Slot
           /\ \A x \in Monster : x # m => mySlot'[x] = mySlot[x]
<1>1. CASE InSquad(m)
  <2>1. mySlot' = [mySlot EXCEPT ![m] = NoSlot]
    BY <1>1 DEF VacateSlot
  <2>2. slots' = [slots EXCEPT ![leader[m]] = (slots[leader[m]] \ {mySlot[m]}) \cup (Slot \cap {NoSlot})]
    <3>1. leader[m] \in Monster /\ slots[leader[m]] \subseteq Slot
      BY <1>1 DEF TypeOK, InSquad
    <3>2. (slots[leader[m]] \ {mySlot[m]}) \cup (Slot \cap {NoSlot}) = slots[leader[m]] \ {mySlot[m]}
      BY OtherSlots
    <3>3. CASE mySlot[m] = NoSlot
      <4>1. slots' = slots /\ slots[leader[m]] \ {mySlot[m]} = slots[leader[m]]
        BY <3>1, <3>3, OtherSlots DEF VacateSlot
      <4> QED
        BY <3>1, <3>2, <4>1 DEF TypeOK
    <3>4. CASE mySlot[m] # NoSlot
      BY <1>1, <3>2, <3>4 DEF VacateSlot
    <3> QED
      BY <3>3, <3>4
  <2>3. Taken(leader, slots', mySlot')
    BY <1>1, <2>1, <2>2, ChangeSlot, OtherSlots
  <2> QED
    BY <2>1, <2>3, OtherSlots DEF TypeOK
<1>2. CASE ~InSquad(m)
  <2>1. slots' = slots /\ mySlot' = mySlot
    BY <1>2 DEF VacateSlot
  <2> QED
    BY <1>2, <2>1 DEF SlotsTaken, Taken, InSquad
<1> QED
  BY <1>1, <1>2

\* Monsters that hold no slot may change squads.
LEMMA LeadersOfOthers ==
    ASSUME Taken(leader, slots', mySlot'),
           \A x \in Monster : leader'[x] # leader[x] => mySlot'[x] \notin Slot
    PROVE  SlotsTaken'
<1>1. ASSUME NEW l \in Monster, NEW s \in Slot
      PROVE  s \in slots'[l] <=> \E x \in Monster : leader'[x] = l /\ mySlot'[x] = s
  <2>1. s \in slots'[l] <=> \E x \in Monster : leader[x] = l /\ mySlot'[x] = s
    BY DEF Taken
  <2>2. \A x \in Monster : mySlot'[x] = s => leader'[x] = leader[x]
    OBVIOUS
  <2> QED
    BY <2>1, <2>2
<1>2. ASSUME NEW x \in Monster, NEW y \in Monster, leader'[x] # Null, leader'[x] = leader'[y],
             mySlot'[x] \in Slot, mySlot'[x] = mySlot'[y]
      PROVE  x = y
  <2>1. leader[x] = leader'[x] /\ leader[y] = leader'[y]
    BY <1>2
  <2> QED
    BY <1>2, <2>1 DEF Taken
<1>3. \A x \in Monster : leader'[x] = Null => mySlot'[x] \notin Slot
  BY DEF Taken
<1> QED
  BY <1>1, <1>2, <1>3 DEF SlotsTaken, Taken

\* The schedule of a monster gives its slot back, and takes another.
LEMMA MaintainScheduleSlots ==
    ASSUME TypeOK, SlotsTaken, NEW m \in Monster, MaintainSchedule(m)
    PROVE  SlotsTaken'
<1>1. leader' = leader
  BY DEF MaintainSchedule
<1>2. CASE VacateSlot(m)
  BY <1>1, <1>2, VacateSlotTaken DEF SlotsTaken
<1>3. CASE /\ InSquad(m)
           /\ mySlot' = [mySlot EXCEPT ![m] = Split]
           /\ slots' = [slots EXCEPT ![leader[m]] = @ \ {mySlot[m]}]
  <2>1. (slots[leader[m]] \ {mySlot[m]}) \cup (Slot \cap {Split}) = slots[leader[m]] \ {mySlot[m]}
    BY OtherSlots
  <2>2. Taken(leader, slots', mySlot')
    BY <1>3, <2>1, ChangeSlot, OtherSlots
  <2> QED
    BY <1>1, <2>2 DEF SlotsTaken
<1>4. CASE /\ InSquad(m)
           /\ \E s \in Slot :
                /\ s \notin slots[leader[m]] \ {mySlot[m]}
                /\ mySlot' = [mySlot EXCEPT ![m] = s]
                /\ slots' = [slots EXCEPT ![leader[m]] = (slots[leader[m]] \ {mySlot[m]}) \cup {s}]
  <2>1. PICK s \in Slot :
          /\ s \notin slots[leader[m]] \ {mySlot[m]}
          /\ mySlot' = [mySlot EXCEPT ![m] = s]
          /\ slots' = [slots EXCEPT ![leader[m]] = (slots[leader[m]] \ {mySlot[m]}) \cup {s}]
    BY <1>4
  <2>2. Slot \cap {s} = {s}
    OBVIOUS
  <2>3. Taken(leader, slots', mySlot')
    BY <1>4, <2>1, <2>2, ChangeSlot
  <2> QED
    BY <1>1, <2>3 DEF SlotsTaken
<1> QED
  BY <1>2, <1>3, <1>4 DEF MaintainSchedule

\* Only monsters without a squad, and so without a slot, are recruited.
LEMMA StartMonsterSlots ==
    ASSUME TypeOK, SlotsTaken, NEW m \in Monster, StartMonster(m)
    PROVE  SlotsTaken'
<1>1. slots' = slots /\ mySlot' = mySlot
  BY DEF StartMonster
<1>2. \A x \in Monster : leader'[x] # leader[x] => leader[x] = Null
  <2>1. CASE SquadRecruit(m) /\ ~InSquad(m)
    <3>1. PICK R \in Recruits(m) :
            leader' = IF R = {} THEN leader
                      ELSE [x \in Monster |-> IF x \in R \cup {m} THEN m ELSE leader[x]]
      BY <2>1 DEF SquadRecruit
    <3>2. \A r \in R \cup {m} : leader[r] = Null
      BY <2>1 DEF Recruits, Candidates, InSquad
    <3> QED
      BY <3>1, <3>2
  <2> QED
    BY <2>1 DEF StartMonster
<1> QED
  BY <1>1, <1>2, LeadersOfOthers DEF SlotsTaken, Taken

\* Who is killed has no slot left to take out of the squad, and the others
\* that leave it have none, or one of them strays.
LEMMA KilledSlots ==
    ASSUME TypeOK, SlotsTaken, ~strayed', NEW m \in Monster, NEW gib \in BOOLEAN, Killed(m, gib)
    PROVE  SlotsTaken'
<1>1. /\ Taken(leader, slots', mySlot') /\ mySlot'[m] \notin Slot
      /\ \A x \in Monster : x # m => mySlot'[x] = mySlot[x]
  BY VacateSlotTaken DEF Killed
<1>2. \A x \in Monster \ {m} : leader[x] # leader'[x] => mySlot[x] \notin Slot
  BY DEF Killed
<1> QED
  BY <1>1, <1>2, LeadersOfOthers

\* Who goes away takes no slot along, and leaves none behind, or it strays.
LEMMA UpdateOnRemoveSlots ==
    ASSUME TypeOK, SlotsTaken, ~strayed', NEW m \in Monster, UpdateOnRemove(m)
    PROVE  SlotsTaken'
<1>1. /\ \A x \in Monster : leader'[x] = IF x = m \/ leader[x] = m THEN Null ELSE leader[x]
      /\ slots' = [slots EXCEPT ![m] = {}] /\ mySlot' = [mySlot EXCEPT ![m] = NoSlot]
  BY DEF UpdateOnRemove, Remove
<1>2. /\ slots'[m] = {} /\ mySlot'[m] = NoSlot
      /\ \A x \in Monster : x # m => slots'[x] = slots[x] /\ mySlot'[x] = mySlot[x]
  BY <1>1 DEF TypeOK
<1>3. \A x \in Monster : leader[x] # Null /\ (x = m \/ leader[x] = m) => mySlot[x] \notin Slot
  BY DEF UpdateOnRemove, Remove, InSquad
<1>4. mySlot[m] \notin Slot /\ \A x \in Monster : leader[x] = m => mySlot[x] \notin Slot
  BY <1>3 DEF SlotsTaken, Taken
<1>5. ASSUME NEW x \in Monster, NEW s \in Slot
      PROVE  mySlot'[x] = s <=> mySlot[x] = s
  <2>1. CASE x = m
    <3>1. mySlot'[m] \notin Slot /\ mySlot[m] \notin Slot
      BY <1>2, <1>4, OtherSlots
    <3> QED
      BY <2>1, <3>1
  <2>2. CASE x # m
    BY <1>2, <2>2
  <2> QED
    BY <2>1, <2>2
<1>6. \A l \in Monster, s \in Slot : s \in slots'[l] <=> s \in slots[l]
  BY <1>2, <1>4 DEF SlotsTaken, Taken
<1>7. Taken(leader, slots', mySlot')
  BY <1>2, <1>4, <1>5, <1>6 DEF SlotsTaken, Taken
<1>8. ASSUME NEW x \in Monster, leader'[x] # leader[x]
      PROVE  mySlot'[x] \notin Slot
  <2>1. x = m \/ leader[x] = m
    BY <1>1, <1>8
  <2>2. CASE x = m
    BY <1>2, <2>2, OtherSlots
  <2>3. CASE x # m
    BY <1>2, <1>4, <2>1, <2>3
  <2> QED
    BY <2>2, <2>3
<1> QED
  BY <1>7, <1>8, LeadersOfOthers

\* Every step keeps the slots, or a slot strays.
LEMMA NextSlots ==
    ASSUME TypeOK, SlotInv, [Next]_vars
    PROVE  SlotInv'
<1>1. strayed => strayed'
  BY DEF Next, ToggleUse, Restore, MakerThink, CyclicUse, MakeMonster, StartMonster, MaintainSchedule,
         Die, Killed, UpdateOnRemove, Remove, vars
<1> SUFFICES ASSUME SlotsTaken, ~strayed' PROVE SlotsTaken'
  BY <1>1 DEF SlotInv
<1>2. CASE UNCHANGED <<leader, slots, mySlot>>
  BY <1>2 DEF SlotsTaken
<1>3. CASE Restore
  <2>1. \A m \in Monster : mySlot'[m] \notin Slot /\ slots'[m] = {}
    BY <1>3 DEF Restore
  <2> QED
    BY <2>1 DEF SlotsTaken, Taken
<1>4. ASSUME NEW m \in Monster, Die(m)
      PROVE  SlotsTaken'
  <2>1. VacateSlot(m) /\ leader' = leader
    BY <1>4 DEF Die
  <2> QED
    BY <2>1, VacateSlotTaken DEF SlotsTaken
<1>5. ToggleUse \/ (\E m \in Monster : MakeMonster(m)) \/ UNCHANGED vars
        => UNCHANGED <<leader, slots, mySlot>>
  BY DEF ToggleUse, MakeMonster, vars, squad
<1> QED
  BY <1>2, <1>3, <1>4, <1>5, MaintainScheduleSlots, StartMonsterSlots, KilledSlots, UpdateOnRemoveSlots
     DEF Next, MakerThink, CyclicUse

-----------------------------------------------------------------------------
(* The theorems.                                                           *)

LEMMA InitInv == Init => SquadInv
<1> SUFFICES ASSUME Init PROVE SquadInv
  OBVIOUS
<1>1. TypeOK
  BY InitType
<1>2. LinkInv
  BY DEF Init, LinkInv, FreeEdicts, LeadersLead, MembersFollow, FollowersListed
<1>3. CountInv
  <2>1. child = {} /\ owned = {} /\ informed = {} /\ maker.live = 0
    BY DEF Init
  <2>2. {m \in child : Unharmed(m)} = {}
    BY <2>1
  <2>3. MaxLiveChildren \in Nat
    OBVIOUS
  <2> QED
    BY <2>1, <2>2, <2>3, FS_EmptySet DEF CountInv, OwnersWait, LiveChildren
<1>4. SlotInv
  BY OtherSlots DEF Init, SlotInv, SlotsTaken, Taken
<1> QED
  BY <1>1, <1>2, <1>3, <1>4 DEF SquadInv

LEMMA NextInv == SquadInv /\ [Next]_vars => SquadInv'
<1> SUFFICES ASSUME TypeOK, LinkInv, CountInv, SlotInv, [Next]_vars
             PROVE  SquadInv'
  BY DEF SquadInv
<1>1. TypeOK'
  BY NextType
<1>2. CountInv'
  BY <1>1, NextCount
<1> QED
  BY <1>1, <1>2, NextLinks, NextSlots DEF SquadInv

\* The invariant holds in every state of every behaviour.
LEMMA Invariance == Spec => []SquadInv
  BY InitInv, NextInv, PTL DEF Spec

\* CSquadMonster and CMonsterMaker keep their fields within their types: in
\* particular no squad outgrows m_hSquadMember, whoever recruits, dies or goes,
\* and the maker's count of live children is never negative.
THEOREM TypeCorrect == Spec => []TypeOK
  BY Invariance, PTL DEF SquadInv

\* A monster that lives and whose leader lives is in the array of that leader,
\* which leads itself, through all that SquadRecruit and SquadRemove do.
THEOREM SquadLinksAlways == Spec => []SquadLinks
<1>1. SquadInv => SquadLinks
  <2> SUFFICES ASSUME SquadInv, NEW m \in Monster,
                      leader[m] # Null, Unharmed(m), Unharmed(leader[m])
               PROVE  /\ leader[leader[m]] = leader[m]
                      /\ m = leader[m] \/ m \in member[leader[m]]
    BY DEF SquadLinks
  <2> QED
    BY DEF SquadInv, LinkInv, LeadersLead, FollowersListed
<1> QED
  BY <1>1, Invariance, PTL

\* m_cLiveChildren is the number of the maker's children that live, at most
\* m_iMaxLiveChildren: every death is noticed, and noticed once.
THEOREM LiveChildrenAlways == Spec => []LiveChildren
<1>1. SquadInv => LiveChildren
  BY DEF SquadInv, CountInv
<1> QED
  BY <1>1, Invariance, PTL

\* As long as no slot strays, m_afSquadSlots of a leader is what its squad's
\* m_iMySlot say, each slot of which one monster holds.
THEOREM SlotsHeldAlways == Spec => []SlotsHeld
<1>1. ASSUME SquadInv
      PROVE  SlotsHeld
  <2> SUFFICES ASSUME SlotsTaken, TypeOK, NEW l \in Monster, leader[l] = l
               PROVE  LET holders == {m \in {n \in Monster : leader[n] = l} : mySlot[m] \in Slot} IN
                      /\ slots[l] = {mySlot[m] : m \in holders}
                      /\ Cardinality(slots[l]) = Cardinality(holders)
    BY <1>1 DEF SquadInv, SlotInv, SlotsHeld, IsLeader
  <2> DEFINE holders == {m \in {n \in Monster : leader[n] = l} : mySlot[m] \in Slot}
             held == [m \in holders |-> mySlot[m]]
  <2>1. slots[l] \subseteq Slot
    BY DEF TypeOK
  <2>2. slots[l] = {mySlot[m] : m \in holders}
    BY <2>1 DEF SlotsTaken, Taken
  <2>3. IsFiniteSet(holders)
    BY FS_Subset, holders \subseteq Monster
  <2>4. \A m, n \in holders : mySlot[m] = mySlot[n] => m = n
    BY DEF SlotsTaken, Taken
  <2>5. held \in Bijection(holders, slots[l])
    BY <2>2, <2>4 DEF Bijection, Injection, Surjection, IsInjective
  <2>6. Cardinality(slots[l]) = Cardinality(holders)
    BY <2>3, <2>5, FS_Bijection DEF ExistsBijection
  <2> QED
    BY <2>2, <2>6
<1> QED
  BY <1>1, Invariance, PTL
=============================================================================
