--------------------------- MODULE GameRulesProofs ---------------------------
(***************************************************************************)
(* Proofs about the rules of multiplayer games that are not the flags:     *)
(* CTFStats, the statistics at the end of a match, CTFTeamMenu, the choice *)
(* of a team, and MapCycle, the choice of the next map; for any number of  *)
(* slots and clients, any cycle files and any longest intermission. The    *)
(* three share no state: each has an invariant and theorems of its own.    *)
(***************************************************************************)
EXTENDS CTFStats, CTFTeamMenu, MapCycle, FiniteSetTheorems, WellFoundedInduction, TLAPS

\* A set of numbers has a smallest one.
LEMMA Smallest ==
    ASSUME NEW S, S \subseteq Nat, S # {}
    PROVE  \E i \in S : \A j \in S : i <= j
<1>1. IsWellFoundedOn(OpToRel(<, Nat), Nat)
  BY NatLessThanWellFounded
<1>2. PICK i \in S : \A j \in S : ~(<<j, i>> \in OpToRel(<, Nat))
  BY <1>1, WFMin
<1>3. \A j \in S : ~(j < i)
  BY <1>2 DEF OpToRel
<1> QED
  BY <1>3

-----------------------------------------------------------------------------
(***************************************************************************)
(* CTFStats. The invariant says which of the players have been sent while  *)
(* batches are under way: all below m_iStatsPlayer, which the next batch   *)
(* starts with again.                                                      *)
(***************************************************************************)

\* Everyone there when the game ended was sent, or is still to come.
SentBelow ==
    /\ gameOver /\ m_iStatsPhase = "SendPlayers" =>
           \A i \in present : i < m_iStatsPlayer => i \in sent
    /\ ~gameOver => m_iStatsPhase = "Nothing" /\ present = {}
    /\ m_iStatsPhase \in DOMAIN NextTeamPhase => m_iStatsPlayer = 1

StatsInv == TypeOK /\ SentBelow /\ OthersSent

-----------------------------------------------------------------------------
(* Indices.                                                                *)

\* Indices are numbers.
LEMMA IndicesNat == Indices \subseteq Nat
  BY ClientsAssumption DEF Indices

\* A set of indices has a largest element.
LEMMA LargestIndex ==
    ASSUME NEW S, S \subseteq Indices, S # {}
    PROVE  \E i \in S : \A j \in S : j <= i
<1> DEFINE T == {k \in Indices : MaxClients + 1 - k \in S}
<1>1. \A i \in S : MaxClients + 1 - i \in T
  BY ClientsAssumption DEF Indices
<1>2. PICK k \in T : \A j \in T : k <= j
  <2>1. T \subseteq Indices /\ T # {}
    BY <1>1
  <2> HIDE DEF T
  <2> QED
    BY <2>1, IndicesNat, Smallest
<1>3. \A j \in S : j <= MaxClients + 1 - k
  BY <1>1, <1>2, ClientsAssumption DEF Indices
<1> QED
  BY <1>2, <1>3

-----------------------------------------------------------------------------
(* Batches.                                                                *)

Upto(i) == {j \in players : j \in m_iStatsPlayer..i}

\* The sets that Batch counts are finite, and grow with their bound.
LEMMA UptoFinite ==
    ASSUME TypeOK, NEW i \in Indices
    PROVE  /\ IsFiniteSet(Upto(i)) /\ Cardinality(Upto(i)) \in Nat
           /\ IsFiniteSet(Batch) /\ Cardinality(Batch) \in Nat
           /\ Batch \subseteq Indices
           /\ \A k \in Indices : k <= i => Cardinality(Upto(k)) <= Cardinality(Upto(i))
<1>1. IsFiniteSet(Indices)
  BY ClientsAssumption, FS_Interval DEF Indices
<1>2. \A k : Upto(k) \subseteq Indices
  BY DEF Upto, TypeOK
<1>3. Batch \subseteq Indices
  BY DEF Batch, TypeOK
<1>4. IsFiniteSet(Upto(i)) /\ Cardinality(Upto(i)) \in Nat
  BY <1>1, <1>2, FS_Subset, FS_CardinalityType
<1>5. IsFiniteSet(Batch) /\ Cardinality(Batch) \in Nat
  BY <1>1, <1>3, FS_Subset, FS_CardinalityType
<1>6. ASSUME NEW k \in Indices, k <= i
      PROVE  Cardinality(Upto(k)) <= Cardinality(Upto(i))
  <2>1. k \in Int /\ i \in Int /\ m_iStatsPlayer \in Int
    BY DEF TypeOK, Indices
  <2>2. m_iStatsPlayer..k \subseteq m_iStatsPlayer..i
    BY <1>6, <2>1
  <2>3. Upto(k) \subseteq Upto(i)
    BY <2>2 DEF Upto
  <2> QED
    BY <2>3, <1>4, FS_Subset
<1> QED
  BY <1>3, <1>4, <1>5, <1>6

\* A batch that is not of six has everybody from m_iStatsPlayer on.
LEMMA ShortBatch ==
    ASSUME TypeOK, Cardinality(Batch) # 6, NEW p \in players, m_iStatsPlayer <= p
    PROVE  p \in Batch
<1> DEFINE Left == {i \in players : i >= m_iStatsPlayer /\ i \notin Batch}
<1>1. players \subseteq Indices /\ Indices \subseteq Nat /\ m_iStatsPlayer \in Nat
  BY ClientsAssumption DEF TypeOK, Indices
<1>2. SUFFICES ASSUME p \notin Batch
               PROVE  FALSE
  OBVIOUS
<1>3. PICK u \in Left : \A i \in Left : u <= i
  <2>1. Left \subseteq Indices /\ Left # {}
    BY <1>1, <1>2
  <2> HIDE DEF Left
  <2> QED
    BY <2>1, IndicesNat, Smallest
<1>4. u \in Indices /\ u \in players /\ u >= m_iStatsPlayer /\ u \notin Batch
  BY <1>1, <1>3
<1>5. ~(Cardinality(Upto(u)) <= 6)
  BY <1>4 DEF Batch, Upto
<1>6. \A b \in Batch : b < u
  <2> SUFFICES ASSUME NEW b \in Batch, ~(b < u)
               PROVE  FALSE
    OBVIOUS
  <2>1. b \in Indices /\ u <= b /\ Cardinality(Upto(b)) <= 6
    BY <1>1, <1>4 DEF Batch, Upto
  <2>2. Cardinality(Upto(u)) <= Cardinality(Upto(b))
    BY <2>1, <1>4, UptoFinite
  <2> QED
    BY <2>1, <2>2, <1>4, <1>5, UptoFinite
<1>7. Upto(u) = Batch \cup {u}
  <2>1. \A j \in players : j \in m_iStatsPlayer..u /\ j # u => j \in Batch
    BY <1>1, <1>3, <1>4
  <2>2. \A b \in Batch : b \in players /\ b \in m_iStatsPlayer..u
    BY <1>1, <1>4, <1>6 DEF Batch
  <2> QED
    <3>1. u \in m_iStatsPlayer..u
      BY <1>1, <1>4
    <3>2. \A j \in Upto(u) : j \in Batch \cup {u}
      BY <2>1 DEF Upto
    <3>3. \A j \in Batch \cup {u} : j \in Upto(u)
      BY <2>2, <3>1, <1>4 DEF Upto
    <3> QED
      BY <3>2, <3>3
<1>8. Cardinality(Upto(u)) = Cardinality(Batch) + 1
  BY <1>4, <1>7, UptoFinite, FS_AddElement
<1>9. Cardinality(Batch) >= 6 /\ Batch # {}
  BY <1>4, <1>5, <1>8, UptoFinite, FS_EmptySet
<1>10. PICK b \in Batch : \A i \in Batch : i <= b
  BY <1>4, <1>9, UptoFinite, LargestIndex
<1>11. Upto(b) = Batch
  <2>1. b \in Indices /\ b < u
    BY <1>6, <1>10, <1>4, UptoFinite
  <2>2. \A j \in Upto(b) : j \in Batch
    BY <2>1, <1>1, <1>4, <1>7 DEF Upto
  <2>3. \A j \in Batch : j \in Upto(b)
    BY <1>1, <1>10, <2>1 DEF Batch, Upto
  <2> QED
    BY <2>2, <2>3
<1>12. Cardinality(Batch) <= 6
  BY <1>10, <1>11 DEF Batch, Upto
<1> QED
  BY <1>4, <1>9, <1>12, UptoFinite

\* A batch has everybody from m_iStatsPlayer to the last index looked at.
LEMMA BatchCovers ==
    ASSUME TypeOK
    PROVE  /\ LastIndex(Batch) \in Indices
           /\ \A p \in players : m_iStatsPlayer <= p /\ p <= LastIndex(Batch) => p \in Batch
<1>1. players \subseteq Indices /\ Indices \subseteq Nat /\ MaxClients \in Indices
         /\ m_iStatsPlayer \in Nat
  BY ClientsAssumption DEF TypeOK, Indices
<1>2. CASE Cardinality(Batch) # 6
  BY <1>1, <1>2, ShortBatch DEF LastIndex
<1>3. CASE Cardinality(Batch) = 6
  <2>1. Batch # {} /\ Batch \subseteq Indices
    BY <1>1, <1>3, UptoFinite, FS_EmptySet
  <2>2. \E i \in Batch : \A j \in Batch : j <= i
    BY <2>1, LargestIndex
  <2>3. LastIndex(Batch) \in Batch
    BY <1>3, <2>2 DEF LastIndex
  <2>4. ASSUME NEW p \in players, m_iStatsPlayer <= p, p <= LastIndex(Batch)
        PROVE  p \in Batch
    <3> DEFINE l == LastIndex(Batch)
    <3>1. l \in Indices /\ p \in Indices /\ Cardinality(Upto(l)) <= 6
      BY <1>1, <2>1, <2>3 DEF Batch, Upto
    <3>2. Cardinality(Upto(p)) <= Cardinality(Upto(l))
      BY <2>4, <3>1, UptoFinite
    <3>3. Cardinality(Upto(p)) <= 6
      BY <3>1, <3>2, UptoFinite
    <3> QED
      BY <1>1, <2>4, <3>3 DEF Batch, Upto
  <2> QED
    BY <2>1, <2>3, <2>4
<1> QED
  BY <1>2, <1>3

-----------------------------------------------------------------------------
(* The invariant.                                                          *)

\* A level begins with nobody and no statistics.
LEMMA StatsInitInv == Init => StatsInv
<1> SUFFICES ASSUME Init
             PROVE  StatsInv
  OBVIOUS
<1>0. 1 \in Indices /\ 0 \in 0..MaxGameEnds
  BY ClientsAssumption, BoundsAssumption DEF Indices
<1>1. TypeOK
  BY <1>0 DEF Init, TypeOK, Phases
<1>2. SentBelow /\ OthersSent
  BY DEF Init, SentBelow, OthersSent, NextTeamPhase
<1> QED
  BY <1>1, <1>2 DEF StatsInv

\* The end of the match, by a limit or game_end, begins the statistics anew.
LEMMA BeginStatsInv ==
    ASSUME StatsInv, BeginStats, gameEnds' \in 0..MaxGameEnds
    PROVE  StatsInv'
<1> USE DEF BeginStats, StatsInv
<1>1. TypeOK'
  BY ClientsAssumption DEF TypeOK, Phases, Indices
<1>2. SentBelow' /\ OthersSent'
  BY DEF SentBelow, OthersSent, NextTeamPhase
<1> QED
  BY <1>1, <1>2

\* Every step keeps the invariant.
LEMMA StatsStepInv ==
    ASSUME StatsInv, [Next]_vars
    PROVE  StatsInv'
<1>0. DOMAIN NextTeamPhase = {"SendTeam0", "SendTeam1", "SendTeam2"}
  BY DEF NextTeamPhase
<1>1. CASE UNCHANGED vars
  BY <1>1 DEF vars, statsVars, StatsInv, TypeOK, SentBelow, OthersSent
<1>2. ASSUME NEW i \in Indices, Join(i)
      PROVE  StatsInv'
  BY <1>2 DEF Join, statsVars, StatsInv, TypeOK, SentBelow, OthersSent
<1>3. CASE LimitReached
  BY <1>3, BeginStatsInv DEF LimitReached, StatsInv, TypeOK
<1>4. CASE GameEnd
  <2>1. gameEnds' \in 0..MaxGameEnds
    BY <1>4, BoundsAssumption DEF GameEnd, StatsInv, TypeOK
  <2> QED
    BY <1>4, <2>1, BeginStatsInv DEF GameEnd
<1>5. CASE SendTeam
  <2>1. NextTeamPhase[m_iStatsPhase] \in {"SendTeam1", "SendTeam2", "SendPlayers"}
    BY <1>5 DEF SendTeam, NextTeamPhase
  <2>2. m_iStatsPlayer = 1 /\ gameOver
    BY <1>5 DEF SendTeam, StatsInv, SentBelow, NextTeamPhase
  <2>3. TypeOK'
    BY <1>5, <2>1 DEF SendTeam, StatsInv, TypeOK, Phases
  <2>4. \A i \in present : ~(i < 1)
    BY ClientsAssumption DEF StatsInv, TypeOK, Indices
  <2>5. SentBelow'
    BY <1>5, <2>2, <2>4 DEF SendTeam, SentBelow
  <2>6. OthersSent'
    BY <1>5, <2>1 DEF SendTeam, OthersSent
  <2> QED
    BY <2>3, <2>5, <2>6 DEF StatsInv
<1>6. CASE SendPlayers
  <2>1. /\ LastIndex(Batch) \in Indices
        /\ \A p \in players : m_iStatsPlayer <= p /\ p <= LastIndex(Batch) => p \in Batch
    BY BatchCovers DEF StatsInv
  <2>2. Batch \subseteq Indices /\ Indices \subseteq Nat /\ MaxClients \in Nat
    <3>1. Indices \subseteq Nat /\ MaxClients \in Nat
      BY ClientsAssumption DEF Indices
    <3>2. Batch \subseteq Indices
      BY DEF Batch, StatsInv, TypeOK
    <3> QED
      BY <3>1, <3>2
  <2>3. present \subseteq players /\ players \subseteq Indices /\ m_iStatsPlayer \in Indices
    BY DEF StatsInv, TypeOK
  <2>4. gameOver
    BY <1>6 DEF SendPlayers, StatsInv, SentBelow
  <2>5. ASSUME NEW i \in present, i <= LastIndex(Batch)
        PROVE  i \in sent'
    <3>1. CASE i < m_iStatsPlayer
      BY <1>6, <2>4, <3>1 DEF SendPlayers, StatsInv, SentBelow
    <3>2. CASE m_iStatsPlayer <= i
      BY <1>6, <2>1, <2>3, <2>5, <3>2 DEF SendPlayers
    <3> QED
      BY <2>2, <2>3, <3>1, <3>2
  <2>6. TypeOK'
    BY <1>6, <2>1, <2>2 DEF SendPlayers, StatsInv, TypeOK, Phases
  <2>7. SentBelow'
    <3>1. m_iStatsPhase' \notin DOMAIN NextTeamPhase
      BY <1>0, <1>6 DEF SendPlayers
    <3>2. \A i \in present' : i < m_iStatsPlayer' => i \in sent'
      <4>1. \A i \in present : i < LastIndex(Batch) => i <= LastIndex(Batch)
        <5>1. LastIndex(Batch) \in Nat /\ present \subseteq Nat
          BY <2>1, <2>2, <2>3
        <5> HIDE DEF LastIndex
        <5> QED
          BY <5>1
      <4> QED
        BY <1>6, <2>5, <4>1 DEF SendPlayers
    <3>3. gameOver'
      BY <1>6, <2>4 DEF SendPlayers
    <3> QED
      BY <3>1, <3>2, <3>3 DEF SentBelow
  <2>8. OthersSent'
    <3>1. CASE MaxClients <= LastIndex(Batch) + 1
      <4>1. \A i \in present \ {MaxClients} : i <= LastIndex(Batch)
        BY <3>1, <2>1, <2>2, <2>3 DEF Indices
      <4> QED
        BY <1>6, <2>5, <4>1 DEF SendPlayers, OthersSent
    <3>2. CASE ~(MaxClients <= LastIndex(Batch) + 1)
      BY <1>6, <3>2 DEF SendPlayers, OthersSent
    <3> QED
      BY <3>1, <3>2
  <2> QED
    BY <2>6, <2>7, <2>8 DEF StatsInv
<1>7. CASE OpenMenu
  BY <1>7 DEF OpenMenu, StatsInv, TypeOK, SentBelow, OthersSent, Phases, NextTeamPhase
<1>8. CASE NewLevel
  <2>0. 1 \in Indices /\ 0 \in 0..MaxGameEnds
    BY ClientsAssumption, BoundsAssumption DEF Indices
  <2>1. TypeOK'
    BY <1>8, <2>0 DEF NewLevel, NewRules, TypeOK, Phases
  <2>2. SentBelow' /\ OthersSent'
    BY <1>0, <1>8 DEF NewLevel, NewRules, SentBelow, OthersSent
  <2> QED
    BY <2>1, <2>2 DEF StatsInv
<1> QED
  BY <1>1, <1>2, <1>3, <1>4, <1>5, <1>6, <1>7, <1>8 DEF Next, SendStats

\* The invariant holds in every state.
THEOREM StatsInvAlways == Spec => []StatsInv
<1>1. Init => StatsInv
  BY StatsInitInv
<1>2. StatsInv /\ [Next]_vars => StatsInv'
  BY StatsStepInv
<1> QED
  BY <1>1, <1>2, PTL DEF Spec

\* m_iStatsPlayer is a slot, whatever the batches step back to, and nothing is
\* sent of anybody who is no client.
THEOREM TypeCorrect == Spec => []TypeOK
  BY StatsInvAlways, PTL DEF StatsInv

\* When the menu opens, everyone there when the game ended was sent, the last
\* slot excepted, on a server of any size.
THEOREM OthersSentAlways == Spec => []OthersSent
  BY StatsInvAlways, PTL DEF StatsInv

\* A batch that is not the last takes m_iStatsPlayer five slots on, although the
\* next one starts with the last player again: what MenuOpens rests on.
THEOREM BatchesAdvance ==
    Spec => [][SendPlayers /\ m_iStatsPhase' = "SendPlayers" =>
                   m_iStatsPlayer' >= m_iStatsPlayer + 5]_vars
<1> DEFINE Advances == m_iStatsPhase' = "SendPlayers" => m_iStatsPlayer' >= m_iStatsPlayer + 5
<1>1. ASSUME TypeOK, SendPlayers
      PROVE  Advances
  <2> SUFFICES ASSUME m_iStatsPhase' = "SendPlayers"
               PROVE  m_iStatsPlayer' >= m_iStatsPlayer + 5
    OBVIOUS
  <2> DEFINE l == LastIndex(Batch)
             m == m_iStatsPlayer
  <2>1. MaxClients \in Nat /\ m \in Int /\ MaxClients \in Indices
    BY <1>1, ClientsAssumption DEF TypeOK, Indices
  <2>2. m_iStatsPlayer' = l /\ ~(MaxClients <= l + 1)
    BY <1>1 DEF SendPlayers
  <2>3. Cardinality(Batch) = 6
    BY <2>1, <2>2 DEF LastIndex
  <2>4. IsFiniteSet(Batch) /\ Batch \subseteq Indices
    BY <1>1, <2>1, UptoFinite
  <2>5. PICK i \in Batch : \A j \in Batch : j <= i
    <3>1. Batch # {}
      BY <2>3, <2>4, FS_EmptySet
    <3> QED
      BY <2>4, <3>1, LargestIndex
  <2>6. l \in Batch /\ \A j \in Batch : j <= l
    BY <2>3, <2>5 DEF LastIndex
  <2>7. Batch \subseteq m..l /\ l \in Int
    <3> HIDE DEF l
    <3>1. l \in Int /\ \A j \in Batch : j \in Int
      <4>1. Batch \subseteq Nat
        BY <2>4, IndicesNat
      <4> QED
        BY <2>6, <4>1
    <3>2. \A j \in Batch : j >= m
      BY DEF Batch
    <3> QED
      BY <2>1, <2>6, <3>1, <3>2
  <2> HIDE DEF l, m
  <2>8. m <= l
    BY <2>1, <2>6, <2>7
  <2>9. IsFiniteSet(m..l) /\ Cardinality(m..l) = l - m + 1
    BY <2>1, <2>7, <2>8, FS_Interval
  <2>10. Cardinality(Batch) <= Cardinality(m..l)
    BY <2>7, <2>9, FS_Subset
  <2>11. l >= m + 5
    BY <2>1, <2>3, <2>7, <2>9, <2>10
  <2> QED
    BY <2>2, <2>11 DEF m
<1>2. StatsInv /\ [Next]_vars => [SendPlayers => Advances]_vars
  BY <1>1 DEF StatsInv
<1>3. [SendPlayers => Advances]_vars =>
        [SendPlayers /\ m_iStatsPhase' = "SendPlayers" =>
             m_iStatsPlayer' >= m_iStatsPlayer + 5]_vars
  OBVIOUS
<1> QED
  BY <1>2, <1>3, StatsInvAlways, PTL DEF Spec

-----------------------------------------------------------------------------
(***************************************************************************)
(* CTFTeamMenu. The invariant is MenuInv: besides the checked invariants   *)
(* it says that a slot that is free has no team and no choice, and what a  *)
(* fresh choice promises.                                                  *)
(***************************************************************************)

FreeSlotsEmpty ==
    \A c \in Clients :
        entered[c] = "free" => m_iTeamNum[c] = None /\ m_iNewTeamNum[c] = None

\* A choice that was made on the present teams was admitted on them.
FreshChoices ==
    \A c \in checked, t \in Teams :
        AutoTeam /\ m_iNewTeamNum[c] = t /\ m_iTeamNum[c] # t
            => TeamSize(t) <= TeamSize(Other(t))

MenuInv ==
    /\ MenuTypeOK
    /\ FreeSlotsEmpty
    /\ WatchersHaveNoTeam
    /\ ClassMenuHasTeam

-----------------------------------------------------------------------------
(* Lemmas.                                                                 *)

\* The sizes of teams are numbers (UTIL_CountPlayers counts what there is).
LEMMA TeamSizeNat == \A t : TeamSize(t) \in Nat
<1> TAKE t
<1>1. IsFiniteSet(Clients)
  BY TeamMenuAssumption
<1>2. {c \in InGame : m_iTeamNum[c] = t} \subseteq Clients
  BY DEF InGame
<1> QED
  BY <1>1, <1>2, FS_Subset, FS_CardinalityType DEF TeamSize

\* The menu a choice leads to is one of the menus.
LEMMA AfterMenuMenu == \A menu : AfterMenu(menu) \in Menus
  BY DEF AfterMenu, Menus

\* Only the team menu leads to the character menu.
LEMMA AfterMenuClass == \A menu : AfterMenu(menu) = "class" => menu = "team"
  BY DEF AfterMenu

\* The server's choice is a team.
LEMMA FewestIsTeam == TeamWithFewestPlayers \in Teams
  BY DEF TeamWithFewestPlayers, Teams

-----------------------------------------------------------------------------
(* Choices and changes of team, the two things commands are made of.       *)

\* A choice of a team keeps the invariant.
LEMMA ChooseKeeps ==
    ASSUME MenuInv, NEW c \in Clients, Playing(c), NEW t \in Teams, Choose(c, t)
    PROVE  MenuInv'
<1> USE DEF Choose, Show, Playing
<1>1. AfterMenu(m_iCurrentMenu[c]) \in Menus
  BY AfterMenuMenu
<1>2. MenuTypeOK'
  BY <1>1 DEF MenuInv, MenuTypeOK
<1>3. FreeSlotsEmpty'
  BY DEF MenuInv, MenuTypeOK, FreeSlotsEmpty
<1>4. WatchersHaveNoTeam'
  BY DEF MenuInv, WatchersHaveNoTeam, InGame
<1>5. ClassMenuHasTeam'
  BY DEF MenuInv, MenuTypeOK, ClassMenuHasTeam, Teams, None
<1> QED
  BY <1>2, <1>3, <1>4, <1>5 DEF MenuInv

\* Becoming a spectator keeps the invariant.
LEMMA BecomeSpectatorKeeps ==
    ASSUME MenuInv, NEW c \in Clients, BecomeSpectator(c)
    PROVE  MenuInv'
<1> USE DEF BecomeSpectator, SetTeam, Playing
<1>2. MenuTypeOK'
  BY DEF MenuInv, MenuTypeOK, Menus
<1>3. FreeSlotsEmpty'
  BY DEF MenuInv, MenuTypeOK, FreeSlotsEmpty
<1>4. WatchersHaveNoTeam'
  BY DEF MenuInv, MenuTypeOK, WatchersHaveNoTeam, InGame
<1>5. ClassMenuHasTeam'
  BY DEF MenuInv, MenuTypeOK, ClassMenuHasTeam
<1> QED
  BY <1>2, <1>3, <1>4, <1>5 DEF MenuInv

\* A command that only shows another menu, or forgets the choice with it.
LEMMA ShowKeeps ==
    ASSUME MenuInv, NEW c \in Clients, NEW menu \in {"none", "team"}, Playing(c),
           Show(c, menu), UNCHANGED <<m_iTeamNum, checked>>,
           \/ m_iNewTeamNum' = [m_iNewTeamNum EXCEPT ![c] = None]
           \/ UNCHANGED m_iNewTeamNum
    PROVE  MenuInv'
<1> USE DEF Show, Playing
<1>2. MenuTypeOK'
  BY DEF MenuInv, MenuTypeOK, Menus
<1>3. FreeSlotsEmpty'
  BY DEF MenuInv, MenuTypeOK, FreeSlotsEmpty
<1>4. WatchersHaveNoTeam'
  BY DEF MenuInv, MenuTypeOK, WatchersHaveNoTeam, InGame
<1>5. ClassMenuHasTeam'
  BY DEF MenuInv, MenuTypeOK, ClassMenuHasTeam
<1> QED
  BY <1>2, <1>3, <1>4, <1>5 DEF MenuInv

-----------------------------------------------------------------------------
(* The invariant.                                                          *)

\* Nobody is on the server at first.
LEMMA MenuInitInv == MenuInit => MenuInv
  BY DEF MenuInit, MenuInv, MenuTypeOK, FreeSlotsEmpty, WatchersHaveNoTeam, ClassMenuHasTeam,
         InGame, Menus, None, Teams

\* Every command keeps the invariant.
LEMMA MenuStepInv ==
    ASSUME MenuInv, [MenuNext]_menuVars
    PROVE  MenuInv'
<1>1. CASE UNCHANGED menuVars
  BY <1>1 DEF menuVars, MenuInv, MenuTypeOK, FreeSlotsEmpty, WatchersHaveNoTeam,
              ClassMenuHasTeam, InGame
<1>2. ASSUME NEW c \in Clients, ClientPutInServer(c)
      PROVE  MenuInv'
  <2> USE <1>2 DEF ClientPutInServer, SetTeam, Playing, MenuInv
  <2>1. MenuTypeOK'
    BY DEF MenuTypeOK, Menus
  <2>2. FreeSlotsEmpty'
    BY DEF MenuTypeOK, FreeSlotsEmpty
  <2>3. WatchersHaveNoTeam'
    BY DEF MenuTypeOK, FreeSlotsEmpty, WatchersHaveNoTeam, InGame
  <2>4. ClassMenuHasTeam'
    BY DEF MenuTypeOK, ClassMenuHasTeam
  <2> QED
    BY <2>1, <2>2, <2>3, <2>4
<1>3. ASSUME NEW c \in Clients, InitHUD(c)
      PROVE  MenuInv'
  <2> USE <1>3 DEF InitHUD, MenuInv
  <2>1. MenuTypeOK'
    BY DEF MenuTypeOK, Menus
  <2>2. FreeSlotsEmpty'
    BY DEF MenuTypeOK, FreeSlotsEmpty
  <2>3. WatchersHaveNoTeam'
    BY DEF MenuTypeOK, WatchersHaveNoTeam, InGame
  <2>4. ClassMenuHasTeam'
    BY DEF MenuTypeOK, ClassMenuHasTeam
  <2> QED
    BY <2>1, <2>2, <2>3, <2>4
<1>4. ASSUME NEW c \in Clients, ClientDisconnected(c)
      PROVE  MenuInv'
  <2> USE <1>4 DEF ClientDisconnected, SetTeam, Playing, MenuInv
  <2>1. MenuTypeOK'
    BY DEF MenuTypeOK, Menus
  <2>2. FreeSlotsEmpty'
    BY DEF MenuTypeOK, FreeSlotsEmpty
  <2>3. WatchersHaveNoTeam'
    BY DEF MenuTypeOK, WatchersHaveNoTeam, InGame
  <2>4. ClassMenuHasTeam'
    BY DEF MenuTypeOK, ClassMenuHasTeam
  <2> QED
    BY <2>1, <2>2, <2>3, <2>4
<1>5. ASSUME NEW c \in Clients, BecomeSpectator(c)
      PROVE  MenuInv'
  BY <1>5, BecomeSpectatorKeeps
<1>6. ASSUME NEW c \in Clients, AutoAssign(c)
      PROVE  MenuInv'
  BY <1>6, ChooseKeeps DEF AutoAssign
<1>7. ASSUME NEW c \in Clients, NEW t \in Teams, JoinTeam(c, t)
      PROVE  MenuInv'
  BY <1>7, ChooseKeeps DEF JoinTeam
<1>8. ASSUME NEW c \in Clients, NEW t \in Teams \cup {None}, Refuse(c, t)
      PROVE  MenuInv'
  BY <1>8, ShowKeeps DEF Refuse
<1>9. ASSUME NEW c \in Clients, KeepTeam(c)
      PROVE  MenuInv'
  BY <1>9, ShowKeeps DEF KeepTeam
<1>10. ASSUME NEW c \in Clients, SelectChar(c)
       PROVE  MenuInv'
  <2> USE <1>10 DEF SelectChar, SetTeam, Playing, MenuInv
  <2>1. MenuTypeOK'
    BY AfterMenuMenu DEF MenuTypeOK
  <2>2. FreeSlotsEmpty'
    BY DEF MenuTypeOK, FreeSlotsEmpty
  <2>3. WatchersHaveNoTeam'
    BY DEF MenuTypeOK, WatchersHaveNoTeam, InGame
  <2>4. ClassMenuHasTeam'
    BY DEF MenuTypeOK, ClassMenuHasTeam
  <2> QED
    BY <2>1, <2>2, <2>3, <2>4
<1>11. ASSUME NEW c \in Clients, CancelMenu(c)
       PROVE  MenuInv'
  <2>1. CASE m_iCurrentMenu[c] = "class"
    BY <1>11, <2>1, ShowKeeps DEF CancelMenu
  <2>2. CASE m_iCurrentMenu[c] = "team" /\ ~(m_iNewTeamNum[c] = None /\ m_iTeamNum[c] = None)
    BY <1>11, <2>2, ShowKeeps DEF CancelMenu
  <2>3. CASE m_iCurrentMenu[c] = "team" /\ m_iNewTeamNum[c] = None /\ m_iTeamNum[c] = None
    BY <1>11, <2>3, BecomeSpectatorKeeps DEF CancelMenu
  <2> QED
    BY <1>11, <2>1, <2>2, <2>3 DEF CancelMenu
<1>12. ASSUME NEW c \in Clients, ChangeTeam(c)
       PROVE  MenuInv'
  BY <1>12, ShowKeeps DEF ChangeTeam
<1>13. ASSUME NEW c \in Clients, ChangeClass(c)
       PROVE  MenuInv'
  <2> USE <1>13 DEF ChangeClass, Show, Playing, MenuInv
  <2>1. MenuTypeOK'
    BY DEF MenuTypeOK, Menus
  <2>2. FreeSlotsEmpty'
    BY DEF MenuTypeOK, FreeSlotsEmpty
  <2>3. WatchersHaveNoTeam'
    BY DEF MenuTypeOK, WatchersHaveNoTeam, InGame
  <2>4. ClassMenuHasTeam'
    BY DEF MenuTypeOK, ClassMenuHasTeam
  <2> QED
    BY <2>1, <2>2, <2>3, <2>4
<1>14. CASE EndOfGame
  BY <1>14 DEF EndOfGame, MenuInv, MenuTypeOK, FreeSlotsEmpty, WatchersHaveNoTeam,
               ClassMenuHasTeam, InGame
<1> QED
  BY <1>1, <1>2, <1>3, <1>4, <1>5, <1>6, <1>7, <1>8, <1>9, <1>10, <1>11, <1>12, <1>13, <1>14
     DEF MenuNext

\* The invariant holds in every state of the menus.
THEOREM MenuInvAlways == MenuSpec => []MenuInv
<1>1. MenuInit => MenuInv
  BY MenuInitInv
<1>2. MenuInv /\ [MenuNext]_menuVars => MenuInv'
  BY MenuStepInv
<1> QED
  BY <1>1, <1>2, PTL DEF MenuSpec

\* The menus' variables keep their ranges: no command makes a team that is none.
THEOREM MenuTypeCorrect == MenuSpec => []MenuTypeOK
  BY MenuInvAlways, PTL DEF MenuInv

\* A player watches if and only if it is in no team.
THEOREM WatchersHaveNoTeamAlways == MenuSpec => []WatchersHaveNoTeam
  BY MenuInvAlways, PTL DEF MenuInv

\* An open character menu can be answered.
THEOREM ClassMenuHasTeamAlways == MenuSpec => []ClassMenuHasTeam
  BY MenuInvAlways, PTL DEF MenuInv

-----------------------------------------------------------------------------
(* Fresh choices.                                                          *)

\* The size of a team depends on the teams only, not on who is on the server.
LEMMA TeamSizeOfTeams ==
    ASSUME FreeSlotsEmpty, NEW t \in Teams
    PROVE  TeamSize(t) = Cardinality({c \in Clients : m_iTeamNum[c] = t})
<1>1. {c \in InGame : m_iTeamNum[c] = t} = {c \in Clients : m_iTeamNum[c] = t}
  BY DEF FreeSlotsEmpty, InGame, Teams, None
<1> QED
  BY <1>1 DEF TeamSize

\* A command that leaves the teams alone leaves their sizes alone.
LEMMA SameSizes ==
    ASSUME FreeSlotsEmpty, FreeSlotsEmpty', UNCHANGED m_iTeamNum, NEW t \in Teams
    PROVE  TeamSize(t)' = TeamSize(t)
<1>1. TeamSize(t)' = Cardinality({c \in Clients : m_iTeamNum'[c] = t})
  <2>1. {c \in InGame' : m_iTeamNum'[c] = t} = {c \in Clients : m_iTeamNum'[c] = t}
    BY DEF FreeSlotsEmpty, InGame, Teams, None
  <2> QED
    BY <2>1 DEF TeamSize
<1> QED
  BY <1>1, TeamSizeOfTeams

\* What the menu or the server admits is not the larger team.
LEMMA AdmittedNotLarger ==
    ASSUME NEW t \in Teams, TeamsBalanced \/ t = TeamWithFewestPlayers
    PROVE  TeamSize(t) <= TeamSize(Other(t))
<1>1. TeamSize(1) \in Nat /\ TeamSize(2) \in Nat
  BY TeamSizeNat
<1>2. CASE t = 1
  <2>1. Other(t) = 2
    BY <1>2 DEF Other
  <2> QED
    BY <1>1, <1>2, <2>1 DEF TeamsBalanced, TeamWithFewestPlayers
<1>3. CASE t = 2
  <2>1. Other(t) = 1
    BY <1>3 DEF Other
  <2> QED
    BY <1>1, <1>3, <2>1 DEF TeamsBalanced, TeamWithFewestPlayers
<1> QED
  BY <1>2, <1>3 DEF Teams

\* Commands that leave the teams alone, and at most forget choices, take a
\* player's own team for its choice, or make a choice that is admitted.
LEMMA FreshKept ==
    ASSUME MenuInv, MenuInv', FreshChoices, UNCHANGED m_iTeamNum,
           \A c \in checked', t \in Teams :
               AutoTeam /\ m_iNewTeamNum'[c] = t /\ m_iTeamNum[c] # t
                   => \/ c \in checked /\ m_iNewTeamNum[c] = t
                      \/ TeamSize(t) <= TeamSize(Other(t))
    PROVE  FreshChoices'
<1> SUFFICES ASSUME NEW c \in checked', NEW t \in Teams,
                    AutoTeam, m_iNewTeamNum'[c] = t, m_iTeamNum'[c] # t
             PROVE  (TeamSize(t) <= TeamSize(Other(t)))'
  BY DEF FreshChoices, Teams, Other
<1>1. TeamSize(t) <= TeamSize(Other(t))
  BY DEF FreshChoices
<1>2. Other(t) \in Teams
  BY DEF Other, Teams
<1>3. TeamSize(t)' = TeamSize(t) /\ TeamSize(Other(t))' = TeamSize(Other(t))
  BY <1>2, SameSizes DEF MenuInv
<1> QED
  BY <1>1, <1>3

\* A change of team forgets what was checked, unless it is none.
LEMMA FreshAfterSetTeam ==
    ASSUME MenuInv, MenuInv', FreshChoices, NEW c \in Clients, NEW t, SetTeam(c, t),
           \A x \in Clients \ {c} : m_iNewTeamNum'[x] = m_iNewTeamNum[x],
           m_iNewTeamNum'[c] \in {None, m_iNewTeamNum[c]}
    PROVE  FreshChoices'
<1>1. CASE t = m_iTeamNum[c]
  <2>1. UNCHANGED m_iTeamNum /\ checked' = checked
    BY <1>1 DEF SetTeam, MenuInv, MenuTypeOK
  <2> QED
    BY <2>1, FreshKept DEF MenuInv, MenuTypeOK, Teams, None
<1>2. CASE t # m_iTeamNum[c]
  BY <1>2 DEF SetTeam, FreshChoices
<1> QED
  BY <1>1, <1>2

\* A choice that was admitted is fresh, and the others' stay so.
LEMMA FreshAfterChoose ==
    ASSUME MenuInv, MenuInv', FreshChoices, NEW c \in Clients, NEW t \in Teams, Choose(c, t),
           AutoTeam /\ t # m_iTeamNum[c] => TeamsBalanced \/ t = TeamWithFewestPlayers
    PROVE  FreshChoices'
<1>1. \A x \in checked', u \in Teams :
          AutoTeam /\ m_iNewTeamNum'[x] = u /\ m_iTeamNum[x] # u
              => \/ x \in checked /\ m_iNewTeamNum[x] = u
                 \/ TeamSize(u) <= TeamSize(Other(u))
  BY AdmittedNotLarger DEF Choose, MenuInv, MenuTypeOK
<1> QED
  BY <1>1, FreshKept DEF Choose

\* Every command keeps what fresh choices promise.
LEMMA FreshStep ==
    ASSUME MenuInv, MenuInv', FreshChoices, [MenuNext]_menuVars
    PROVE  FreshChoices'
<1>1. CASE UNCHANGED menuVars
  BY <1>1, FreshKept DEF menuVars
<1>2. CASE EndOfGame \/ \E c \in Clients : InitHUD(c)
  BY <1>2, FreshKept DEF EndOfGame, InitHUD
<1>3. ASSUME NEW c \in Clients, ClientPutInServer(c) \/ ClientDisconnected(c)
      PROVE  FreshChoices'
  <2>1. CASE UNCHANGED <<m_iTeamNum, m_iNewTeamNum, checked>>
    BY <2>1, FreshKept
  <2>2. CASE SetTeam(c, None) /\ m_iNewTeamNum' = [m_iNewTeamNum EXCEPT ![c] = None]
    BY <2>2, FreshAfterSetTeam DEF MenuInv, MenuTypeOK
  <2> QED
    BY <1>3, <2>1, <2>2 DEF ClientPutInServer, ClientDisconnected
<1>4. ASSUME NEW c \in Clients, BecomeSpectator(c)
      PROVE  FreshChoices'
  BY <1>4, FreshAfterSetTeam DEF BecomeSpectator, MenuInv, MenuTypeOK
<1>5. ASSUME NEW c \in Clients, AutoAssign(c)
      PROVE  FreshChoices'
  BY <1>5, FreshAfterChoose DEF AutoAssign
<1>6. ASSUME NEW c \in Clients, NEW t \in Teams, JoinTeam(c, t)
      PROVE  FreshChoices'
  BY <1>6, FreshAfterChoose DEF JoinTeam, Admits
<1>7. ASSUME NEW c \in Clients, KeepTeam(c) \/ \E t \in Teams \cup {None} : Refuse(c, t)
      PROVE  FreshChoices'
  BY <1>7, FreshKept DEF KeepTeam, Refuse, MenuInv, MenuTypeOK, Teams, None
<1>8. ASSUME NEW c \in Clients, SelectChar(c)
      PROVE  FreshChoices'
  BY <1>8, FreshAfterSetTeam DEF SelectChar
<1>9. ASSUME NEW c \in Clients, CancelMenu(c)
      PROVE  FreshChoices'
  <2>1. CASE BecomeSpectator(c)
    BY <2>1, <1>4
  <2>2. CASE /\ UNCHANGED <<m_iTeamNum, checked>>
             /\ \/ m_iNewTeamNum' = [m_iNewTeamNum EXCEPT ![c] = None]
                \/ UNCHANGED m_iNewTeamNum
    BY <2>2, FreshKept DEF MenuInv, MenuTypeOK, Teams, None
  <2>3. CASE m_iCurrentMenu[c] = "class"
    BY <1>9, <2>3, <2>2 DEF CancelMenu
  <2>4. CASE m_iCurrentMenu[c] = "team" /\ ~(m_iNewTeamNum[c] = None /\ m_iTeamNum[c] = None)
    BY <1>9, <2>4, <2>2 DEF CancelMenu
  <2>5. CASE m_iCurrentMenu[c] = "team" /\ m_iNewTeamNum[c] = None /\ m_iTeamNum[c] = None
    BY <1>9, <2>5, <2>1 DEF CancelMenu
  <2> QED
    BY <1>9, <2>3, <2>4, <2>5 DEF CancelMenu
<1>10. ASSUME NEW c \in Clients, ChangeTeam(c)
       PROVE  FreshChoices'
  BY <1>10, FreshKept DEF ChangeTeam
<1>11. ASSUME NEW c \in Clients, ChangeClass(c)
       PROVE  FreshChoices'
  BY <1>11, FreshKept DEF ChangeClass, MenuInv, MenuTypeOK
<1> QED
  BY <1>1, <1>2, <1>3, <1>4, <1>5, <1>6, <1>7, <1>8, <1>9, <1>10, <1>11 DEF MenuNext

\* Who joins a team joins the one chosen, by the choice of a character: every
\* other command keeps the team or leaves it.
LEMMA JoinsByChoice ==
    ASSUME MenuInv, [MenuNext]_menuVars, NEW c \in Clients, NEW t \in Teams, Joins(c, t)
    PROVE  m_iNewTeamNum[c] = t
<1>1. PICK x \in Clients : \/ SelectChar(x) \/ BecomeSpectator(x)
                           \/ ClientPutInServer(x) \/ ClientDisconnected(x)
  BY DEF Joins, MenuNext, menuVars, EndOfGame, InitHUD, AutoAssign, JoinTeam, Choose,
         Refuse, KeepTeam, CancelMenu, ChangeTeam, ChangeClass
<1> QED
  BY <1>1 DEF Joins, SelectChar, ClientPutInServer, ClientDisconnected, BecomeSpectator,
              SetTeam, MenuInv, MenuTypeOK, Teams, None

\* A fresh choice never joins the larger team, as the teams are when the player
\* joins, however long after the choice and whatever others did meanwhile.
THEOREM FreshChoiceBalancesAlways == MenuSpec => FreshChoiceBalances
<1>1. MenuInit => FreshChoices
  BY DEF MenuInit, FreshChoices
<1>2. MenuInv /\ MenuInv' /\ FreshChoices /\ [MenuNext]_menuVars => FreshChoices'
  BY FreshStep
<1>3. MenuInv /\ FreshChoices /\ [MenuNext]_menuVars =>
        [\A c \in Clients, t \in Teams :
            AutoTeam /\ Joins(c, t) /\ c \in checked => TeamSize(t) <= TeamSize(Other(t))]_menuVars
  <2> SUFFICES ASSUME MenuInv, FreshChoices, [MenuNext]_menuVars,
                      NEW c \in Clients, NEW t \in Teams, AutoTeam, Joins(c, t), c \in checked
               PROVE  TeamSize(t) <= TeamSize(Other(t))
    OBVIOUS
  <2>1. m_iNewTeamNum[c] = t
    BY JoinsByChoice
  <2> QED
    BY <2>1 DEF FreshChoices, Joins
<1> QED
  BY <1>1, <1>2, <1>3, MenuInvAlways, PTL DEF MenuSpec, FreshChoiceBalances

-----------------------------------------------------------------------------
(***************************************************************************)
(* MapCycle. CycleTypeOK is inductive: it places Index inside the cycle    *)
(* that is loaded.                                                         *)
(***************************************************************************)

\* A remainder is smaller than the divisor.
LEMMA ModRange == \A n \in Nat \ {0}, k \in Nat : k % n \in 0..n-1
  OBVIOUS

\* The maps of a file are numbered from 0.
LEMMA PlacesAre ==
    ASSUME NEW f \in Files
    PROVE  /\ Length(f) \in Nat
           /\ Places(f) = 0..Length(f) - 1
           /\ Places(f) \subseteq Nat
           /\ Places(f) # {} => Length(f) # 0
<1>1. IsFiniteSet(Places(f))
  BY MapCycleAssumption DEF Places
<1>2. Length(f) \in Nat
  BY <1>1, FS_CardinalityType DEF Length
<1>3. Places(f) = 0..Length(f) - 1
  BY MapCycleAssumption DEF Places, Length
<1> QED
  BY <1>2, <1>3

\* How far the search goes from one place to another, round the cycle.
Distance(f, from, to) == IF to >= from THEN to - from ELSE to + Length(f) - from

\* The search ends at a map of the file, one that admits the players if there
\* is any, wherever it starts.
LEMMA SearchFinds ==
    ASSUME NEW f \in Files, NEW start \in Places(f), NEW count
    PROVE  /\ Search(f, start, count) \in Places(f)
           /\ (\E i \in Places(f) : FitsPlayers(Cycle[f][i], count)) =>
                  FitsPlayers(Cycle[f][Search(f, start, count)], count)
<1> DEFINE ok == {i \in Places(f) : FitsPlayers(Cycle[f][i], count)}
           later == {i \in ok : i >= start}
           First(S) == CHOOSE i \in S : \A j \in S : i <= j
<1>1. ok \subseteq Nat /\ later \subseteq Nat
  BY PlacesAre
<1>2. later # {} => First(later) \in later
  <2> HIDE DEF later
  <2>1. ASSUME later # {}
        PROVE  \E i \in later : \A j \in later : i <= j
    BY <1>1, <2>1, Smallest
  <2> QED
    BY <2>1
<1>3. ok # {} => First(ok) \in ok
  <2> HIDE DEF ok
  <2>1. ASSUME ok # {}
        PROVE  \E i \in ok : \A j \in ok : i <= j
    BY <1>1, <2>1, Smallest
  <2> QED
    BY <2>1
<1>4. Search(f, start, count) =
        CASE later # {} -> First(later)
          [] later = {} /\ ok # {} -> First(ok)
          [] OTHER -> start
  BY DEF Search
<1>5. CASE later # {}
  <2>1. Search(f, start, count) = First(later)
    BY <1>4, <1>5
  <2> QED
    BY <2>1, <1>2, <1>5
<1>6. CASE later = {} /\ ok # {}
  <2>1. Search(f, start, count) = First(ok)
    BY <1>4, <1>6
  <2> QED
    BY <2>1, <1>3, <1>6
<1>7. CASE later = {} /\ ok = {}
  <2>1. Search(f, start, count) = start
    BY <1>4, <1>7
  <2> QED
    BY <2>1, <1>7
<1> QED
  BY <1>5, <1>6, <1>7

\* The search passes no map that admits the players.
LEMMA SearchNearest ==
    ASSUME NEW f \in Files, NEW start \in Places(f), NEW count,
           NEW i \in Places(f), FitsPlayers(Cycle[f][i], count)
    PROVE  Distance(f, start, Search(f, start, count)) <= Distance(f, start, i)
<1> DEFINE ok == {j \in Places(f) : FitsPlayers(Cycle[f][j], count)}
           later == {j \in ok : j >= start}
           First(S) == CHOOSE j \in S : \A k \in S : j <= k
           n == Length(f)
           item == Search(f, start, count)
<1>1. /\ n \in Nat /\ start \in 0..n - 1 /\ i \in 0..n - 1 /\ i \in ok
      /\ \A j \in ok : j \in 0..n - 1
  BY PlacesAre
<1>2. item = CASE later # {} -> First(later)
               [] later = {} /\ ok # {} -> First(ok)
               [] OTHER -> start
  BY DEF Search
<1>3. ok \subseteq Nat /\ later \subseteq Nat
  BY PlacesAre
<1>4. ASSUME NEW S, S \subseteq Nat, S # {}
      PROVE  First(S) \in S /\ \A k \in S : First(S) <= k
  BY <1>4, Smallest
<1>5. CASE later # {}
  <2>1. item \in later /\ \A k \in later : item <= k
    <3>1. item = First(later)
      BY <1>2, <1>5
    <3> HIDE DEF later, First, item
    <3> QED
      BY <1>3, <1>4, <1>5, <3>1
  <2>2. item >= start /\ item \in 0..n - 1 /\ (i >= start => item <= i)
    BY <1>1, <2>1
  <2> HIDE DEF item, n
  <2>3. Distance(f, start, item) = item - start
    BY <2>2 DEF Distance
  <2>4. Distance(f, start, i) = IF i >= start THEN i - start ELSE i + n - start
    BY DEF Distance, n
  <2> QED
    BY <1>1, <2>2, <2>3, <2>4 DEF item
<1>6. CASE later = {}
  <2>1. item \in ok /\ \A k \in ok : item <= k
    <3>1. item = First(ok)
      BY <1>1, <1>2, <1>6
    <3>2. ok # {}
      BY <1>1
    <3> HIDE DEF ok, First, item
    <3> QED
      BY <1>3, <1>4, <3>1, <3>2
  <2>2. /\ item \in 0..n - 1 /\ item <= i
        /\ ~(i >= start) /\ ~(item >= start)
    BY <1>1, <1>6, <2>1
  <2> HIDE DEF item, n
  <2>3. /\ Distance(f, start, item) = item + n - start
        /\ Distance(f, start, i) = i + n - start
    BY <2>2 DEF Distance, n
  <2> QED
    BY <1>1, <2>2, <2>3 DEF item
<1> QED
  BY <1>5, <1>6

\* The index the search starts with is inside the file.
LEMMA CurrentIndexInside ==
    ASSUME CycleTypeOK, Places(mapcyclejsonfile) # {}
    PROVE  CurrentIndex \in Places(mapcyclejsonfile)
<1>1. mapcyclejsonfile \in Files
  BY DEF CycleTypeOK
<1>2. 0 \in Places(mapcyclejsonfile)
  BY <1>1, PlacesAre
<1> QED
  BY <1>1, <1>2 DEF CycleTypeOK, CurrentIndex

\* The chat time a frame reads is between a second and the maximum.
LEMMA ClampRange ==
    ASSUME CycleTypeOK
    PROVE  ClampChatTime \in 1..MAX_INTERMISSION_TIME
  BY MapCycleAssumption DEF CycleTypeOK, ClampChatTime

-----------------------------------------------------------------------------
(* The type invariant.                                                     *)

\* The change of the map leaves Index inside the cycle that was loaded.
LEMMA ChangeLevelType ==
    ASSUME CycleTypeOK, ChangeLevel, mp_chattime' \in 0..MAX_INTERMISSION_TIME + 1
    PROVE  CycleTypeOK'
<1> DEFINE f == mapcyclejsonfile
           item == Search(f, CurrentIndex, CountPlayers)
<1>1. f \in Files /\ f # NoFile
  BY MapCycleAssumption DEF CycleTypeOK
<1>2. /\ loaded' = f /\ mapcyclejsonfile' = f
      /\ g_fGameOver' = FALSE /\ elapsed' = 0 /\ buttonHit' = FALSE
      /\ slots' = {} /\ connected' = {}
  BY DEF ChangeLevel, NewMap
<1>3. elapsed' \in 0..MAX_INTERMISSION_TIME
  BY <1>2, MapCycleAssumption
<1>4. CASE Places(f) = {}
  <2>1. Index' = CurrentIndex /\ map' = map
    BY <1>4 DEF ChangeLevel
  <2>2. CurrentIndex \in Nat
    BY DEF CurrentIndex, CycleTypeOK
  <2> QED
    BY <1>1, <1>2, <1>3, <1>4, <2>1, <2>2 DEF CycleTypeOK
<1>5. CASE Places(f) # {}
  <2>1. Index' = (item + 1) % Length(f) /\ map' = <<f, item>>
    BY <1>5 DEF ChangeLevel
  <2>2. item \in Places(f)
    BY <1>1, <1>5, CurrentIndexInside, SearchFinds
  <2>3. Index' \in Places(f) /\ Index' \in Nat
    <3>1. item + 1 \in Nat /\ Length(f) \in Nat \ {0}
      BY <1>1, <1>5, <2>2, PlacesAre
    <3>2. Index' \in 0..Length(f) - 1
      BY <2>1, <3>1, ModRange
    <3> QED
      BY <1>1, <3>2, PlacesAre
  <2>4. map' \in Maps
    <3> HIDE DEF item
    <3>1. item \in UNION {Places(g) : g \in Files}
      BY <1>1, <2>2
    <3> QED
      BY <1>1, <2>1, <3>1 DEF Maps
  <2> QED
    BY <1>1, <1>2, <1>3, <2>3, <2>4 DEF CycleTypeOK
<1> QED
  BY <1>4, <1>5

\* Every step keeps the ranges.
LEMMA CycleStepType ==
    ASSUME CycleTypeOK, [CycleNext]_cycleVars
    PROVE  CycleTypeOK'
<1>0. /\ MAX_INTERMISSION_TIME \in Nat \ {0}
      /\ ClampChatTime \in 0..MAX_INTERMISSION_TIME + 1
      /\ 0 \in 0..MAX_INTERMISSION_TIME
  BY ClampRange, MapCycleAssumption
<1>1. CASE UNCHANGED cycleVars
  BY <1>1 DEF cycleVars, CycleTypeOK, Places
<1>2. CASE GoToIntermission
  <2> DEFINE times == 0..MAX_INTERMISSION_TIME
             chats == 0..MAX_INTERMISSION_TIME + 1
  <2>1. elapsed' \in times /\ mp_chattime' \in chats
    BY <1>0, <1>2 DEF GoToIntermission
  <2> QED
    BY <1>2, <2>1 DEF GoToIntermission, CycleTypeOK
<1>3. CASE IntermissionThink
  <2>1. PICK now \in {elapsed, elapsed + 1} :
           /\ mp_chattime' = ClampChatTime
           /\ IF ClampChatTime < now /\ (buttonHit \/ MAX_INTERMISSION_TIME < now)
              THEN ChangeLevel
              ELSE /\ elapsed' = now
                   /\ UNCHANGED <<mapcyclejsonfile, loaded, Index, map, g_fGameOver, buttonHit,
                                  slots, connected>>
    BY <1>3 DEF IntermissionThink
  <2>2. CASE ChangeLevel
    BY <1>0, <2>1, <2>2, ChangeLevelType
  <2>3. CASE ~ChangeLevel
    <3>1. /\ elapsed' = now
          /\ UNCHANGED <<mapcyclejsonfile, loaded, Index, map, g_fGameOver, buttonHit,
                         slots, connected>>
      BY <2>1, <2>3
    <3>2. ~(ClampChatTime < now /\ MAX_INTERMISSION_TIME < now)
      BY <2>1, <2>3
    <3>3. now \in 0..MAX_INTERMISSION_TIME
      BY <1>0, <2>1, <3>2, ClampRange DEF CycleTypeOK
    <3> QED
      BY <1>0, <2>1, <3>1, <3>3 DEF CycleTypeOK
  <2> QED
    BY <2>2, <2>3
<1>4. CASE PressButton
  BY <1>4 DEF PressButton, CycleTypeOK
<1>5. ASSUME NEW c \in PlayerSlots, PlayerJoins(c)
      PROVE  CycleTypeOK'
  BY <1>5 DEF PlayerJoins, CycleTypeOK
<1>6. ASSUME NEW c \in PlayerSlots, ClientDisconnect(c)
      PROVE  CycleTypeOK'
  BY <1>6 DEF ClientDisconnect, CycleTypeOK
<1>7. ASSUME NEW f \in Files, SetMapCycleFile(f)
      PROVE  CycleTypeOK'
  BY <1>7 DEF SetMapCycleFile, CycleTypeOK
<1>8. ASSUME NEW t \in 0..MAX_INTERMISSION_TIME + 1, SetChatTime(t)
      PROVE  CycleTypeOK'
  BY <1>8 DEF SetChatTime, CycleTypeOK
<1> QED
  BY <1>1, <1>2, <1>3, <1>4, <1>5, <1>6, <1>7, <1>8 DEF CycleNext

\* The variables keep their ranges; where GetNextMap reads Items[Index], Index
\* is a place of the file that was loaded.
THEOREM CycleTypeCorrect == CycleSpec => []CycleTypeOK
<1>1. CycleInit => CycleTypeOK
  <2> SUFFICES ASSUME CycleInit
               PROVE  CycleTypeOK
    OBVIOUS
  <2>1. elapsed \in 0..MAX_INTERMISSION_TIME /\ mp_chattime \in 0..MAX_INTERMISSION_TIME + 1
    BY MapCycleAssumption DEF CycleInit
  <2>2. NoFile \notin Files /\ StartMap \in Maps
    BY MapCycleAssumption DEF Maps
  <2> QED
    BY <2>1, <2>2 DEF CycleInit, CycleTypeOK
<1>2. CycleTypeOK /\ [CycleNext]_cycleVars => CycleTypeOK'
  BY CycleStepType
<1> QED
  BY <1>1, <1>2, PTL DEF CycleSpec

-----------------------------------------------------------------------------
(* The next map.                                                           *)

\* Only the change of the map ends an intermission.
LEMMA EndsByChangeLevel ==
    ASSUME [CycleNext]_cycleVars, g_fGameOver, ~g_fGameOver'
    PROVE  ChangeLevel
  BY DEF CycleNext, cycleVars, GoToIntermission, IntermissionThink, PressButton,
         PlayerJoins, ClientDisconnect, SetMapCycleFile, SetChatTime

\* The next map admits the players if a map of the file does, wherever the
\* last search left Index and whichever file was asked for since.
THEOREM NextMapAdmitsAlways == CycleSpec => NextMapAdmits
<1>1. CycleTypeOK /\ [CycleNext]_cycleVars =>
        [g_fGameOver /\ ~g_fGameOver' =>
          LET f == mapcyclejsonfile IN
          (\E i \in Places(f) : FitsPlayers(Cycle[f][i], CountPlayers)) =>
              map'[1] = f /\ FitsPlayers(Cycle[f][map'[2]], CountPlayers)]_cycleVars
  <2> DEFINE f == mapcyclejsonfile
  <2> SUFFICES ASSUME CycleTypeOK, [CycleNext]_cycleVars, g_fGameOver, ~g_fGameOver',
                      \E i \in Places(f) : FitsPlayers(Cycle[f][i], CountPlayers)
               PROVE  map'[1] = f /\ FitsPlayers(Cycle[f][map'[2]], CountPlayers)
    OBVIOUS
  <2>1. f \in Files /\ Places(f) # {}
    BY DEF CycleTypeOK
  <2>2. map' = <<f, Search(f, CurrentIndex, CountPlayers)>>
    BY <2>1, EndsByChangeLevel DEF ChangeLevel
  <2>3. CurrentIndex \in Places(f)
    BY <2>1, CurrentIndexInside
  <2>4. FitsPlayers(Cycle[f][Search(f, CurrentIndex, CountPlayers)], CountPlayers)
    BY <2>1, <2>3, SearchFinds
  <2> QED
    BY <2>2, <2>4
<1> QED
  BY <1>1, CycleTypeCorrect, PTL DEF CycleSpec, NextMapAdmits

\* Of the maps that admit the players, the next one is the first after the last,
\* round the cycle: no map is passed over that could be played, which is what
\* RotationFair rests on.
THEOREM NextMapNearest ==
    CycleSpec =>
        [][g_fGameOver /\ ~g_fGameOver' =>
              LET f == mapcyclejsonfile IN
              \A i \in Places(f) : FitsPlayers(Cycle[f][i], CountPlayers) =>
                  Distance(f, CurrentIndex, map'[2]) <= Distance(f, CurrentIndex, i)]_cycleVars
<1>1. CycleTypeOK /\ [CycleNext]_cycleVars =>
        [g_fGameOver /\ ~g_fGameOver' =>
              LET f == mapcyclejsonfile IN
              \A i \in Places(f) : FitsPlayers(Cycle[f][i], CountPlayers) =>
                  Distance(f, CurrentIndex, map'[2]) <= Distance(f, CurrentIndex, i)]_cycleVars
  <2> DEFINE f == mapcyclejsonfile
  <2> SUFFICES ASSUME CycleTypeOK, [CycleNext]_cycleVars, g_fGameOver, ~g_fGameOver',
                      NEW i \in Places(f), FitsPlayers(Cycle[f][i], CountPlayers)
               PROVE  Distance(f, CurrentIndex, map'[2]) <= Distance(f, CurrentIndex, i)
    OBVIOUS
  <2>1. f \in Files /\ Places(f) # {}
    BY DEF CycleTypeOK
  <2>2. map' = <<f, Search(f, CurrentIndex, CountPlayers)>>
    BY <2>1, EndsByChangeLevel DEF ChangeLevel
  <2>3. CurrentIndex \in Places(f)
    BY <2>1, CurrentIndexInside
  <2>4. Distance(f, CurrentIndex, Search(f, CurrentIndex, CountPlayers))
          <= Distance(f, CurrentIndex, i)
    BY <2>1, <2>3, SearchNearest
  <2> QED
    BY <2>2, <2>4
<1> QED
  BY <1>1, CycleTypeCorrect, PTL DEF CycleSpec

=============================================================================
