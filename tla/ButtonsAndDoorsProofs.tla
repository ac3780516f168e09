----------------------- MODULE ButtonsAndDoorsProofs -----------------------
(***************************************************************************)
(* The safety properties of ButtonsAndDoors for any buttons, doors,        *)
(* multisources and wiring that ButtonsAndDoorsAssumption admits. A use     *)
(* goes through several operators on the world, so the invariant is stated  *)
(* of a world (WorldOK) and kept by each operator. InputFollowsButton needs *)
(* that a button's think fits its state, and that a delayed use has been    *)
(* sent by an entity with a delay. Core is kept by every step; LockHolds    *)
(* needs besides that a door that is remembered as locked still is, and     *)
(* what a step may do to a locked door (LockStep).                          *)
(***************************************************************************)
EXTENDS ButtonsAndDoors, TLAPS

DoorOK(d, r) ==
    /\ r \in DoorRecord
    /\ Moving(r) <=> r.think = "MoveDone"
    /\ r.state = "AT_BOTTOM" => r.at = "bottom" /\ r.think = "none" /\ (r.touch <=> d \notin UseOnly)
    /\ r.state = "AT_TOP" => r.at = "top" /\ (r.think = "Return" <=> d \notin NoAutoReturn \cup Stay)

DoorsOK(doors) ==
    /\ doors \in [Door -> DoorRecord]
    /\ \A d \in Door : DoorOK(d, doors[d])

OnOK(on) ==
    /\ on \in [Source -> SUBSET (Button \cup Door)]
    /\ \A s \in Source : on[s] \subseteq Inputs(s)

DelayedOK(uses) ==
    /\ uses \in [Source \cup Name -> Nat]
    /\ \A n \in Source \cup Name :
          uses[n] > 0 => \E e \in (Button \cup Door) \cap Delayed : target[e] = n

WorldType(w) == w = [door |-> w.door, on |-> w.on, delayed |-> w.delayed]

WorldOK(w) == WorldType(w) /\ DoorsOK(w.door) /\ OnOK(w.on) /\ DelayedOK(w.delayed)

ButtonOK(r) ==
    /\ r \in ButtonRecord
    /\ r.think = "MoveDone" => Moving(r)
    /\ r.think = "Return" => r.state = "AT_TOP"

ButtonsOK(buttons) ==
    /\ buttons \in [Button -> ButtonRecord]
    /\ \A b \in Button : ButtonOK(buttons[b])

Core ==
    /\ ButtonsOK(button) /\ WorldOK(World) /\ InputFollowsButton
    /\ stray \in [Source -> BOOLEAN]

KeptOK ==
    /\ kept \in [Door -> {"free", "shut", "turned", "turned twice"}]
    /\ \A d \in Door : kept[d] # "free" => ~Unlocked(m_rgTriggered, d)

IInv == Core /\ KeptOK /\ LockHolds

-----------------------------------------------------------------------------
(* Doors.                                                                  *)

(* However a door was, the functions that move it leave it in order.       *)
LEMMA DoorMoves ==
    ASSUME NEW d, NEW r \in DoorRecord
    PROVE  /\ DoorOK(d, DoorHitTop(d, r)) /\ DoorOK(d, DoorHitBottom(d, r))
           /\ DoorOK(d, DoorGoUp(d, r)) /\ DoorOK(d, DoorGoDown(d, r))
           /\ DoorOK(d, TurnBack(d, r)) /\ DoorOK(d, DoorActivate(d, r))
<1>1. DoorOK(d, DoorHitTop(d, r))
  BY DEF DoorOK, DoorHitTop, DoorRecord, ToggleState, Moving
<1>2. DoorOK(d, DoorHitBottom(d, r))
  BY DEF DoorOK, DoorHitBottom, DoorRecord, ToggleState, Moving
<1>3. DoorOK(d, DoorGoUp(d, r))
  <2>1. CASE r.at = "top"
    BY <1>1, <2>1 DEF DoorGoUp
  <2>2. CASE r.at # "top"
    BY <2>2 DEF DoorGoUp, DoorOK, DoorRecord, ToggleState, Moving
  <2>3. QED
    BY <2>1, <2>2
<1>4. DoorOK(d, DoorGoDown(d, r))
  <2>1. CASE r.at = "bottom"
    BY <1>2, <2>1 DEF DoorGoDown
  <2>2. CASE r.at # "bottom"
    BY <2>2 DEF DoorGoDown, DoorOK, DoorRecord, ToggleState, Moving
  <2>3. QED
    BY <2>1, <2>2
<1>5. QED
  BY <1>1, <1>2, <1>3, <1>4 DEF TurnBack, DoorActivate

\* Wherever a door is found, it is the same but for the place.
LEMMA FoundOK ==
    ASSUME NEW r \in DoorRecord, NEW x \in Found(r)
    PROVE  /\ x \in DoorRecord
           /\ x.state = r.state /\ x.touch = r.touch
           /\ ~Moving(r) => x = r
BY DEF Found, DoorRecord, Moving

(* Use keeps a door in order; a locked door at the bottom, and any door on *)
(* its way, stays as it is.                                                *)
LEMMA DoorUseOK ==
    ASSUME NEW d, NEW r, DoorOK(d, r), NEW on
    PROVE  /\ DoorOK(d, DoorUse(d, r, on))
           /\ r.state # "AT_TOP" /\ ~Unlocked(on, d) => DoorUse(d, r, on) = r
BY DoorMoves DEF DoorUse, DoorOK

\* A use of a name keeps all doors in order, and the locked ones that are not open as
\* they are.
LEMMA UseDoorsOK ==
    ASSUME NEW doors, DoorsOK(doors), NEW on, NEW n
    PROVE  /\ DoorsOK(UseDoors(doors, on, n))
           /\ \A d \in Door : doors[d].state # "AT_TOP" /\ ~Unlocked(on, d)
                                  => UseDoors(doors, on, n)[d] = doors[d]
<1>1. \A d \in Door : /\ DoorOK(d, UseDoors(doors, on, n)[d])
                      /\ doors[d].state # "AT_TOP" /\ ~Unlocked(on, d)
                                  => UseDoors(doors, on, n)[d] = doors[d]
  BY DoorUseOK DEF UseDoors, DoorsOK
<1>2. QED
  BY <1>1 DEF DoorsOK, DoorOK, UseDoors

-----------------------------------------------------------------------------
(* Uses.                                                                   *)

\* A use of a multisource toggles one input of it and no other.
LEMMA SwitchedOK ==
    ASSUME NEW on, OnOK(on), NEW s \in Source, NEW c,
           c \in Inputs(s) \/ Inputs(s) # {}
    PROVE  /\ OnOK(Switched(on, s, c))
           /\ \A t \in Source \ {s} : Switched(on, s, c)[t] = on[t]
           /\ \A x : x # InputOf(s, c) => (x \in Switched(on, s, c)[s] <=> x \in on[s])
           /\ InputOf(s, c) \in Switched(on, s, c)[s] <=> InputOf(s, c) \notin on[s]
<1>1. InputOf(s, c) \in Inputs(s)
  BY ButtonsAndDoorsAssumption DEF InputOf
<1>2. Inputs(s) \subseteq Button \cup Door
  BY DEF Inputs
<1> DEFINE i == InputOf(s, c)
<1>3. Switched(on, s, c) = [on EXCEPT ![s] = IF i \in @ THEN @ \ {i} ELSE @ \cup {i}]
  BY DEF Switched
<1>4. i \in Inputs(s)
  BY <1>1
<1> HIDE DEF i
<1>5. /\ OnOK(Switched(on, s, c))
      /\ \A t \in Source \ {s} : Switched(on, s, c)[t] = on[t]
      /\ \A x : x # i => (x \in Switched(on, s, c)[s] <=> x \in on[s])
      /\ i \in Switched(on, s, c)[s] <=> i \notin on[s]
  BY <1>2, <1>3, <1>4 DEF OnOK
<1>6. QED
  BY <1>5 DEF i

(* A use, of whatever is called n, keeps the world in order; it changes the *)
(* one input of a multisource; a locked door that is not open stays as it  *)
(* is.                                                                     *)
LEMMA FireTargetsOK ==
    ASSUME NEW w, WorldOK(w), NEW n, NEW c,
           n \in Source => c \in Inputs(n) \/ Inputs(n) # {}
    PROVE  LET f == FireTargets(w, n, c) IN
           /\ WorldOK(f) /\ f.delayed = w.delayed
           /\ f.on = IF n \in Source THEN Switched(w.on, n, c) ELSE w.on
           /\ \A d \in Door : w.door[d].state # "AT_TOP" /\ ~Unlocked(f.on, d)
                                  => f.door[d] = w.door[d]
<1> DEFINE f == FireTargets(w, n, c)
<1> USE ButtonsAndDoorsAssumption
<1>1. CASE n \in Source
  <2> DEFINE on == Switched(w.on, n, c)
             doors == IF IsTriggered(on, n) THEN UseDoors(w.door, on, target[n]) ELSE w.door
  <2>1. f = [w EXCEPT !.on = on, !.door = doors]
    BY <1>1 DEF FireTargets
  <2>2. OnOK(on)
    BY <1>1, SwitchedOK DEF WorldOK
  <2>3. /\ DoorsOK(doors)
        /\ \A d \in Door : w.door[d].state # "AT_TOP" /\ ~Unlocked(on, d)
                               => doors[d] = w.door[d]
    BY UseDoorsOK DEF WorldOK
  <2> HIDE DEF on, doors, f
  <2>4. f = [door |-> doors, on |-> on, delayed |-> w.delayed]
    BY <2>1 DEF WorldOK, WorldType
  <2>5. WorldOK(f)
    BY <2>2, <2>3, <2>4 DEF WorldOK, WorldType
  <2>6. f.on = Switched(w.on, n, c)
    BY <2>4 DEF on
  <2>7. QED
    BY <1>1, <2>3, <2>4, <2>5, <2>6 DEF f
<1>2. CASE n \notin Source /\ n \in Name
  <2> DEFINE doors == UseDoors(w.door, w.on, n)
  <2>1. f = [w EXCEPT !.door = doors]
    BY <1>2 DEF FireTargets
  <2>2. /\ DoorsOK(doors)
        /\ \A d \in Door : w.door[d].state # "AT_TOP" /\ ~Unlocked(w.on, d)
                               => doors[d] = w.door[d]
    BY UseDoorsOK DEF WorldOK
  <2> HIDE DEF doors, f
  <2>3. f = [door |-> doors, on |-> w.on, delayed |-> w.delayed]
    BY <2>1 DEF WorldOK, WorldType
  <2>4. WorldOK(f)
    BY <2>2, <2>3 DEF WorldOK, WorldType
  <2>5. QED
    BY <1>2, <2>2, <2>3, <2>4 DEF f
<1>3. CASE n \notin Source /\ n \notin Name
  BY <1>3 DEF FireTargets
<1>4. QED
  BY <1>1, <1>2, <1>3

(* The input that a use by e changes, at once, is e itself.                 *)
LEMMA SUB_UseTargetsOK ==
    ASSUME NEW w, WorldOK(w), NEW e \in Button \cup Door
    PROVE  LET f == SUB_UseTargets(w, e) IN
           /\ WorldOK(f)
           /\ f.on = IF target[e] \in Source /\ e \notin Delayed
                     THEN Switched(w.on, target[e], e) ELSE w.on
           /\ \A d \in Door : w.door[d].state # "AT_TOP" /\ ~Unlocked(f.on, d)
                                  => f.door[d] = w.door[d]
<1> DEFINE f == SUB_UseTargets(w, e)
<1> USE ButtonsAndDoorsAssumption
<1>1. CASE target[e] = Null
  BY <1>1 DEF SUB_UseTargets
<1>2. CASE target[e] # Null /\ e \in Delayed
  <2>1. f = [w EXCEPT !.delayed[target[e]] = @ + 1]
    BY <1>2 DEF SUB_UseTargets
  <2> HIDE DEF f
  <2> DEFINE uses == [w.delayed EXCEPT ![target[e]] = @ + 1]
  <2>2. target[e] \in Source \cup Name
    BY <1>2
  <2>3. DelayedOK(uses)
    BY <1>2, <2>2 DEF WorldOK, DelayedOK
  <2> HIDE DEF uses
  <2>4. f = [door |-> w.door, on |-> w.on, delayed |-> uses]
    BY <2>1 DEF WorldOK, WorldType, uses
  <2>5. WorldOK(f)
    BY <2>3, <2>4 DEF WorldOK, WorldType
  <2>6. QED
    BY <1>2, <2>4, <2>5 DEF f
<1>3. CASE target[e] # Null /\ e \notin Delayed
  <2>1. f = FireTargets(w, target[e], e)
    BY <1>3 DEF SUB_UseTargets
  <2>2. target[e] \in Source => e \in Inputs(target[e])
    BY DEF Inputs
  <2>3. QED
    BY <1>3, <2>1, <2>2, FireTargetsOK
<1>4. QED
  BY <1>1, <1>2, <1>3

-----------------------------------------------------------------------------
(* The invariant.                                                          *)

\* At first everything is closed, out and off.
LEMMA InitCore == Init => Core
<1> SUFFICES ASSUME Init PROVE Core
  OBVIOUS
<1>1. ButtonsOK(button)
  BY DEF Init, ButtonsOK, ButtonOK, ButtonRecord, ToggleState, Moving
<1>2. DoorsOK(door)
  BY DEF Init, DoorsOK, DoorOK, DoorRecord, ToggleState, Moving
<1>3. OnOK(m_rgTriggered)
  BY DEF Init, OnOK
<1>4. DelayedOK(delayed)
  BY DEF Init, DelayedOK
<1>5. InputFollowsButton
  BY ButtonsAndDoorsAssumption DEF Init, InputFollowsButton, Astray
<1>6. QED
  BY <1>1, <1>2, <1>3, <1>4, <1>5 DEF Init, Core, WorldOK, WorldType, World

\* A world in order is one after the step that makes it the state.
LEMMA BecomesOK ==
    ASSUME NEW w, WorldOK(w), Becomes(w)
    PROVE  WorldOK(World)'
BY DEF WorldOK, WorldType, World, Becomes

\* Other doors in a world leave the rest of it.
LEMMA SetDoor ==
    ASSUME NEW w, WorldOK(w), NEW doors, DoorsOK(doors)
    PROVE  LET f == [w EXCEPT !.door = doors] IN
           WorldOK(f) /\ f.door = doors /\ f.on = w.on /\ f.delayed = w.delayed
<1> DEFINE f == [w EXCEPT !.door = doors]
<1>1. f = [door |-> doors, on |-> w.on, delayed |-> w.delayed]
  BY DEF WorldOK, WorldType
<1>2. QED
  BY <1>1 DEF WorldOK, WorldType

\* A step that is no delayed use leaves stray as it is.
LEMMA StraySame ==
    ASSUME Core, NEW turned, Recall(turned, {})
    PROVE  stray' = stray
<1>1. \A x \in BOOLEAN : (x # FALSE) = x
  BY Zenon
<1>2. \A s \in Source : stray'[s] = stray[s]
  BY <1>1 DEF Recall, Core
<1>3. stray' = [s \in Source |-> stray'[s]] /\ stray = [s \in Source |-> stray[s]]
  BY DEF Recall, Core
<1>4. QED
  BY <1>2, <1>3

(* A step in which no button moves and only the input of an entity that is *)
(* no such button may change.                                              *)
LEMMA InputsFollow ==
    ASSUME Core, button' = button, stray' = stray,
           NEW e \in Door,
           m_rgTriggered' = IF target[e] \in Source /\ e \notin Delayed
                            THEN Switched(m_rgTriggered, target[e], e) ELSE m_rgTriggered
    PROVE  InputFollowsButton'
<1> USE ButtonsAndDoorsAssumption
<1>1. CASE target[e] \in Source /\ e \notin Delayed
  <2>1. e \in Inputs(target[e]) /\ InputOf(target[e], e) = e
    BY DEF Inputs, InputOf
  <2>2. OnOK(m_rgTriggered)
    BY DEF Core, WorldOK, World
  <2>3. /\ \A t \in Source \ {target[e]} : m_rgTriggered'[t] = m_rgTriggered[t]
        /\ \A x : x # e => (x \in m_rgTriggered'[target[e]] <=> x \in m_rgTriggered[target[e]])
    BY <1>1, <2>1, <2>2, SwitchedOK
  <2>4. QED
    BY <2>3 DEF Core, InputFollowsButton, Astray
<1>2. CASE ~(target[e] \in Source /\ e \notin Delayed)
  BY <1>2 DEF Core, InputFollowsButton, Astray
<1>3. QED
  BY <1>1, <1>2

(* What becomes of a locked door in a step in which a block turns the doors *)
(* of turned.                                                              *)
Locked(d) ==
    /\ ~Unlocked(m_rgTriggered, d) /\ ~Unlocked(m_rgTriggered', d)
    /\ m_sMaster[d] \notin {target[b] : b \in ToggleButton}

Sinks(turned, d, r) ==
    /\ door[d].state = "AT_BOTTOM" =>
          r.state = "AT_BOTTOM" \/ (d \in turned /\ r.state = "GOING_DOWN")
    /\ door[d].state = "GOING_DOWN" =>
          r.state \in {"AT_BOTTOM", "GOING_DOWN"} \/ d \in turned

LockStep(turned) == \A d \in Door : Locked(d) => Sinks(turned, d, door'[d])

(* The same for a delayed use, which is not taken for such a button's.     *)
LEMMA DelayThinkCore ==
    ASSUME Core, NEW n \in Source \cup Name, DelayThink(n)
    PROVE  Core' /\ LockStep({})
<1> USE ButtonsAndDoorsAssumption
<1> DEFINE w == [World EXCEPT !.delayed[n] = @ - 1]
           uses == [delayed EXCEPT ![n] = @ - 1]
<1>1. DelayedOK(uses)
  BY DEF Core, WorldOK, World, DelayedOK, DelayThink
<1>2. w = [door |-> door, on |-> m_rgTriggered, delayed |-> uses]
  BY DEF World
<1>3. WorldOK(w) /\ w.on = m_rgTriggered /\ w.door = door
  BY <1>1, <1>2 DEF Core, WorldOK, WorldType, World
<1>4. Becomes(FireTargets(w, n, Null)) /\ button' = button
  BY DEF DelayThink
<1>5. PICK e \in (Button \cup Door) \cap Delayed : target[e] = n
  BY DEF DelayThink, Core, WorldOK, World, DelayedOK
<1>6. e \in Inputs(n)
  BY <1>5 DEF Inputs
<1> HIDE DEF w, uses
<1>7. /\ WorldOK(FireTargets(w, n, Null))
      /\ FireTargets(w, n, Null).on = IF n \in Source THEN Switched(m_rgTriggered, n, Null)
                                      ELSE m_rgTriggered
      /\ \A d \in Door : w.door[d].state # "AT_TOP" /\ ~Unlocked(FireTargets(w, n, Null).on, d)
                             => FireTargets(w, n, Null).door[d] = w.door[d]
  BY <1>3, <1>6, FireTargetsOK
<1>8. InputFollowsButton'
  <2>1. CASE n \in Source
    <3>1. m_rgTriggered' = Switched(m_rgTriggered, n, Null)
      BY <1>4, <1>7, <2>1 DEF Becomes
    <3>2. InputOf(n, Null) = LastInput[n]
      BY DEF InputOf, Inputs
    <3>3. OnOK(m_rgTriggered)
      BY DEF Core, WorldOK, World
    <3>4. /\ \A t \in Source \ {n} : m_rgTriggered'[t] = m_rgTriggered[t]
          /\ \A x : x # LastInput[n] => (x \in m_rgTriggered'[n] <=> x \in m_rgTriggered[n])
          /\ LastInput[n] \in m_rgTriggered'[n] <=> LastInput[n] \notin m_rgTriggered[n]
      BY <1>6, <2>1, <3>1, <3>2, <3>3, SwitchedOK
    <3>5. \A t \in Source \ {n} : stray'[t] <=> stray[t]
      BY DEF DelayThink, Recall, Core
    <3>6. stray'[n] <=> ~stray[n]
      BY <2>1 DEF DelayThink, Recall, Core
    <3>7. ASSUME NEW b \in Button \ (ToggleButton \cup Delayed), target[b] \in Source
          PROVE  b \in m_rgTriggered'[target[b]] <=>
                    (button'[b].state \in {"AT_TOP", "GOING_DOWN"} <=> ~Astray(b)')
      <4>1. b \in m_rgTriggered[target[b]] <=>
               (button[b].state \in {"AT_TOP", "GOING_DOWN"} <=> ~Astray(b))
        BY <3>7 DEF Core, InputFollowsButton
      <4>2. CASE target[b] # n
        BY <1>4, <3>4, <3>5, <3>7, <4>1, <4>2 DEF Astray
      <4>3. CASE target[b] = n /\ LastInput[n] # b
        BY <1>4, <3>4, <4>1, <4>3 DEF Astray
      <4>4. CASE target[b] = n /\ LastInput[n] = b
        BY <1>4, <3>4, <3>6, <4>1, <4>4 DEF Astray
      <4>5. QED
        BY <4>2, <4>3, <4>4
    <3>8. QED
      BY <3>7 DEF InputFollowsButton
  <2>2. CASE n \notin Source
    <3>1. m_rgTriggered' = m_rgTriggered
      BY <1>4, <1>7, <2>2 DEF Becomes
    <3>2. \A t \in Source : stray'[t] <=> stray[t]
      BY <2>2 DEF DelayThink, Recall, Core
    <3>3. QED
      BY <1>4, <3>1, <3>2 DEF Core, InputFollowsButton, Astray
  <2>3. QED
    BY <2>1, <2>2
<1>9. LockStep({})
  BY <1>3, <1>4, <1>7 DEF LockStep, Locked, Sinks, Becomes
<1>10. stray' \in [Source -> BOOLEAN]
  BY DEF DelayThink, Recall
<1>11. QED
  BY <1>4, <1>7, <1>8, <1>9, <1>10, BecomesOK DEF Core

(* Every step of doors moves some of them to doors, and e may fire then.    *)
LEMMA DoorStep ==
    ASSUME Core, NEW doors, DoorsOK(doors), NEW e \in Door, button' = button,
           NEW turned, Recall(turned, {}),
           \/ Becomes([World EXCEPT !.door = doors])
           \/ Becomes(SUB_UseTargets([World EXCEPT !.door = doors], e)),
           \A d \in Door : Locked(d) => Sinks(turned, d, doors[d])
    PROVE  Core' /\ LockStep(turned)
<1> DEFINE w == [World EXCEPT !.door = doors]
<1>1. WorldOK(w) /\ w.door = doors /\ w.on = m_rgTriggered
  BY SetDoor DEF Core, World
<1> HIDE DEF w
<1>0. stray' = stray /\ stray \in [Source -> BOOLEAN]
  BY StraySame DEF Core
<1>2. CASE Becomes(w)
  <2>1. door' = doors /\ m_rgTriggered' = m_rgTriggered
    BY <1>1, <1>2 DEF Becomes
  <2>2. InputFollowsButton'
    BY <1>0, <2>1 DEF Core, InputFollowsButton, Astray
  <2>3. QED
    BY <1>0, <1>1, <1>2, <2>1, <2>2, BecomesOK DEF Core, LockStep
<1>3. CASE Becomes(SUB_UseTargets(w, e))
  <2> DEFINE f == SUB_UseTargets(w, e)
  <2>1. /\ WorldOK(f)
        /\ f.on = IF target[e] \in Source /\ e \notin Delayed
                  THEN Switched(m_rgTriggered, target[e], e) ELSE m_rgTriggered
        /\ \A d \in Door : doors[d].state # "AT_TOP" /\ ~Unlocked(f.on, d)
                                => f.door[d] = doors[d]
    BY <1>1, SUB_UseTargetsOK
  <2> HIDE DEF f
  <2>2. door' = f.door /\ m_rgTriggered' = f.on
    BY <1>3 DEF Becomes, f
  <2>3. InputFollowsButton'
    BY <1>0, <2>1, <2>2, InputsFollow
  <2>4. WorldOK(World)'
    BY <1>3, <2>1, BecomesOK DEF f
  <2>5. LockStep(turned)
    BY <2>1, <2>2 DEF LockStep, Locked, Sinks
  <2>6. QED
    BY <1>0, <2>3, <2>4, <2>5 DEF Core
<1>4. QED
  BY <1>2, <1>3 DEF w

\* The doors of the state are in order.
LEMMA DoorsOfCore == ASSUME Core PROVE DoorsOK(door)
BY DEF Core, WorldOK, World

\* A touch turns no locked door: it asks the master first.
LEMMA DoorTouchCore ==
    ASSUME Core, NEW d \in Door, DoorTouch(d)
    PROVE  Core' /\ LockStep({})
<1>1. PICK r \in Found(door[d]) :
         LET after == DoorActivate(d, r)
             w == [World EXCEPT !.door[d] = [after EXCEPT !.touch = FALSE]] IN
         Becomes(IF Moving(after) THEN w ELSE SUB_UseTargets(w, d))
  BY DEF DoorTouch
<1> DEFINE after == DoorActivate(d, r)
           doors == [door EXCEPT ![d] = [after EXCEPT !.touch = FALSE]]
<1>2. DoorsOK(door) /\ DoorOK(d, door[d]) /\ door[d] \in DoorRecord
  BY DoorsOfCore DEF DoorsOK
<1>3. r \in DoorRecord /\ r.state = door[d].state /\ (~Moving(door[d]) => r = door[d])
  BY <1>2, FoundOK
<1>4. after.state # "AT_BOTTOM"
  BY <1>2, <1>3 DEF DoorActivate, DoorGoUp, DoorGoDown, DoorHitTop, DoorOK, Moving, DoorRecord
<1>5. DoorOK(d, after)
  BY <1>3, DoorMoves
<1> HIDE DEF after
<1>6. DoorOK(d, [after EXCEPT !.touch = FALSE])
  BY <1>4, <1>5 DEF DoorOK, DoorRecord, Moving
<1>7. DoorsOK(doors)
  BY <1>2, <1>6 DEF DoorsOK, DoorOK
<1>8. [World EXCEPT !.door[d] = [after EXCEPT !.touch = FALSE]] = [World EXCEPT !.door = doors]
  BY DEF World
<1> HIDE DEF doors
<1>9. \/ Becomes([World EXCEPT !.door = doors])
      \/ Becomes(SUB_UseTargets([World EXCEPT !.door = doors], d))
  BY <1>1, <1>8 DEF after
<1>10. \A x \in Door : Locked(x) => Sinks({}, x, doors[x])
  BY <1>2 DEF Locked, Sinks, DoorTouch, doors, DoorsOK
<1>11. button' = button /\ Recall({}, {})
  BY DEF DoorTouch
<1>12. QED
  BY <1>7, <1>9, <1>10, <1>11, DoorStep

\* Uses by players and monsters turn no locked door, DoorUse asks the master.
LEMMA UsesCore ==
    ASSUME Core, NEW d \in Door, PlayerUse(d) \/ OpenDoorAndWait(d)
    PROVE  Core' /\ LockStep({})
<1>1. DoorsOK(door)
  BY DoorsOfCore
<1>2. \A x \in Door : door'[x] = door[x] \/ door'[x] = DoorUse(x, door[x], m_rgTriggered)
  BY <1>1 DEF PlayerUse, OpenDoorAndWait, DoorsOK
<1>3. door' = [x \in Door |-> door'[x]]
  BY <1>1 DEF PlayerUse, OpenDoorAndWait, DoorsOK
<1>4. \A x \in Door : DoorOK(x, door'[x])
  BY <1>1, <1>2, DoorUseOK DEF DoorsOK
<1>5. DoorsOK(door')
  BY <1>3, <1>4 DEF DoorsOK, DoorOK
<1>6. \A x \in Door : Locked(x) => Sinks({}, x, door'[x])
  BY <1>1, <1>2, DoorUseOK DEF Locked, Sinks, DoorsOK
<1>7. Becomes([World EXCEPT !.door = door']) /\ button' = button /\ Recall({}, {})
  BY DEF Becomes, World, PlayerUse, OpenDoorAndWait
<1>8. QED
  BY <1>5, <1>6, <1>7, DoorStep

\* The end of a move, and a door that closes by itself, turn no door round.
LEMMA DoorThinksCore ==
    ASSUME Core, NEW d \in Door, DoorArrives(d) \/ DoorCloses(d)
    PROVE  Core' /\ LockStep({})
<1>1. DoorsOK(door) /\ DoorOK(d, door[d]) /\ door[d] \in DoorRecord
  BY DoorsOfCore DEF DoorsOK
<1>2. \A r : DoorOK(d, r) => DoorsOK([door EXCEPT ![d] = r])
  BY <1>1 DEF DoorsOK, DoorOK
<1>3. \A r : Sinks({}, d, r) => \A x \in Door : Sinks({}, x, [door EXCEPT ![d] = r][x])
  BY <1>1 DEF Sinks, DoorsOK
<1>4. Recall({}, {}) /\ button' = button
  BY DEF DoorArrives, DoorCloses
<1>5. CASE DoorArrives(d)
  <2> DEFINE after == IF door[d].state = "GOING_UP" THEN DoorHitTop(d, door[d])
                      ELSE DoorHitBottom(d, door[d])
  <2>1. DoorOK(d, after) /\ Sinks({}, d, after)
    <3>1. DoorOK(d, after)
      BY <1>1, DoorMoves
    <3>2. door[d].state \in {"GOING_UP", "GOING_DOWN"}
      BY <1>1, <1>5 DEF DoorArrives, DoorOK, Moving
    <3>3. Sinks({}, d, after)
      BY <1>1, <3>2 DEF Sinks, DoorHitBottom, DoorRecord
    <3>4. QED
      BY <3>1, <3>3
  <2>2. Becomes(SUB_UseTargets([World EXCEPT !.door[d] = after], d))
    BY <1>5 DEF DoorArrives
  <2> HIDE DEF after
  <2>3. [World EXCEPT !.door[d] = after] = [World EXCEPT !.door = [door EXCEPT ![d] = after]]
    BY DEF World
  <2>4. QED
    BY <1>2, <1>3, <1>4, <2>1, <2>2, <2>3, DoorStep
<1>6. CASE DoorCloses(d)
  <2>1. DoorOK(d, DoorGoDown(d, door[d]))
    BY <1>1, DoorMoves
  <2>2. door[d].state = "AT_TOP"
    BY <1>1, <1>6 DEF DoorCloses, DoorOK, Moving, DoorRecord, ToggleState
  <2>3. Sinks({}, d, DoorGoDown(d, door[d]))
    BY <2>2 DEF Sinks
  <2>4. Becomes([World EXCEPT !.door = [door EXCEPT ![d] = DoorGoDown(d, door[d])]])
    BY <1>6 DEF DoorCloses, Becomes, World
  <2>5. QED
    BY <1>2, <1>3, <1>4, <2>1, <2>3, <2>4, DoorStep
<1>7. QED
  BY <1>5, <1>6

\* A block may turn the doors of the name, and those only.
LEMMA BlockedCore ==
    ASSUME Core, NEW d \in Door, Blocked(d)
    PROVE  Core' /\ LockStep(Partners(d) \cup ({d} \ Stay))
<1>1. PICK r \in Found(door[d]), at \in [Partners(d) -> {"bottom", "between", "top"}] :
         LET after == IF d \in Stay THEN r ELSE TurnBack(d, r)
             w == [World EXCEPT !.door =
                     [x \in Door |->
                        CASE x = d -> after
                          [] x \in Partners(d) -> TurnBack(x, [door[x] EXCEPT !.at = at[x]])
                          [] OTHER -> door[x]]] IN
         Becomes(IF Moving(after) THEN w ELSE SUB_UseTargets(w, d))
  BY DEF Blocked
<1> DEFINE after == IF d \in Stay THEN r ELSE TurnBack(d, r)
           doors == [x \in Door |->
                        CASE x = d -> after
                          [] x \in Partners(d) -> TurnBack(x, [door[x] EXCEPT !.at = at[x]])
                          [] OTHER -> door[x]]
<1>2. DoorsOK(door) /\ door \in [Door -> DoorRecord] /\ \A x \in Door : DoorOK(x, door[x])
  BY DoorsOfCore DEF DoorsOK
<1>3. Moving(door[d])
  BY DEF Blocked
<1>4. DoorOK(d, after)
  <2>1. r \in DoorRecord /\ r.state = door[d].state
    BY <1>2, FoundOK
  <2>2. CASE d \in Stay
    BY <1>2, <1>3, <2>2 DEF Found, DoorOK, Moving, DoorRecord
  <2>3. CASE d \notin Stay
    BY <2>1, <2>3, DoorMoves
  <2>4. QED
    BY <2>2, <2>3
<1> HIDE DEF after
<1>5. ASSUME NEW x \in Partners(d)
      PROVE  /\ DoorOK(x, TurnBack(x, [door[x] EXCEPT !.at = at[x]]))
             /\ door[x].state = "AT_BOTTOM" =>
                   TurnBack(x, [door[x] EXCEPT !.at = at[x]]).state \in {"AT_BOTTOM", "GOING_DOWN"}
  <2>1. x \in Door
    BY DEF Partners
  <2> DEFINE moved == [door[x] EXCEPT !.at = at[x]]
  <2>2. moved \in DoorRecord /\ moved.state = door[x].state
    BY <1>2, <2>1 DEF DoorRecord
  <2> HIDE DEF moved
  <2>3. door[x].state = "AT_BOTTOM" => TurnBack(x, moved).state \in {"AT_BOTTOM", "GOING_DOWN"}
    BY <2>2 DEF TurnBack, DoorGoDown, DoorHitBottom, DoorRecord
  <2>4. DoorOK(x, TurnBack(x, moved))
    BY <2>2, DoorMoves
  <2>5. QED
    BY <2>3, <2>4 DEF moved
<1>6. d \notin Partners(d) /\ Partners(d) \subseteq Door
  BY DEF Partners
<1>7. \A x \in Door : DoorOK(x, doors[x])
  BY <1>2, <1>4, <1>5, <1>6
<1>8. DoorsOK(doors)
  BY <1>7 DEF DoorsOK, DoorOK
<1> DEFINE turned == Partners(d) \cup ({d} \ Stay)
<1>9. \A x \in Door : Sinks(turned, x, doors[x])
  <2>1. \A x \in Partners(d) : Sinks(turned, x, doors[x])
    BY <1>5, <1>6 DEF Sinks
  <2>2. Sinks(turned, d, doors[d])
    <3>1. door[d].state # "AT_BOTTOM"
      BY <1>3 DEF Moving
    <3>2. CASE d \in Stay
      <4>1. doors[d] = r /\ door[d] \in DoorRecord
        BY <1>2, <1>6, <3>2 DEF after
      <4>2. r.state = door[d].state
        BY <4>1, FoundOK
      <4>3. QED
        BY <3>1, <4>1, <4>2 DEF Sinks
    <3>3. CASE d \notin Stay
      BY <3>1, <3>3 DEF Sinks
    <3>4. QED
      BY <3>2, <3>3
  <2>3. \A x \in Door : x # d /\ x \notin Partners(d) => doors[x] = door[x]
    OBVIOUS
  <2>4. QED
    BY <2>1, <2>2, <2>3 DEF Sinks
<1>10. \/ Becomes([World EXCEPT !.door = doors])
       \/ Becomes(SUB_UseTargets([World EXCEPT !.door = doors], d))
  BY <1>1 DEF after
<1>11. button' = button /\ Recall(turned, {})
  BY DEF Blocked
<1> HIDE DEF doors, turned
<1>12. QED
  BY <1>8, <1>9, <1>10, <1>11, DoorStep DEF turned

-----------------------------------------------------------------------------
(* Buttons. Whatever b fires, the other inputs and other multisources stay *)
(* as they are, and a door whose lock b does not change on the way is not   *)
(* opened if it is locked.                                                 *)

Fires(b, w0, w) ==
    /\ WorldOK(w)
    /\ \A s \in Source : s # target[b] => w.on[s] = w0.on[s]
    /\ \A s \in Source : \A x : x # b => (x \in w.on[s] <=> x \in w0.on[s])
    /\ \A d \in Door :
          /\ w0.door[d].state # "AT_TOP" /\ ~Unlocked(w.on, d)
          /\ b \in ToggleButton => target[b] # m_sMaster[d]
          => w.door[d] = w0.door[d]

(* The input of b fits a state of b.                                       *)
Tells(b, r, w) == b \in w.on[target[b]] <=> r.state \in {"AT_TOP", "GOING_DOWN"}

OneInput(b) == b \notin ToggleButton \cup Delayed /\ target[b] \in Source

\* What a toggle button does by two uses is what it may do by one.
LEMMA FiresTwice ==
    ASSUME NEW b \in Button \cap ToggleButton, NEW w0, NEW w1, NEW w2,
           Fires(b, w0, w1), Fires(b, w1, w2)
    PROVE  Fires(b, w0, w2)
<1> USE ButtonsAndDoorsAssumption
<1>1. ASSUME NEW d \in Door, w0.door[d].state # "AT_TOP", ~Unlocked(w2.on, d),
             target[b] # m_sMaster[d]
      PROVE  w2.door[d] = w0.door[d]
  <2>1. m_sMaster[d] \in Source
    BY <1>1 DEF Unlocked
  <2>2. ~Unlocked(w1.on, d)
    BY <1>1, <2>1 DEF Fires, Unlocked, IsTriggered
  <2>3. w1.door[d] = w0.door[d]
    BY <1>1, <2>2 DEF Fires
  <2>4. QED
    BY <1>1, <2>3 DEF Fires
<1>2. QED
  BY <1>1 DEF Fires

\* Uses sent by a button toggle its input, once each.
LEMMA ButtonFires ==
    ASSUME NEW b \in Button, NEW w, WorldOK(w)
    PROVE  /\ Fires(b, w, w)
           /\ Fires(b, w, SUB_UseTargets(w, b))
           /\ target[b] \in Source => Fires(b, w, FireTargets(w, target[b], b))
           /\ OneInput(b) =>
                 /\ b \in SUB_UseTargets(w, b).on[target[b]] <=> b \notin w.on[target[b]]
                 /\ b \in FireTargets(w, target[b], b).on[target[b]] <=> b \notin w.on[target[b]]
<1> USE ButtonsAndDoorsAssumption
<1>1. target[b] \in Source => b \in Inputs(target[b]) /\ InputOf(target[b], b) = b
  BY DEF Inputs, InputOf
<1>2. OnOK(w.on)
  BY DEF WorldOK
<1>3. ASSUME NEW f, target[b] \in Source, f.on = Switched(w.on, target[b], b)
      PROVE  /\ \A s \in Source : s # target[b] => f.on[s] = w.on[s]
             /\ \A s \in Source : \A x : x # b => (x \in f.on[s] <=> x \in w.on[s])
             /\ b \in f.on[target[b]] <=> b \notin w.on[target[b]]
  BY <1>1, <1>2, <1>3, SwitchedOK
<1>4. Fires(b, w, w)
  BY DEF Fires
<1>5. /\ Fires(b, w, SUB_UseTargets(w, b))
      /\ OneInput(b) =>
            (b \in SUB_UseTargets(w, b).on[target[b]] <=> b \notin w.on[target[b]])
  <2> DEFINE f == SUB_UseTargets(w, b)
  <2>1. /\ WorldOK(f)
        /\ f.on = IF target[b] \in Source /\ b \notin Delayed
                  THEN Switched(w.on, target[b], b) ELSE w.on
        /\ \A d \in Door : w.door[d].state # "AT_TOP" /\ ~Unlocked(f.on, d)
                               => f.door[d] = w.door[d]
    BY SUB_UseTargetsOK
  <2> HIDE DEF f
  <2>2. CASE target[b] \in Source /\ b \notin Delayed
    <3>1. f.on = Switched(w.on, target[b], b)
      BY <2>1, <2>2
    <3>2. QED
      BY <1>3, <2>1, <2>2, <3>1 DEF Fires, OneInput, f
  <2>3. CASE ~(target[b] \in Source /\ b \notin Delayed)
    BY <2>1, <2>3 DEF Fires, OneInput, f
  <2>4. QED
    BY <2>2, <2>3
<1>6. ASSUME target[b] \in Source
      PROVE  /\ Fires(b, w, FireTargets(w, target[b], b))
             /\ b \in FireTargets(w, target[b], b).on[target[b]] <=> b \notin w.on[target[b]]
  <2> DEFINE f == FireTargets(w, target[b], b)
  <2>1. /\ WorldOK(f)
        /\ f.on = Switched(w.on, target[b], b)
        /\ \A d \in Door : w.door[d].state # "AT_TOP" /\ ~Unlocked(f.on, d)
                               => f.door[d] = w.door[d]
    BY <1>1, <1>6, FireTargetsOK
  <2> HIDE DEF f
  <2>2. QED
    BY <1>3, <1>6, <2>1 DEF Fires, f
<1>7. QED
  BY <1>4, <1>5, <1>6 DEF OneInput

(* What a function of the button b makes of its record r and the world w.  *)
ButtonEffect(b, r, w, a) ==
    /\ Fires(b, w, a.w)
    /\ ButtonOK(a.r)
    /\ OneInput(b) => (Tells(b, a.r, a.w) <=> Tells(b, r, w))

\* At the top the button fires, unless it was locked on its way.
LEMMA TriggerAndWaitEffect ==
    ASSUME NEW b \in Button, NEW r \in ButtonRecord, r.state = "GOING_UP", NEW w, WorldOK(w)
    PROVE  ButtonEffect(b, r, w, TriggerAndWait(b, r, w))
<1> DEFINE a == TriggerAndWait(b, r, w)
<1>1. CASE ~Unlocked(w.on, b)
  <2>1. a.w = w /\ a.r = [r EXCEPT !.think = "none"]
    BY <1>1 DEF TriggerAndWait
  <2>2. ButtonOK(a.r) /\ a.r.state = r.state
    BY <2>1 DEF ButtonOK, ButtonRecord
  <2> HIDE DEF a
  <2>3. QED
    BY <2>1, <2>2, ButtonFires DEF ButtonEffect, Tells, a
<1>2. CASE Unlocked(w.on, b)
  <2>1. a.w = SUB_UseTargets(w, b)
    BY <1>2 DEF TriggerAndWait
  <2>2. a.r = [state |-> "AT_TOP",
               think |-> IF b \in Stay \cup ToggleButton THEN "none" ELSE "Return",
               touch |-> IF b \in Stay \cup ToggleButton THEN b \in TouchOnly ELSE r.touch]
    BY <1>2 DEF TriggerAndWait
  <2> HIDE DEF a
  <2>3. r.touch \in BOOLEAN
    BY DEF ButtonRecord
  <2>4. a.r.touch \in BOOLEAN /\ a.r.think \in {"none", "Return"} /\ a.r.state = "AT_TOP"
    <3>1. CASE b \in Stay \cup ToggleButton
      <4>1. a.r = [state |-> "AT_TOP", think |-> "none", touch |-> b \in TouchOnly]
        BY <2>2, <3>1, Zenon
      <4>2. QED
        BY <4>1
    <3>2. CASE b \notin Stay \cup ToggleButton
      <4>1. a.r = [state |-> "AT_TOP", think |-> "Return", touch |-> r.touch]
        BY <2>2, <3>2, Zenon
      <4>2. QED
        BY <2>3, <4>1
    <3>3. QED
      BY <3>1, <3>2
  <2>5. ButtonOK(a.r)
    BY <2>2, <2>4 DEF ButtonOK, ButtonRecord, ToggleState
  <2>6. QED
    BY <2>1, <2>4, <2>5, ButtonFires DEF ButtonEffect, Tells, a
<1>3. QED
  BY <1>1, <1>2

\* At home the button takes back what it has told the multisource.
LEMMA ButtonBackHomeEffect ==
    ASSUME NEW b \in Button, NEW r, r.state \in {"AT_TOP", "GOING_DOWN"}, NEW w, WorldOK(w)
    PROVE  ButtonEffect(b, r, w, ButtonBackHome(b, r, w))
<1> DEFINE a == ButtonBackHome(b, r, w)
           fired == IF b \in ToggleButton THEN SUB_UseTargets(w, b) ELSE w
<1>1. a.r = [state |-> "AT_BOTTOM", think |-> "none", touch |-> b \in TouchOnly]
  BY DEF ButtonBackHome
<1>2. a.w = IF target[b] \in Source THEN FireTargets(fired, target[b], b) ELSE fired
  BY DEF ButtonBackHome
<1>3. ButtonOK(a.r) /\ a.r.state = "AT_BOTTOM"
  BY <1>1 DEF ButtonOK, ButtonRecord, ToggleState
<1> HIDE DEF a
<1>4. Fires(b, w, fired) /\ WorldOK(fired)
  BY ButtonFires DEF Fires
<1>5. b \notin ToggleButton => fired = w
  OBVIOUS
<1> HIDE DEF fired
<1>6. Fires(b, fired, a.w)
  BY <1>2, <1>4, ButtonFires
<1>7. Fires(b, w, a.w)
  BY <1>4, <1>5, <1>6, FiresTwice
<1>8. OneInput(b) => (b \in a.w.on[target[b]] <=> b \notin w.on[target[b]])
  BY <1>2, <1>4, <1>5, ButtonFires DEF OneInput
<1>9. QED
  BY <1>3, <1>7, <1>8 DEF ButtonEffect, Tells, a

\* A button that goes in fires only if it does not move.
LEMMA ButtonActivateEffect ==
    ASSUME NEW b \in Button, NEW r, ButtonOK(r), r.state = "AT_BOTTOM", NEW w, WorldOK(w)
    PROVE  ButtonEffect(b, r, w, ButtonActivate(b, r, w))
<1> DEFINE a == ButtonActivate(b, r, w)
           up == [r EXCEPT !.state = "GOING_UP"]
<1>1. CASE ~Unlocked(w.on, b)
  <2>1. a.w = w /\ a.r = r
    BY <1>1 DEF ButtonActivate
  <2> HIDE DEF a
  <2>2. QED
    BY <2>1, ButtonFires DEF ButtonEffect, Tells, a
<1>2. CASE Unlocked(w.on, b) /\ b \in Fixed
  <2>1. a = TriggerAndWait(b, up, w)
    BY <1>2 DEF ButtonActivate
  <2>2. up \in ButtonRecord /\ up.state = "GOING_UP"
    BY DEF ButtonOK, ButtonRecord, ToggleState
  <2> HIDE DEF a, up
  <2>3. ButtonEffect(b, up, w, a)
    BY <2>1, <2>2, TriggerAndWaitEffect
  <2>4. QED
    BY <2>2, <2>3 DEF ButtonEffect, Tells, a
<1>3. CASE Unlocked(w.on, b) /\ b \notin Fixed
  <2>1. a.w = w /\ a.r = [r EXCEPT !.state = "GOING_UP", !.think = "MoveDone"]
    BY <1>3 DEF ButtonActivate
  <2>2. ButtonOK(a.r) /\ a.r.state = "GOING_UP"
    BY <2>1 DEF ButtonOK, ButtonRecord, ToggleState, Moving
  <2> HIDE DEF a
  <2>3. QED
    BY <2>1, <2>2, ButtonFires DEF ButtonEffect, Tells, a
<1>4. QED
  BY <1>1, <1>2, <1>3

\* A button that comes out fires only if it does not move.
LEMMA ButtonReturnEffect ==
    ASSUME NEW b \in Button, NEW r, ButtonOK(r), r.state = "AT_TOP", NEW w, WorldOK(w)
    PROVE  ButtonEffect(b, r, w, ButtonReturn(b, r, w))
<1> DEFINE a == ButtonReturn(b, r, w)
<1>1. CASE b \in Fixed
  BY <1>1, ButtonBackHomeEffect DEF ButtonReturn
<1>2. CASE b \notin Fixed
  <2>1. a.w = w /\ a.r = [r EXCEPT !.state = "GOING_DOWN", !.think = "MoveDone"]
    BY <1>2 DEF ButtonReturn
  <2>2. ButtonOK(a.r) /\ a.r.state = "GOING_DOWN"
    BY <2>1 DEF ButtonOK, ButtonRecord, ToggleState, Moving
  <2> HIDE DEF a
  <2>3. QED
    BY <2>1, <2>2, ButtonFires DEF ButtonEffect, Tells, a
<1>3. QED
  BY <1>1, <1>2

\* A button that answers goes in or comes out.
LEMMA AnswerEffect ==
    ASSUME NEW b \in Button, Answers(b), NEW r, ButtonOK(r), r.state = button[b].state,
           NEW w, WorldOK(w)
    PROVE  ButtonEffect(b, r, w, Answer(b, r, w))
<1>1. CASE PushedToggle(b)
  BY <1>1, ButtonReturnEffect DEF PushedToggle, Answer
<1>2. CASE ~PushedToggle(b)
  BY <1>2, ButtonActivateEffect DEF Answers, Answer
<1>3. QED
  BY <1>1, <1>2

(* Every step of a button has such an effect.                              *)
LEMMA EffectCore ==
    ASSUME Core, NEW b \in Button, NEW a, Step(b, a), ButtonEffect(b, button[b], World, a)
    PROVE  Core' /\ LockStep({})
<1> USE ButtonsAndDoorsAssumption
<1>1. /\ button' = [button EXCEPT ![b] = a.r] /\ Becomes(a.w)
      /\ m_rgTriggered' = a.w.on /\ door' = a.w.door
  BY DEF Step, Becomes
<1>2. World.on = m_rgTriggered /\ World.door = door
  BY DEF World
<1>3. WorldOK(World)'
  BY <1>1, BecomesOK DEF ButtonEffect, Fires
<1>4. ButtonsOK(button')
  BY <1>1 DEF ButtonsOK, ButtonOK, ButtonEffect, Core
<1>0. stray' = stray /\ stray \in [Source -> BOOLEAN]
  BY StraySame DEF Core, Step
<1>5. InputFollowsButton'
  <2>1. ASSUME NEW x \in Button \ (ToggleButton \cup Delayed), target[x] \in Source
        PROVE  x \in m_rgTriggered'[target[x]] <=>
                  (button'[x].state \in {"AT_TOP", "GOING_DOWN"} <=> ~Astray(x))
    <3>1. x \in m_rgTriggered[target[x]] <=>
             (button[x].state \in {"AT_TOP", "GOING_DOWN"} <=> ~Astray(x))
      BY <2>1 DEF Core, InputFollowsButton
    <3>2. CASE x = b
      <4>1. Tells(b, a.r, a.w) <=> Tells(b, button[b], World)
        BY <2>1, <3>2 DEF ButtonEffect, OneInput
      <4>2. button'[b] = a.r
        BY <1>1 DEF Core, ButtonsOK
      <4>3. QED
        BY <1>1, <1>2, <3>1, <3>2, <4>1, <4>2 DEF Tells
    <3>3. CASE x # b
      <4>1. x \in m_rgTriggered'[target[x]] <=> x \in m_rgTriggered[target[x]]
        BY <1>1, <1>2, <2>1, <3>3 DEF ButtonEffect, Fires
      <4>2. button'[x] = button[x]
        BY <1>1, <3>3 DEF Core, ButtonsOK
      <4>3. QED
        BY <3>1, <4>1, <4>2
    <3>4. QED
      BY <3>2, <3>3
  <2>2. QED
    BY <1>0, <2>1 DEF InputFollowsButton, Astray
<1>6. LockStep({})
  BY <1>1, <1>2 DEF LockStep, Locked, Sinks, ButtonEffect, Fires
<1>7. QED
  BY <1>0, <1>3, <1>4, <1>5, <1>6 DEF Core, ButtonsOK

\* Whatever is done to a button, it fires in step with its state.
LEMMA ButtonStepCore ==
    ASSUME Core, NEW b \in Button,
           \/ ButtonUse(b) \/ ButtonTouch(b) \/ TakeDamage(b)
           \/ ButtonArrives(b) \/ ButtonComesOut(b)
    PROVE  Core' /\ LockStep({})
<1>1. ButtonOK(button[b]) /\ button[b] \in ButtonRecord /\ WorldOK(World)
  BY DEF Core, ButtonsOK, ButtonOK
<1>2. ButtonOK(Untouchable(b)) /\ Untouchable(b).state = button[b].state
  BY <1>1 DEF Untouchable, ButtonOK, ButtonRecord, Moving
<1>3. CASE ButtonUse(b)
  BY <1>1, <1>3, AnswerEffect, EffectCore DEF ButtonUse
<1>4. CASE ButtonTouch(b)
  <2> DEFINE w == IF PushedToggle(b) THEN SUB_UseTargets(World, b) ELSE World
             a == Answer(b, Untouchable(b), w)
  <2>1. Fires(b, World, w) /\ WorldOK(w)
    BY <1>1, ButtonFires DEF Fires
  <2>2. PushedToggle(b) => b \in ToggleButton
    BY DEF PushedToggle
  <2>3. ~PushedToggle(b) => w = World
    OBVIOUS
  <2>4. Step(b, a) /\ Answers(b)
    BY <1>4 DEF ButtonTouch
  <2> HIDE DEF w
  <2>5. ButtonEffect(b, Untouchable(b), w, a)
    BY <1>2, <2>1, <2>4, AnswerEffect
  <2> HIDE DEF a
  <2>6. Fires(b, World, a.w)
    BY <2>1, <2>2, <2>3, <2>5, FiresTwice DEF ButtonEffect
  <2>7. ButtonEffect(b, button[b], World, a)
    BY <1>2, <2>2, <2>3, <2>5, <2>6 DEF ButtonEffect, OneInput, Tells
  <2>8. QED
    BY <2>4, <2>7, EffectCore
<1>5. CASE TakeDamage(b)
  <2> DEFINE a == Answer(b, Untouchable(b), World)
  <2>1. /\ Step(b, a) \/ Step(b, [r |-> Untouchable(b), w |-> World])
        /\ Answers(b)
    BY <1>5 DEF TakeDamage
  <2>2. ButtonEffect(b, Untouchable(b), World, a)
    BY <1>1, <1>2, <2>1, AnswerEffect
  <2> HIDE DEF a
  <2>3. ButtonEffect(b, button[b], World, a)
    BY <1>2, <2>2 DEF ButtonEffect, Tells
  <2>4. CASE Step(b, a)
    BY <2>3, <2>4, EffectCore
  <2>5. CASE Step(b, [r |-> Untouchable(b), w |-> World])
    <3>1. ButtonEffect(b, button[b], World, [r |-> Untouchable(b), w |-> World])
      BY <1>1, <1>2, ButtonFires DEF ButtonEffect, Tells
    <3>2. QED
      BY <2>5, <3>1, EffectCore
  <2>6. QED
    BY <2>1, <2>4, <2>5
<1>6. CASE ButtonArrives(b)
  <2>1. Moving(button[b])
    BY <1>1, <1>6 DEF ButtonArrives, ButtonOK
  <2>2. CASE button[b].state = "GOING_UP"
    BY <1>1, <1>6, <2>2, TriggerAndWaitEffect, EffectCore DEF ButtonArrives
  <2>3. CASE button[b].state = "GOING_DOWN"
    BY <1>1, <1>6, <2>3, ButtonBackHomeEffect, EffectCore DEF ButtonArrives
  <2>4. QED
    BY <2>1, <2>2, <2>3 DEF Moving
<1>7. CASE ButtonComesOut(b)
  BY <1>1, <1>7, ButtonReturnEffect, EffectCore DEF ButtonComesOut, ButtonOK
<1>8. QED
  BY <1>3, <1>4, <1>5, <1>6, <1>7

-----------------------------------------------------------------------------
(* The theorems.                                                           *)

\* Every step keeps the core, and the history records what it did to locked doors.
LEMMA NextCore ==
    ASSUME Core, Next
    PROVE  /\ Core'
           /\ \E turned, used : LockStep(turned) /\ Recall(turned, used)
<1>1. CASE \E n \in Source \cup Name : DelayThink(n)
  <2>1. PICK n \in Source \cup Name : DelayThink(n)
    BY <1>1
  <2>2. Recall({}, {n})
    BY <2>1 DEF DelayThink
  <2>3. QED
    BY <2>1, <2>2, DelayThinkCore
<1>2. CASE \E b \in Button : \/ ButtonUse(b) \/ ButtonTouch(b) \/ TakeDamage(b)
                              \/ ButtonArrives(b) \/ ButtonComesOut(b)
  <2>1. Recall({}, {})
    BY <1>2 DEF ButtonUse, ButtonTouch, TakeDamage, ButtonArrives, ButtonComesOut, Step
  <2>2. QED
    BY <1>2, <2>1, ButtonStepCore
<1>3. CASE \E d \in Door : \/ DoorTouch(d) \/ PlayerUse(d) \/ OpenDoorAndWait(d)
                            \/ DoorArrives(d) \/ DoorCloses(d)
  <2>1. Recall({}, {})
    BY <1>3 DEF DoorTouch, PlayerUse, OpenDoorAndWait, DoorArrives, DoorCloses
  <2>2. QED
    BY <1>3, <2>1, DoorTouchCore, UsesCore, DoorThinksCore
<1>4. CASE \E d \in Door : Blocked(d)
  <2>1. PICK d \in Door : Blocked(d)
    BY <1>4
  <2>2. Recall(Partners(d) \cup ({d} \ Stay), {})
    BY <2>1 DEF Blocked
  <2>3. QED
    BY <2>1, <2>2, BlockedCore
<1>5. QED
  BY <1>1, <1>2, <1>3, <1>4 DEF Next

\* What the history has of a door follows from what a step may do to it.
LEMMA RecallIInv ==
    ASSUME IInv, Core', NEW turned, NEW used, LockStep(turned), Recall(turned, used)
    PROVE  IInv'
<1>1. ASSUME NEW d \in Door
      PROVE  /\ kept'[d] \in {"free", "shut", "turned", "turned twice"}
             /\ kept'[d] # "free" => ~Unlocked(m_rgTriggered', d)
             /\ m_sMaster[d] \notin {target[b] : b \in ToggleButton} =>
                   /\ kept'[d] = "shut" => door'[d].state = "AT_BOTTOM"
                   /\ kept'[d] = "turned" => door'[d].state = "GOING_DOWN"
  <2>1. kept[d] \in {"free", "shut", "turned", "turned twice"}
    BY DEF IInv, KeptOK
  <2>2. CASE Unlocked(m_rgTriggered', d)
    BY <2>2 DEF Recall
  <2>3. CASE ~Unlocked(m_rgTriggered', d) /\ door'[d].state = "AT_BOTTOM"
    BY <2>3 DEF Recall
  <2>4. CASE ~Unlocked(m_rgTriggered', d) /\ door'[d].state # "AT_BOTTOM"
    <3>1. kept'[d] = IF d \in turned THEN OneMore(kept[d]) ELSE kept[d]
      BY <2>4 DEF Recall
    <3>2. kept[d] # "free" => ~Unlocked(m_rgTriggered, d)
      BY DEF IInv, KeptOK
    <3>3. kept[d] # "free" /\ m_sMaster[d] \notin {target[b] : b \in ToggleButton} =>
             Sinks(turned, d, door'[d])
      BY <2>4, <3>2 DEF LockStep, Locked
    <3>4. m_sMaster[d] \notin {target[b] : b \in ToggleButton} =>
             /\ kept[d] = "shut" => door[d].state = "AT_BOTTOM"
             /\ kept[d] = "turned" => door[d].state = "GOING_DOWN"
      BY DEF IInv, LockHolds
    <3>5. CASE d \in turned
      BY <2>1, <2>4, <3>1, <3>3, <3>4, <3>5 DEF OneMore, Sinks
    <3>6. CASE d \notin turned
      BY <2>1, <2>4, <3>1, <3>3, <3>4, <3>6 DEF Sinks
    <3>7. QED
      BY <3>5, <3>6
  <2>5. QED
    BY <2>2, <2>3, <2>4
<1>2. kept' = [d \in Door |-> kept'[d]]
  BY DEF Recall
<1>3. KeptOK'
  BY <1>1, <1>2 DEF KeptOK, Unlocked, IsTriggered
<1>4. LockHolds'
  BY <1>1 DEF LockHolds
<1>5. QED
  BY <1>3, <1>4 DEF IInv

\* Every step keeps the invariant.
LEMMA NextIInv == IInv /\ [Next]_vars => IInv'
<1>1. CASE UNCHANGED vars
  BY <1>1 DEF vars, IInv, Core, ButtonsOK, WorldOK, WorldType, World, InputFollowsButton, Astray,
              KeptOK, LockHolds
<1>2. CASE IInv /\ Next
  <2>1. /\ Core'
        /\ \E turned, used : LockStep(turned) /\ Recall(turned, used)
    BY <1>2, NextCore DEF IInv
  <2>2. QED
    BY <1>2, <2>1, RecallIInv
<1>3. QED
  BY <1>1, <1>2

\* The invariant holds at first.
LEMMA InitIInv == Init => IInv
<1>1. Init => KeptOK
  <2>1. ASSUME Init, NEW d \in Door, kept[d] # "free"
        PROVE  ~Unlocked(m_rgTriggered, d)
    <3>1. m_sMaster[d] # Null /\ Inputs(m_sMaster[d]) # {}
      BY <2>1 DEF Init
    <3>2. m_sMaster[d] \in Source
      BY <3>1, ButtonsAndDoorsAssumption
    <3>3. QED
      BY <2>1, <3>1, <3>2 DEF Init, Unlocked, IsTriggered
  <2>2. Init => kept \in [Door -> {"free", "shut", "turned", "turned twice"}]
    BY DEF Init
  <2>3. QED
    BY <2>1, <2>2 DEF KeptOK
<1>2. Init => LockHolds
  BY DEF Init, LockHolds
<1>3. QED
  BY <1>1, <1>2, InitCore DEF IInv

\* The invariant holds in every state.
THEOREM IInvAlways == Spec => []IInv
BY InitIInv, NextIInv, PTL DEF Spec

(* A door that moves is going to arrive, one at rest is where its state    *)
(* says and, if it is to close by itself, has a think for it.              *)
THEOREM MechanismTypeCorrect == Spec => []MechanismTypeOK
<1>1. IInv => MechanismTypeOK
  BY DEF IInv, Core, KeptOK, ButtonsOK, WorldOK, World, DoorsOK, DoorOK, OnOK, DelayedOK,
         MechanismTypeOK
<1>2. QED
  BY <1>1, IInvAlways, PTL

(* A multisource has a button's input on exactly while the button is in,   *)
(* but for an odd number of delayed uses that are taken for the button's.   *)
THEOREM InputFollowsButtonAlways == Spec => []InputFollowsButton
<1>1. IInv => InputFollowsButton
  BY DEF IInv, Core
<1>2. QED
  BY <1>1, IInvAlways, PTL

(* A door that is locked since it was closed is closed, or on its way back *)
(* after one block of a partner: only a second one opens it.               *)
THEOREM LockHoldsAlways == Spec => []LockHolds
<1>1. IInv => LockHolds
  BY DEF IInv
<1>2. QED
  BY <1>1, IInvAlways, PTL

=============================================================================
