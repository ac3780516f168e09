-------------------------- MODULE ButtonsAndDoors --------------------------
(***************************************************************************)
(* Buttons (CBaseButton, buttons.cpp), the multisources they feed          *)
(* (CMultiSource, buttons.cpp), the doors these open or lock (CBaseDoor,    *)
(* doors.cpp), and the uses that are sent between them (SUB_UseTargets,    *)
(* FireTargets and the delayed_use entity, subs.cpp).                       *)
(*                                                                         *)
(* One engine callback is one step. Multisources have registered their     *)
(* inputs. Where a mover is on its way is known only as far as LinearMove  *)
(* and AngularMove look: at one end or in between. Rotating doors are       *)
(* one-way.                                                                *)
(***************************************************************************)
EXTENDS Integers, FiniteSets

CONSTANTS
    Button, Door, Source,    \* func_button, func_door and multisource
    Name,                    \* the targetnames of doors
    Null,
    target,                  \* what an entity fires
    targetname,              \* of the doors
    m_sMaster,               \* the multisource that locks a button or a door
    LastInput,               \* the last of a multisource's m_rgEntities
    Delayed,                 \* buttons and doors with a "delay"
    MaxDelayed,              \* bound: delayed_use entities of one target
    Stay,                    \* buttons and doors with m_flWait = -1
    TouchOnly, ToggleButton, \* flags of buttons
    Fixed,                   \* buttons that do not move
    Shootable,               \* buttons with health
    NoAutoReturn, UseOnly,   \* flags of doors
    Rotating                 \* func_door_rotating

Inputs(s) == {e \in Button \cup Door : target[e] = s}

\* Doors that share a name fire nothing themselves.
ASSUME ButtonsAndDoorsAssumption ==
    /\ Button \cap Door = {} /\ Source \cap Name = {}
    /\ Null \notin Source \cup Name \cup Button \cup Door
    /\ target \in [Button \cup Door \cup Source -> Source \cup Name \cup {Null}]
    /\ \A s \in Source : target[s] \notin Source
    /\ targetname \in [Door -> Name \cup {Null}]
    /\ m_sMaster \in [Button \cup Door -> Source \cup {Null}]
    /\ LastInput \in [Source -> Button \cup Door]
    /\ \A s \in Source : Inputs(s) # {} => LastInput[s] \in Inputs(s)
    /\ MaxDelayed \in Nat /\ ToggleButton \subseteq Button
    /\ \A d, e \in Door : targetname[d] = targetname[e] /\ targetname[d] # Null /\ d # e
                              => target[d] = Null

VARIABLES
    button,        \* m_toggle_state, the think that is due, and ButtonTouch
    door,          \* the same of doors, and where the present move began
    m_rgTriggered, \* the inputs of each multisource that are on
    delayed,       \* the delayed_use entities of each target
    (* history *)
    kept,          \* how a door locked since it was last closed has been turned round
    stray          \* whether delayed uses have left the last input the wrong way round

vars == <<button, door, m_rgTriggered, delayed, kept, stray>>

ToggleState == {"AT_BOTTOM", "AT_TOP", "GOING_UP", "GOING_DOWN"}
Moving(r) == r.state \in {"GOING_UP", "GOING_DOWN"}

\* "MoveDone" is LinearMoveDone or AngularMoveDone, "Return" is ButtonReturn
\* or DoorGoDown.
ButtonRecord ==
    [state : ToggleState, think : {"none", "MoveDone", "Return"}, touch : BOOLEAN]
DoorRecord ==
    [state : ToggleState, think : {"none", "MoveDone", "Return"}, touch : BOOLEAN,
     at : {"bottom", "between", "top"}]

Init ==
    /\ button = [b \in Button |->
                   [state |-> "AT_BOTTOM", think |-> "none", touch |-> b \in TouchOnly]]
    /\ door = [d \in Door |->
                 [state |-> "AT_BOTTOM", think |-> "none", touch |-> d \notin UseOnly,
                  at |-> "bottom"]]
    /\ m_rgTriggered = [s \in Source |-> {}]
    /\ delayed = [n \in Source \cup Name |-> 0]
    /\ kept = [d \in Door |-> IF m_sMaster[d] # Null /\ Inputs(m_sMaster[d]) # {}
                               THEN "shut" ELSE "free"]
    /\ stray = [s \in Source |-> FALSE]

\* What a use changes besides the entity that sends it.
World == [door |-> door, on |-> m_rgTriggered, delayed |-> delayed]

Becomes(w) ==
    /\ door' = w.door
    /\ m_rgTriggered' = w.on
    /\ delayed' = w.delayed

-----------------------------------------------------------------------------
(* Multisources.                                                           *)

IsTriggered(on, s) == on[s] = Inputs(s)

\* UTIL_IsMasterTriggered
Unlocked(on, e) == m_sMaster[e] # Null => IsTriggered(on, m_sMaster[e])

\* The input that Use toggles: the search for the caller ends at the last one
\* if it is not found, which the test i > m_iTotal never notices.
InputOf(s, caller) == IF caller \in Inputs(s) THEN caller ELSE LastInput[s]

Switched(on, s, caller) ==
    LET i == InputOf(s, caller) IN
    [on EXCEPT ![s] = IF i \in @ THEN @ \ {i} ELSE @ \cup {i}]

-----------------------------------------------------------------------------
(* Doors. Each operator gives the door as the function leaves it.          *)

DoorHitTop(d, r) ==
    [r EXCEPT !.state = "AT_TOP", !.at = "top",
              !.touch = @ \/ d \in NoAutoReturn \ UseOnly,
              !.think = IF d \in NoAutoReturn \cup Stay THEN "none" ELSE "Return"]

\* Mutant: the door is not to be touched again once it is closed.
DoorHitBottomUntouchable(d, r) ==
    [r EXCEPT !.state = "AT_BOTTOM", !.at = "bottom", !.think = "none"]

DoorHitBottom(d, r) ==
    [r EXCEPT !.state = "AT_BOTTOM", !.at = "bottom", !.touch = d \notin UseOnly,
              !.think = "none"]

\* Mutant: a move to where the door is already does not end.
DoorGoUpStanding(d, r) ==
    [r EXCEPT !.state = "GOING_UP", !.think = IF r.at = "top" THEN "none" ELSE "MoveDone"]

\* A move to where the door is already ends at once.
DoorGoUp(d, r) ==
    IF r.at = "top" THEN DoorHitTop(d, r)
    ELSE [r EXCEPT !.state = "GOING_UP", !.think = "MoveDone"]

DoorGoDown(d, r) ==
    IF r.at = "bottom" THEN DoorHitBottom(d, r)
    ELSE [r EXCEPT !.state = "GOING_DOWN", !.think = "MoveDone"]

\* DoorActivate of a door that is not locked.
DoorActivate(d, r) ==
    IF d \in NoAutoReturn /\ r.state = "AT_TOP" THEN DoorGoDown(d, r) ELSE DoorGoUp(d, r)

\* Use, at rest, where no move ends at once.
DoorUse(d, r, on) ==
    IF /\ r.state = "AT_BOTTOM" \/ (r.state = "AT_TOP" /\ d \in NoAutoReturn)
       /\ Unlocked(on, d)
    THEN DoorActivate(d, r) ELSE r

UseDoors(doors, on, n) ==
    [d \in Door |-> IF targetname[d] = n /\ n # Null THEN DoorUse(d, doors[d], on) ELSE doors[d]]

\* Where a door may be found: it may not have left, or be on its way.
Found(r) ==
    {[r EXCEPT !.at = at] : at \in {r.at} \cup IF Moving(r) THEN {"between"} ELSE {}}

-----------------------------------------------------------------------------
(* The history, which no guard reads.                                      *)

OneMore(k) == CASE k = "shut" -> "turned" [] k = "turned" -> "turned twice" [] OTHER -> k

\* A block has turned the doors of turned, and a delayed use has reached the
\* multisources of used.
Recall(turned, used) ==
    /\ kept' = [d \in Door |->
                  CASE Unlocked(m_rgTriggered', d) -> "free"
                    [] ~Unlocked(m_rgTriggered', d) /\ door'[d].state = "AT_BOTTOM" -> "shut"
                    [] OTHER -> IF d \in turned THEN OneMore(kept[d]) ELSE kept[d]]
    /\ stray' = [s \in Source |-> stray[s] # (s \in used)]

-----------------------------------------------------------------------------
(* Uses.                                                                   *)

\* FireTargets: a multisource that has all its inputs fires its own target.
FireTargets(w, n, caller) ==
    CASE n \in Source ->
           LET on == Switched(w.on, n, caller) IN
           [w EXCEPT !.on = on,
                     !.door = IF IsTriggered(on, n) THEN UseDoors(@, on, target[n]) ELSE @]
      [] n \in Name -> [w EXCEPT !.door = UseDoors(@, w.on, n)]
      [] OTHER -> w

\* CBaseDelay::SUB_UseTargets
SUB_UseTargets(w, e) ==
    CASE target[e] = Null -> w
      [] target[e] # Null /\ e \in Delayed -> [w EXCEPT !.delayed[target[e]] = @ + 1]
      [] OTHER -> FireTargets(w, target[e], e)

\* The bound on delayed uses.
Room(e) == e \in Delayed /\ target[e] # Null => delayed[target[e]] < MaxDelayed

\* The delayed_use entity, and not the one with the delay, is the caller.
DelayThink(n) ==
    /\ delayed[n] > 0
    /\ Becomes(FireTargets([World EXCEPT !.delayed[n] = @ - 1], n, Null))
    /\ UNCHANGED button /\ Recall({}, {n})

-----------------------------------------------------------------------------
(* The doors' handlers.                                                    *)

\* A player touches the door. Whatever moved, it is not to be touched again
\* until the movement is finished.
DoorTouch(d) ==
    /\ door[d].touch /\ targetname[d] = Null /\ Unlocked(m_rgTriggered, d) /\ Room(d)
    /\ \E r \in Found(door[d]) :
         LET after == DoorActivate(d, r)
             w == [World EXCEPT !.door[d] = [after EXCEPT !.touch = FALSE]] IN
         Becomes(IF Moving(after) THEN w ELSE SUB_UseTargets(w, d))
    /\ UNCHANGED button /\ Recall({}, {})

\* Use by a player.
PlayerUse(d) ==
    /\ d \in UseOnly
    /\ door' = [door EXCEPT ![d] = DoorUse(d, @, m_rgTriggered)]
    /\ UNCHANGED <<button, m_rgTriggered, delayed>> /\ Recall({}, {})

\* A monster uses the door and all of its kind that have its name.
OpenDoorAndWait(d) ==
    /\ Unlocked(m_rgTriggered, d)
    /\ door' = [x \in Door |->
                  IF \/ x = d
                     \/ /\ targetname[x] = targetname[d] /\ targetname[d] # Null
                        /\ x \in Rotating <=> d \in Rotating
                  THEN DoorUse(x, door[x], m_rgTriggered) ELSE door[x]]
    /\ UNCHANGED <<button, m_rgTriggered, delayed>> /\ Recall({}, {})

\* DoorHitTop and DoorHitBottom as the end of a move.
DoorArrives(d) ==
    /\ door[d].think = "MoveDone" /\ Room(d)
    /\ LET after == IF door[d].state = "GOING_UP" THEN DoorHitTop(d, door[d])
                    ELSE DoorHitBottom(d, door[d]) IN
       Becomes(SUB_UseTargets([World EXCEPT !.door[d] = after], d))
    /\ UNCHANGED button /\ Recall({}, {})

\* DoorGoDown as a think.
DoorCloses(d) ==
    /\ door[d].think = "Return"
    /\ door' = [door EXCEPT ![d] = DoorGoDown(d, @)]
    /\ UNCHANGED <<button, m_rgTriggered, delayed>> /\ Recall({}, {})

\* Mutant: doors at rest go up.
TurnBackUp(d, r) == IF r.state = "GOING_UP" THEN DoorGoDown(d, r) ELSE DoorGoUp(d, r)

TurnBack(d, r) == IF r.state = "GOING_DOWN" THEN DoorGoUp(d, r) ELSE DoorGoDown(d, r)

Partners(d) == {e \in Door \ (Stay \cup {d}) : targetname[e] = targetname[d] /\ targetname[d] # Null}

\* Something is in the way. All doors of the name turn round, those at rest go
\* down. One that stands still is moved to where d is if d's velocity is zero.
Blocked(d) ==
    /\ Moving(door[d]) /\ Room(d)
    /\ \E r \in Found(door[d]), at \in [Partners(d) -> {"bottom", "between", "top"}] :
         LET after == IF d \in Stay THEN r ELSE TurnBack(d, r)
             w == [World EXCEPT !.door =
                     [x \in Door |->
                        CASE x = d -> after
                          [] x \in Partners(d) -> TurnBack(x, [door[x] EXCEPT !.at = at[x]])
                          [] OTHER -> door[x]]] IN
         /\ \A x \in Partners(d) :
                \/ [door[x] EXCEPT !.at = at[x]] \in Found(door[x])
                \/ ~Moving(door[x]) /\ (d \in Rotating \/ ~Moving(after))
         /\ Becomes(IF Moving(after) THEN w ELSE SUB_UseTargets(w, d))
    /\ UNCHANGED button /\ Recall(Partners(d) \cup ({d} \ Stay), {})

-----------------------------------------------------------------------------
(* Buttons. These operators give the button r and the world w.             *)

\* Mutant: the target is used before the lock is tested.
TriggerAndWaitFirst(b, r, w) ==
    IF ~Unlocked(w.on, b)
    THEN [r |-> [r EXCEPT !.think = "none"], w |-> SUB_UseTargets(w, b)]
    ELSE [r |-> [state |-> "AT_TOP",
                 think |-> IF b \in Stay \cup ToggleButton THEN "none" ELSE "Return",
                 touch |-> IF b \in Stay \cup ToggleButton THEN b \in TouchOnly ELSE r.touch],
          w |-> SUB_UseTargets(w, b)]

\* The button is in. If it was locked on its way it stays as it is.
TriggerAndWait(b, r, w) ==
    IF ~Unlocked(w.on, b)
    THEN [r |-> [r EXCEPT !.think = "none"], w |-> w]
    ELSE [r |-> [state |-> "AT_TOP",
                 think |-> IF b \in Stay \cup ToggleButton THEN "none" ELSE "Return",
                 touch |-> IF b \in Stay \cup ToggleButton THEN b \in TouchOnly ELSE r.touch],
          w |-> SUB_UseTargets(w, b)]

\* A toggle button fires; a multisource is used in any case.
ButtonBackHome(b, r, w) ==
    LET fired == IF b \in ToggleButton THEN SUB_UseTargets(w, b) ELSE w IN
    [r |-> [state |-> "AT_BOTTOM", think |-> "none", touch |-> b \in TouchOnly],
     w |-> IF target[b] \in Source THEN FireTargets(fired, target[b], b) ELSE fired]

ButtonActivate(b, r, w) ==
    CASE ~Unlocked(w.on, b) -> [r |-> r, w |-> w]
      [] Unlocked(w.on, b) /\ b \in Fixed -> TriggerAndWait(b, [r EXCEPT !.state = "GOING_UP"], w)
      [] OTHER -> [r |-> [r EXCEPT !.state = "GOING_UP", !.think = "MoveDone"], w |-> w]

ButtonReturn(b, r, w) ==
    IF b \in Fixed THEN ButtonBackHome(b, r, w)
    ELSE [r |-> [r EXCEPT !.state = "GOING_DOWN", !.think = "MoveDone"], w |-> w]

Step(b, after) ==
    /\ button' = [button EXCEPT ![b] = after.r]
    /\ Becomes(after.w) /\ Recall({}, {})

\* A button that is in answers only if it is a toggle.
PushedToggle(b) == button[b].state = "AT_TOP" /\ b \in ToggleButton \ Stay
Answers(b) == PushedToggle(b) \/ button[b].state = "AT_BOTTOM"

Answer(b, r, w) == IF PushedToggle(b) THEN ButtonReturn(b, r, w) ELSE ButtonActivate(b, r, w)

ButtonUse(b) ==
    /\ b \notin TouchOnly /\ Answers(b) /\ Room(b)
    /\ Step(b, Answer(b, button[b], World))

Untouchable(b) == [button[b] EXCEPT !.touch = FALSE]

\* A toggle that is touched fires before it returns.
ButtonTouch(b) ==
    /\ button[b].touch /\ Answers(b) /\ Unlocked(m_rgTriggered, b) /\ Room(b)
    /\ Step(b, Answer(b, Untouchable(b),
                      IF PushedToggle(b) THEN SUB_UseTargets(World, b) ELSE World))

\* The touch function goes before the lock is tested, and before the attacker.
TakeDamage(b) ==
    /\ b \in Shootable /\ Answers(b) /\ Room(b)
    /\ \/ Step(b, Answer(b, Untouchable(b), World))
       \/ Step(b, [r |-> Untouchable(b), w |-> World])

ButtonArrives(b) ==
    /\ button[b].think = "MoveDone" /\ Room(b)
    /\ Step(b, IF button[b].state = "GOING_UP" THEN TriggerAndWait(b, button[b], World)
               ELSE ButtonBackHome(b, button[b], World))

ButtonComesOut(b) ==
    /\ button[b].think = "Return" /\ Room(b)
    /\ Step(b, ButtonReturn(b, button[b], World))

Next ==
    \/ \E b \in Button : \/ ButtonUse(b) \/ ButtonTouch(b) \/ TakeDamage(b)
                          \/ ButtonArrives(b) \/ ButtonComesOut(b)
    \/ \E d \in Door : \/ DoorTouch(d) \/ PlayerUse(d) \/ OpenDoorAndWait(d)
                        \/ DoorArrives(d) \/ DoorCloses(d) \/ Blocked(d)
    \/ \E n \in Source \cup Name : DelayThink(n)

Spec == Init /\ [][Next]_vars

\* From some time on nothing is in a door's way.
WaysClear == <>[][\A d \in Door : ~Blocked(d)]_vars

\* The engine runs the thinks, and a move ends unless something is in the way
\* again and again: these are the behaviours in which nothing is for ever.
FairSpec ==
    /\ Spec /\ WaysClear
    /\ \A d \in Door : WF_vars(DoorArrives(d)) /\ WF_vars(DoorCloses(d))

-----------------------------------------------------------------------------
(* Properties.                                                             *)

\* Ranges. A door that moves is going to arrive, one at rest is where its
\* state says, and an open door that is to close by itself has a think for it,
\* however it was touched, used and blocked before. A closed door can be
\* touched.
MechanismTypeOK ==
    /\ button \in [Button -> ButtonRecord]
    /\ door \in [Door -> DoorRecord]
    /\ \A d \in Door :
         LET r == door[d] IN
         /\ Moving(r) <=> r.think = "MoveDone"
         /\ r.state = "AT_BOTTOM" => r.at = "bottom" /\ r.think = "none" /\ (r.touch <=> d \notin UseOnly)
         /\ r.state = "AT_TOP" => r.at = "top" /\ (r.think = "Return" <=> d \notin NoAutoReturn \cup Stay)
    /\ m_rgTriggered \in [Source -> SUBSET (Button \cup Door)]
    /\ \A s \in Source : m_rgTriggered[s] \subseteq Inputs(s)
    /\ delayed \in [Source \cup Name -> Nat]
    /\ kept \in [Door -> {"free", "shut", "turned", "turned twice"}]
    /\ stray \in [Source -> BOOLEAN]

\* A delayed use has been taken for one of b's and left b's input wrong.
Astray(b) == b = LastInput[target[b]] /\ stray[target[b]]

\* A multisource has the input of a button that is no toggle on as long as the
\* button is in, until it is home, whatever locks the button on its way: the
\* use at the top and the one at home never get out of step. Only delayed uses,
\* whose caller is not found, set it the wrong way round, and one more of them
\* sets it right.
InputFollowsButton ==
    \A b \in Button \ (ToggleButton \cup Delayed) :
        target[b] \in Source =>
            (b \in m_rgTriggered[target[b]] <=>
                (button[b].state \in {"AT_TOP", "GOING_DOWN"} <=> ~Astray(b)))

\* A door that is locked ever since it was closed is still closed, unless a
\* block of a partner, which never asks the master, has turned it; then it is
\* on its way back, and it opens only if a second block turns it before it is
\* closed again. (A toggle button uses its multisource more than once in a
\* step, and may unlock it in between.)
LockHolds ==
    \A d \in Door :
        m_sMaster[d] \notin {target[b] : b \in ToggleButton} =>
            /\ kept[d] = "shut" => door[d].state = "AT_BOTTOM"
            /\ kept[d] = "turned" => door[d].state = "GOING_DOWN"

\* A door that closes by itself is closed again, once nothing is in its way:
\* whatever turned it round or used it on its way.
DoorsClose ==
    \A d \in Door \ (NoAutoReturn \cup Stay) : []<>(door[d].state = "AT_BOTTOM")

=============================================================================
