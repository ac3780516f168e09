-------------------------- MODULE ScriptedSequences --------------------------
(***************************************************************************)
(* Scripted sequences (CCineMonster and CCineAI, scripted.cpp): an entity  *)
(* of the map takes a monster over, walks it to a mark and has it play an  *)
(* animation. Sequences with the same name "act in concert": they count in *)
(* m_iDelay how many of their monsters still walk, and play together.      *)
(*                                                                         *)
(* A script's think, a monster's think, a trigger and a shot are steps of  *)
(* their own. Left out: where the marks are and the clock (a script that   *)
(* starts in 0.05 seconds may start at once), barnacles, and maps that     *)
(* remove a script while it has a monster.                                 *)
(***************************************************************************)
EXTENDS Integers, FiniteSets

CONSTANTS
    Monster,
    Unkillable,    \* monsters whose health does not run out
    Script,
    AIScripts,     \* the aiscripted_sequences
    Overrides,     \* those with SF_SCRIPT_OVERRIDESTATE
    Walks,         \* those with m_fMoveTo 1 or 2
    Teleports,     \* those with m_fMoveTo 4
    Idles,         \* those with an m_iszIdle
    Repeatable,    \* those with SF_SCRIPT_REPEATABLE
    targetname,    \* each script's name, Null if it has none
    MaxDelay,      \* bound: of m_iDelay
    MaxEarly,      \* bound: of early
    Null

Names == {targetname[s] : s \in Script} \ {Null}

\* Monsters are told from scripts, and there are finitely many.
ASSUME ScriptAssumption ==
    /\ IsFiniteSet(Monster) /\ Null \notin Monster \cup Script
    /\ AIScripts \subseteq Script /\ Unkillable \subseteq Monster

VARIABLES
    script,     \* the scripts
    monster,    \* the monsters
    disturbed,  \* history: a monster has lost its script before the end
    early       \* history: of each name, how often DelayStart(false) was
                \* called for a monster that DelayStart(true) did not count

scriptVars == <<script, monster, disturbed, early>>

\* m_pCine, m_MonsterState and m_IdealMonsterState, the task of the schedule,
\* pev->deadflag, whether health has run out, and bits_MEMORY_KILLED.
MonsterRecord ==
    [cine : Script \cup {Null},
     state : {"idle", "combat", "script", "dead", "removed"},
     ideal : {"idle", "combat", "script", "dead"},
     task : {"none", "walk", "wait", "play", "die"},
     deadflag : {"no", "dying", "dead"},
     out : BOOLEAN, killed : BOOLEAN]

\* m_hTargetEnt, the think, m_iDelay and whether m_startTime was reached.
ScriptRecord ==
    [target : Monster \cup {Null},
     think : {"none", "CineThink", "SUB_Remove", "removed"},
     m_iDelay : Int, started : BOOLEAN]

ScriptInit ==
    /\ script = [s \in Script |->
         [target |-> Null,
          think |-> IF targetname[s] = Null \/ s \in Idles THEN "CineThink" ELSE "none",
          m_iDelay |-> 0,
          started |-> s \notin Idles \/ targetname[s] = Null]]
    /\ monster \in [Monster ->
         {[cine |-> Null, state |-> mood, ideal |-> mood, task |-> "none",
           deadflag |-> "no", out |-> FALSE, killed |-> FALSE] : mood \in {"idle", "combat"}}]
    /\ disturbed = FALSE
    /\ early = [n \in Names |-> 0]

-----------------------------------------------------------------------------
(* Scripts and monsters.                                                   *)

\* The scripted_sequences that UTIL_FindEntitiesByTargetname finds for s.
Concert(s) ==
    {x \in Script \ AIScripts :
        targetname[x] = targetname[s] /\ targetname[x] # Null /\ script[x].think # "removed"}

InScript(m) == monster[m].state = "script" /\ monster[m].ideal = "script"

\* A script whose PossessEntity counts its monster.
Counts(s) == s \in Walks \ AIScripts

\* Possessed and counted, and TASK_ENABLE_SCRIPT is still to come.
Walker(m) ==
    /\ monster[m].ideal = "script" /\ monster[m].cine \in Script
    /\ Counts(monster[m].cine)
    /\ monster[m].task \notin {"wait", "play"}

FirstTask(s) == IF s \in Walks THEN "walk" ELSE "wait"

\* Mutant: a monster that leaves the script state keeps the schedule.
ScheduledOnly(r) ==
    [r EXCEPT !.state = r.ideal,
              !.task = IF r.ideal = "script" THEN FirstTask(r.cine) ELSE @,
              !.deadflag = IF r.ideal = "dead" THEN "dying" ELSE @]

\* SetState and the choice of a schedule: SCHED_AISCRIPT, SCHED_DIE or another.
Scheduled(r) ==
    [r EXCEPT !.state = r.ideal,
              !.task = CASE r.ideal = "script" -> FirstTask(r.cine)
                         [] r.ideal = "dead" -> "die"
                         [] OTHER -> "none",
              !.deadflag = IF r.ideal = "dead" THEN "dying" ELSE @]

\* Mutant: the monster's ideal state is left.
CineCleanupOnly(r) == [r EXCEPT !.cine = Null]

\* CBaseMonster::CineCleanup, for the monster.
CineCleanup(r) ==
    IF r.deadflag = "dying"
    THEN [r EXCEPT !.cine = Null, !.state = "dead", !.ideal = "dead",
                   !.task = "none", !.deadflag = "dead"]
    ELSE [r EXCEPT !.cine = Null, !.ideal = IF r.out THEN "dead" ELSE "idle"]

\* CancelScript: the monsters of the concert that are in the script state.
\* ScriptEntityCancel passes over aiscripted_sequences.
Cancelled(s) ==
    {m \in Monster :
        /\ monster[m].state = "script"
        /\ \E x \in Concert(s) \cup ({s} \ AIScripts) : script[x].target = m}

\* Mutant: the monster forgets the script, the script not the monster.
DropLinksOfMonster(scripts, C) == scripts

\* CineCleanup, for the scripts of the monsters in C.
DropLinks(scripts, C) ==
    [x \in Script |-> IF \E m \in C : monster[m].cine = x
                      THEN [scripts[x] EXCEPT !.target = Null]
                      ELSE scripts[x]]

Cleaned(C) ==
    [m \in Monster |-> IF m \in C THEN CineCleanup(monster[m]) ELSE monster[m]]

\* Use, for every script named n: one that has a monster may start.
Used(scripts, n) ==
    [x \in Script |->
        CASE targetname[x] # n \/ scripts[x].think = "removed" -> scripts[x]
          [] targetname[x] = n /\ scripts[x].think # "removed" /\ scripts[x].target = Null ->
               [scripts[x] EXCEPT !.think = "CineThink"]
          [] OTHER ->
               [scripts[x] EXCEPT !.started = @ \/ monster[scripts[x].target].task # "play"]]

-----------------------------------------------------------------------------
(* The scripts' thinks.                                                    *)

\* Mutant: "regardless of state" includes a script's.
CanPlaySequenceAnyState(m, s) ==
    LET r == monster[m] IN
    /\ r.state # "removed" /\ r.deadflag # "dead"
    /\ \/ s \in AIScripts \cup Overrides
       \/ r.cine = Null /\ "idle" \in {r.state, r.ideal}

CanPlaySequence(m, s) ==
    LET r == monster[m] IN
    /\ r.state # "removed" /\ r.deadflag # "dead" /\ r.cine = Null
    /\ s \in AIScripts \cup Overrides \/ "idle" \in {r.state, r.ideal}

\* DelayStart(true) for a walk. A scripted_sequence does not touch the schedule
\* of a monster that still is in the script state; a CCineAI starts it anew.
PossessEntity(s, m) ==
    LET waits == IF Counts(s) THEN Concert(s) ELSE {}
        r == [monster[m] EXCEPT !.cine = s, !.ideal = "script"] IN
    /\ \A x \in waits : script[x].m_iDelay < MaxDelay
    /\ script' = [x \in Script |->
         [script[x] EXCEPT
            !.target = IF x = s THEN m ELSE @,
            !.think = IF x = s THEN "none" ELSE @,
            !.started = @ /\ ~(x = s /\ s \in Teleports),
            !.m_iDelay = IF x \in waits THEN @ + 1 ELSE @]]
    /\ monster' = [monster EXCEPT ![m] =
         IF s \in AIScripts /\ r.state = "script" THEN Scheduled(r) ELSE r]
    /\ UNCHANGED <<disturbed, early>>

CineThink(s) ==
    /\ script[s].think = "CineThink"
    /\ \E m \in Monster : CanPlaySequence(m, s) /\ PossessEntity(s, m)

\* No monster: the concert is cancelled, and the search repeated in a second.
FindsNobody(s) ==
    /\ script[s].think = "CineThink"
    /\ \A m \in Monster : ~CanPlaySequence(m, s)
    /\ script' = DropLinks(script, Cancelled(s))
    /\ monster' = Cleaned(Cancelled(s))
    /\ disturbed' = (disturbed \/ Cancelled(s) # {})
    /\ UNCHANGED early

RemoveScript(s) ==
    /\ script[s].think = "SUB_Remove"
    /\ script' = [script EXCEPT ![s].think = "removed"]
    /\ UNCHANGED <<monster, disturbed, early>>

Trigger(n) ==
    /\ script' = Used(script, n)
    /\ UNCHANGED <<monster, disturbed, early>>

-----------------------------------------------------------------------------
(* The monsters' thinks.                                                   *)

\* MaintainSchedule, when the state is to change or there is no schedule.
ChangeState(m) ==
    /\ monster[m].state # "removed" /\ monster[m].deadflag # "dead"
    /\ \/ monster[m].state # monster[m].ideal
       \/ InScript(m) /\ monster[m].task = "none"
    /\ monster' = [monster EXCEPT ![m] = Scheduled(@)]
    /\ UNCHANGED <<script, disturbed, early>>

\* Mutant: only the monster's own script is told.
ReachMarkAlone(m) ==
    LET s == monster[m].cine
        heard == {s} IN
    /\ InScript(m) /\ monster[m].task = "walk"
    /\ script' = [x \in Script |-> IF x \notin heard THEN script[x]
         ELSE [script[x] EXCEPT !.m_iDelay = @ - 1, !.started = @ \/ script[x].m_iDelay <= 1]]
    /\ monster' = [monster EXCEPT ![m].task = "wait"]
    /\ early' = [n \in Names |-> IF n = targetname[s] /\ ~Counts(s) THEN early[n] + 1 ELSE early[n]]
    /\ \A n \in Names : early'[n] <= MaxEarly
    /\ UNCHANGED disturbed

\* The walk ends: TASK_ENABLE_SCRIPT calls DelayStart(false), also for a
\* CCineAI, and for a script that found its monster on the way for another.
ReachMark(m) ==
    LET s == monster[m].cine
        heard == Concert(s) IN
    /\ InScript(m) /\ monster[m].task = "walk"
    /\ script' = [x \in Script |-> IF x \notin heard THEN script[x]
         ELSE [script[x] EXCEPT !.m_iDelay = @ - 1, !.started = @ \/ script[x].m_iDelay <= 1]]
    /\ monster' = [monster EXCEPT ![m].task = "wait"]
    /\ early' = [n \in Names |-> IF n = targetname[s] /\ ~Counts(s) THEN early[n] + 1 ELSE early[n]]
    /\ \A n \in Names : early'[n] <= MaxEarly
    /\ UNCHANGED disturbed

Ready(m) ==
    /\ InScript(m) /\ monster[m].task = "wait"
    /\ script[monster[m].cine].m_iDelay <= 0
    /\ script[monster[m].cine].started

\* TASK_WAIT_FOR_SCRIPT is over.
StartSequence(m) ==
    /\ Ready(m)
    /\ monster' = [monster EXCEPT ![m].task = "play"]
    /\ UNCHANGED <<script, disturbed, early>>

\* The animation is over, or there is none. Only now the script's target is
\* used: it may be another script for this monster, or this script itself.
SequenceDone(m) ==
    LET s == monster[m].cine IN
    /\ InScript(m) /\ (monster[m].task = "play" \/ Ready(m))
    /\ monster' = [monster EXCEPT ![m] = [CineCleanup(@) EXCEPT !.task = "none"]]
    /\ LET done == IF s \in Repeatable THEN script
                   ELSE [script EXCEPT ![s].think = "SUB_Remove"] IN
       \E n \in Names \cup {Null} : script' = Used(DropLinks(done, {m}), n)
    /\ UNCHANGED <<disturbed, early>>

\* Damage or a task that fails: ExitScriptedSequence. A CCineAI is not
\* cancelled and starts anew; a dying monster dies with its script.
Interrupt(m) ==
    /\ InScript(m)
    /\ LET C == IF monster[m].deadflag = "dying" THEN {} ELSE Cancelled(monster[m].cine)
           after == IF monster[m].deadflag = "dying"
                    THEN [monster EXCEPT ![m].ideal = "dead"] ELSE Cleaned(C) IN
       /\ script' = DropLinks(script, C)
       /\ monster' = [after EXCEPT ![m] = Scheduled(@)]
    /\ disturbed' = TRUE
    /\ UNCHANGED early

\* TASK_DIE ends.
Die(m) ==
    /\ monster[m].state = "dead" /\ monster[m].ideal = "dead" /\ monster[m].task = "die"
    /\ monster' = [monster EXCEPT ![m].task = "none", ![m].deadflag = "dead"]
    /\ UNCHANGED <<script, disturbed, early>>

\* A walk ends or fails, and the rest of a monster's think runs.
WalkEnds(m) == ReachMark(m) \/ (monster[m].task = "walk" /\ Interrupt(m))

Acts(m) == ChangeState(m) \/ StartSequence(m) \/ SequenceDone(m) \/ Die(m)

-----------------------------------------------------------------------------
(* What happens to monsters.                                               *)

\* GetIdealState: an enemy comes or goes.
ChangeMood(m) ==
    /\ monster[m].state = monster[m].ideal /\ monster[m].state \in {"idle", "combat"}
    /\ \E mood \in {"idle", "combat"} :
         monster' = [monster EXCEPT ![m].state = mood, ![m].ideal = mood]
    /\ UNCHANGED <<script, disturbed, early>>

\* TakeDamage does not kill a monster in the script state.
Hurt(m) ==
    /\ monster[m].state = "script" /\ monster[m].deadflag = "no" /\ m \notin Unkillable
    /\ monster' = [monster EXCEPT ![m].out = TRUE]
    /\ UNCHANGED <<script, disturbed, early>>

\* SCRIPT_EVENT_DEAD and SCRIPT_EVENT_NOT_DEAD of the animation.
DeathEvent(m) ==
    /\ InScript(m) /\ monster[m].task = "play"
    /\ \E dead \in BOOLEAN :
         monster' = [monster EXCEPT ![m].out = dead,
                                    ![m].deadflag = IF dead THEN "dying" ELSE "no"]
    /\ UNCHANGED <<script, disturbed, early>>

\* CBaseMonster::Killed: BecomeDead gives the corpse some health.
Killed(m) ==
    /\ monster[m].state \notin {"script", "removed"}
    /\ monster[m].deadflag # "dead" /\ ~monster[m].killed /\ m \notin Unkillable
    /\ monster' = [monster EXCEPT ![m].killed = TRUE, ![m].ideal = "dead", ![m].out = FALSE]
    /\ disturbed' = (disturbed \/ monster[m].cine # Null)
    /\ UNCHANGED <<script, early>>

\* A monster that is gibbed, fades out or is removed by the map.
UpdateOnRemove(m) ==
    /\ monster[m].state # "removed"
    /\ monster' = [monster EXCEPT ![m] =
         [cine |-> Null, state |-> "removed", ideal |-> "dead", task |-> "none",
          deadflag |-> "dead", out |-> FALSE, killed |-> TRUE]]
    /\ script' = [x \in Script |->
         [script[x] EXCEPT !.target = IF @ = m THEN Null ELSE @]]
    /\ disturbed' = (disturbed \/ monster[m].cine # Null)
    /\ UNCHANGED early

\* FollowerUse and StartFollowing of a monster that a script has, in combat
\* or not: the script is cancelled if the monster is in the script state.
StartFollowing(m) ==
    /\ monster[m].state # "removed" /\ monster[m].deadflag = "no" /\ monster[m].cine # Null
    /\ LET C == Cancelled(monster[m].cine) IN
       /\ script' = DropLinks(script, C)
       /\ \E enemy \in BOOLEAN :
            monster' = [Cleaned(C) EXCEPT ![m].task = "none",
                                          ![m].ideal = IF enemy THEN "combat" ELSE @]
    /\ disturbed' = TRUE
    /\ UNCHANGED early

ScriptNext ==
    \/ \E s \in Script : CineThink(s) \/ FindsNobody(s) \/ RemoveScript(s)
    \/ \E n \in Names : Trigger(n)
    \/ \E m \in Monster :
         \/ ReachMark(m) \/ Interrupt(m) \/ Acts(m)
         \/ ChangeMood(m) \/ Hurt(m) \/ DeathEvent(m) \/ Killed(m)
         \/ UpdateOnRemove(m) \/ StartFollowing(m)

ScriptSpec == ScriptInit /\ [][ScriptNext]_scriptVars

\* The engine runs every monster's think, and animations end. A monster that
\* waits looks every 0.1 seconds, more often than others of its concert can
\* play and be taken again.
ScriptFairSpec ==
    /\ ScriptSpec
    /\ \A m \in Monster : /\ WF_scriptVars(WalkEnds(m)) /\ WF_scriptVars(Acts(m))
                           /\ SF_scriptVars(StartSequence(m))

-----------------------------------------------------------------------------
(* Properties.                                                             *)

ScriptTypeOK ==
    /\ script \in [Script -> ScriptRecord]
    /\ monster \in [Monster -> MonsterRecord]
    /\ \A m \in Monster : monster[m].task \in {"walk", "wait", "play"} => monster[m].state = "script"
    /\ disturbed \in BOOLEAN /\ early \in [Names -> Nat]

\* A monster that has a script is the one the script has, and the script still
\* exists: m_pCine is a plain pointer that the monster's thinks follow.
LinksAgree ==
    \A m \in Monster, s \in Script :
        /\ monster[m].cine = s <=> script[s].target = m
        /\ monster[m].cine = s => script[s].think \notin {"SUB_Remove", "removed"}

\* The ASSERTs of GetSchedule and GetScheduleOfType: a monster that is to be in
\* the script state has a script.
ScriptStateHasCine ==
    \A m \in Monster :
        monster[m].ideal = "script" => monster[m].cine # Null

\* Nobody starts to play while another monster of the concert walks: whatever
\* happens to monsters and scripts, m_iDelay is at least the number of the
\* concert's monsters that walk, but for the calls of DelayStart(false) without
\* one of DelayStart(true). It is exact until a monster loses its script.
DelayCountsWalkers ==
    \A s \in Script \ AIScripts :
        LET walkers == {m \in Monster : Walker(m) /\ s \in Concert(monster[m].cine)}
            delay == IF targetname[s] = Null THEN script[s].m_iDelay
                     ELSE script[s].m_iDelay + early[targetname[s]] IN
        script[s].think # "removed" =>
            /\ delay >= Cardinality(walkers)
            /\ ~disturbed => delay = Cardinality(walkers)

\* As long as no monster has lost its script, one that waits and whose script
\* has been started gets to play.
ConcertPlays ==
    []~disturbed =>
        \A m \in Monster :
            InScript(m) /\ monster[m].task = "wait" /\ script[monster[m].cine].started
                ~> monster[m].task # "wait"

=============================================================================
