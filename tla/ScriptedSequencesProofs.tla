----------------------- MODULE ScriptedSequencesProofs -----------------------
(***************************************************************************)
(* Proofs about ScriptedSequences, for any monsters, scripts and names.    *)
(* LinksAgree is not inductive: a script may only take a monster over if   *)
(* it has none, which is because a script that has a monster does not      *)
(* think (ScriptsRest). DelayCountsWalkers has two parts. That m_iDelay is *)
(* never too small is inductive once ScriptInv is known: a monster only    *)
(* becomes a walker in PossessEntity. That it is exact until a monster     *)
(* loses its script also needs that only a monster with a script has a     *)
(* task of one (WalkFits).                                                 *)
(***************************************************************************)
EXTENDS ScriptedSequences, FiniteSetTheorems, TLAPS

\* CineThink is not due while the script has a monster.
ScriptsRest ==
    \A s \in Script : script[s].target # Null => script[s].think = "none"

\* ScriptTypeOK without the history of early arrivals, which no step but
\* ReachMark touches.
RecordsOK ==
    /\ script \in [Script -> ScriptRecord]
    /\ monster \in [Monster -> MonsterRecord]
    /\ \A m \in Monster : monster[m].task \in {"walk", "wait", "play"} => monster[m].state = "script"
    /\ disturbed \in BOOLEAN

ScriptInv ==
    /\ RecordsOK
    /\ LinksAgree
    /\ ScriptStateHasCine
    /\ ScriptsRest

TaskFits(r) == r.task \in {"walk", "wait", "play"} => r.state = "script"

-----------------------------------------------------------------------------
(* The helpers.                                                            *)

\* A new schedule fits the new state; the script and the ideal state are kept.
LEMMA ScheduledFits ==
    ASSUME NEW r \in MonsterRecord
    PROVE  /\ Scheduled(r) \in MonsterRecord /\ TaskFits(Scheduled(r))
           /\ Scheduled(r).cine = r.cine /\ Scheduled(r).ideal = r.ideal
<1>1. FirstTask(r.cine) \in {"walk", "wait"}
  BY DEF FirstTask
<1>2. CASE r.ideal = "script"
  BY <1>1, <1>2 DEF Scheduled, MonsterRecord, TaskFits
<1>3. CASE r.ideal = "dead"
  BY <1>3 DEF Scheduled, MonsterRecord, TaskFits
<1>4. CASE r.ideal \notin {"script", "dead"}
  BY <1>4 DEF Scheduled, MonsterRecord, TaskFits
<1> QED
  BY <1>2, <1>3, <1>4

\* The cleanup takes the script from the monster and leaves it no ideal of one.
LEMMA CineCleanupFits ==
    ASSUME NEW r \in MonsterRecord, TaskFits(r)
    PROVE  /\ CineCleanup(r) \in MonsterRecord /\ TaskFits(CineCleanup(r))
           /\ CineCleanup(r).cine = Null /\ CineCleanup(r).ideal # "script"
  BY DEF CineCleanup, MonsterRecord, TaskFits

\* The cleanup of the monsters in C takes their scripts' monsters away.
LEMMA DropLinksFits ==
    ASSUME NEW scripts \in [Script -> ScriptRecord], NEW C
    PROVE  /\ DropLinks(scripts, C) \in [Script -> ScriptRecord]
           /\ \A x \in Script :
                /\ DropLinks(scripts, C)[x].target =
                       IF \E m \in C : monster[m].cine = x THEN Null ELSE scripts[x].target
                /\ DropLinks(scripts, C)[x].think = scripts[x].think
  BY DEF DropLinks, ScriptRecord

\* A use starts the search of a script that has no monster, and of no other.
LEMMA UsedFits ==
    ASSUME NEW scripts \in [Script -> ScriptRecord], NEW n,
           \A x \in Script : scripts[x].target # Null => scripts[x].target \in Monster
    PROVE  /\ Used(scripts, n) \in [Script -> ScriptRecord]
           /\ \A x \in Script :
                /\ Used(scripts, n)[x].target = scripts[x].target
                /\ scripts[x].target # Null => Used(scripts, n)[x].think = scripts[x].think
<1> SUFFICES ASSUME NEW x \in Script
             PROVE  /\ Used(scripts, n)[x] \in ScriptRecord
                    /\ Used(scripts, n)[x].target = scripts[x].target
                    /\ scripts[x].target # Null => Used(scripts, n)[x].think = scripts[x].think
  BY DEF Used
<1>1. CASE targetname[x] # n \/ scripts[x].think = "removed"
  <2>1. Used(scripts, n)[x] = scripts[x]
    BY <1>1 DEF Used
  <2> QED
    BY <2>1
<1>2. CASE targetname[x] = n /\ scripts[x].think # "removed" /\ scripts[x].target = Null
  <2>1. Used(scripts, n)[x] = [scripts[x] EXCEPT !.think = "CineThink"]
    BY <1>2 DEF Used
  <2> QED
    BY <1>2, <2>1 DEF ScriptRecord
<1>3. CASE targetname[x] = n /\ scripts[x].think # "removed" /\ scripts[x].target # Null
  <2>1. Used(scripts, n)[x] =
          [scripts[x] EXCEPT !.started = @ \/ monster[scripts[x].target].task # "play"]
    BY <1>3 DEF Used
  <2> QED
    BY <1>3, <2>1 DEF ScriptRecord
<1> QED
  BY <1>1, <1>2, <1>3

\* What a step has to show when the monsters in C lose their scripts and
\* nobody gets one.
LEMMA LinksAfter ==
    ASSUME ScriptInv, NEW C \in SUBSET Monster,
           \A m \in Monster : monster'[m].cine = IF m \in C THEN Null ELSE monster[m].cine,
           \A x \in Script : script'[x].target =
               IF \E m \in C : monster[m].cine = x THEN Null ELSE script[x].target,
           ScriptsRest'
    PROVE  LinksAgree'
<1>1. Null \notin Monster /\ Null \notin Script
  BY ScriptAssumption
<1> SUFFICES ASSUME NEW m \in Monster, NEW s \in Script
             PROVE  /\ monster'[m].cine = s <=> script'[s].target = m
                    /\ monster'[m].cine = s => script'[s].think \notin {"SUB_Remove", "removed"}
  BY DEF LinksAgree
<1>2. \A k \in Monster : monster[k].cine = s <=> script[s].target = k
  BY DEF ScriptInv, LinksAgree
<1>3. monster'[m].cine = s <=> script'[s].target = m
  BY <1>1, <1>2
<1> QED
  BY <1>1, <1>3 DEF ScriptsRest

\* The same, when nobody loses a script.
LEMMA LinksKept ==
    ASSUME ScriptInv,
           \A m \in Monster : monster'[m].cine = monster[m].cine,
           \A x \in Script : script'[x].target = script[x].target,
           ScriptsRest'
    PROVE  LinksAgree'
<1> SUFFICES ASSUME NEW m \in Monster, NEW s \in Script
             PROVE  /\ monster'[m].cine = s <=> script'[s].target = m
                    /\ monster'[m].cine = s => script'[s].think \notin {"SUB_Remove", "removed"}
  BY DEF LinksAgree
<1>1. monster'[m].cine = s <=> script'[s].target = m
  BY DEF ScriptInv, LinksAgree
<1>2. m # Null
  BY ScriptAssumption
<1> QED
  BY <1>1, <1>2 DEF ScriptsRest

\* What the cleanup of the monsters in C leaves, of the state before it.
LEMMA CleanedFits ==
    ASSUME ScriptInv, NEW C \in SUBSET Monster
    PROVE  /\ Cleaned(C) \in [Monster -> MonsterRecord]
           /\ \A m \in Monster :
                /\ TaskFits(Cleaned(C)[m])
                /\ Cleaned(C)[m].cine = IF m \in C THEN Null ELSE monster[m].cine
                /\ Cleaned(C)[m].ideal = "script" =>
                       m \notin C /\ monster[m].ideal = "script"
<1>1. \A m \in Monster : monster[m] \in MonsterRecord /\ TaskFits(monster[m])
  BY DEF ScriptInv, RecordsOK, TaskFits
<1> SUFFICES ASSUME NEW m \in Monster
             PROVE  /\ Cleaned(C)[m] \in MonsterRecord
                    /\ TaskFits(Cleaned(C)[m])
                    /\ Cleaned(C)[m].cine = IF m \in C THEN Null ELSE monster[m].cine
                    /\ Cleaned(C)[m].ideal = "script" =>
                           m \notin C /\ monster[m].ideal = "script"
  BY DEF Cleaned
<1>2. Cleaned(C)[m] = IF m \in C THEN CineCleanup(monster[m]) ELSE monster[m]
  BY DEF Cleaned
<1> QED
  BY <1>1, <1>2, CineCleanupFits

\* The invariant of a state is put together from that of its records.
LEMMA TypeFromRecords ==
    ASSUME script' \in [Script -> ScriptRecord], monster' \in [Monster -> MonsterRecord],
           \A m \in Monster : TaskFits(monster'[m]), disturbed' \in BOOLEAN
    PROVE  RecordsOK'
  BY DEF RecordsOK, TaskFits

\* A step that changes one monster, not its script, and no script.
LEMMA OneMonster ==
    ASSUME ScriptInv, NEW m \in Monster, NEW r \in MonsterRecord,
           monster' = [monster EXCEPT ![m] = r], UNCHANGED script, disturbed' \in BOOLEAN,
           TaskFits(r), r.cine = monster[m].cine,
           r.ideal = "script" => monster[m].ideal = "script"
    PROVE  ScriptInv'
<1>1. /\ monster \in [Monster -> MonsterRecord] /\ script \in [Script -> ScriptRecord]
      /\ \A k \in Monster : TaskFits(monster[k])
  BY DEF ScriptInv, RecordsOK, TaskFits
<1>2. \A k \in Monster : monster'[k] = IF k = m THEN r ELSE monster[k]
  BY <1>1
<1>3. RecordsOK'
  BY <1>1, <1>2, TypeFromRecords
<1>4. ScriptsRest'
  BY DEF ScriptInv, ScriptsRest
<1>5. LinksAgree'
  BY <1>2, <1>4, LinksKept
<1>6. ScriptStateHasCine'
  BY <1>2 DEF ScriptInv, ScriptStateHasCine
<1> QED
  BY <1>3, <1>4, <1>5, <1>6 DEF ScriptInv

\* A step that changes scripts, but no monster and no script's monster.
LEMMA OnlyScripts ==
    ASSUME ScriptInv, script' \in [Script -> ScriptRecord],
           \A x \in Script : script'[x].target = script[x].target,
           ScriptsRest', UNCHANGED <<monster, disturbed>>
    PROVE  ScriptInv'
<1>1. RecordsOK'
  BY DEF ScriptInv, RecordsOK
<1>2. LinksAgree'
  BY LinksKept
<1>3. ScriptStateHasCine'
  BY DEF ScriptInv, ScriptStateHasCine
<1> QED
  BY <1>1, <1>2, <1>3 DEF ScriptInv

\* A step that takes the scripts of the monsters in C.
LEMMA ScriptsLost ==
    ASSUME ScriptInv, NEW C \in SUBSET Monster,
           script' \in [Script -> ScriptRecord], monster' \in [Monster -> MonsterRecord],
           \A m \in Monster : TaskFits(monster'[m]), disturbed' \in BOOLEAN,
           \A m \in Monster : monster'[m].cine = IF m \in C THEN Null ELSE monster[m].cine,
           \A m \in Monster : monster'[m].ideal = "script" =>
               m \notin C /\ monster[m].ideal = "script",
           \A x \in Script : script'[x].target =
               IF \E m \in C : monster[m].cine = x THEN Null ELSE script[x].target,
           \A x \in Script : script'[x].target # Null => script'[x].think = "none"
    PROVE  ScriptInv'
<1>1. RecordsOK'
  BY TypeFromRecords
<1>2. ScriptsRest'
  BY DEF ScriptsRest
<1>3. LinksAgree'
  BY <1>2, LinksAfter
<1>4. ScriptStateHasCine'
  BY DEF ScriptInv, ScriptStateHasCine
<1> QED
  BY <1>1, <1>2, <1>3, <1>4 DEF ScriptInv

\* The scripts after the cleanup of C, and nothing else.
LEMMA LinksDropped ==
    ASSUME ScriptInv, NEW C \in SUBSET Monster
    PROVE  /\ DropLinks(script, C) \in [Script -> ScriptRecord]
           /\ \A x \in Script :
                /\ DropLinks(script, C)[x].target =
                       IF \E m \in C : monster[m].cine = x THEN Null ELSE script[x].target
                /\ DropLinks(script, C)[x].target # Null => DropLinks(script, C)[x].think = "none"
  BY DropLinksFits DEF ScriptInv, RecordsOK, ScriptsRest

-----------------------------------------------------------------------------
(* The scripts' thinks.                                                    *)

\* Only a free monster is possessed, by a script that has none.
LEMMA PossessEntityInv ==
    ASSUME ScriptInv, NEW s \in Script, NEW m \in Monster, script[s].think = "CineThink",
           CanPlaySequence(m, s), PossessEntity(s, m)
    PROVE  ScriptInv'
<1> DEFINE waits == IF Counts(s) THEN Concert(s) ELSE {}
           r == [monster[m] EXCEPT !.cine = s, !.ideal = "script"]
           q == IF s \in AIScripts /\ r.state = "script" THEN Scheduled(r) ELSE r
<1>0. Null \notin Monster /\ Null \notin Script
  BY ScriptAssumption
<1>1. /\ monster \in [Monster -> MonsterRecord] /\ script \in [Script -> ScriptRecord]
      /\ \A k \in Monster : TaskFits(monster[k])
  BY DEF ScriptInv, RecordsOK, TaskFits
<1>2. monster[m].cine = Null /\ script[s].target = Null
  BY DEF CanPlaySequence, ScriptInv, ScriptsRest
<1>3. r \in MonsterRecord /\ TaskFits(r) /\ r.cine = s /\ r.ideal = "script"
  <2>1. monster[m] \in MonsterRecord /\ TaskFits(monster[m])
    BY <1>1
  <2>2. r \in MonsterRecord /\ r.cine = s /\ r.ideal = "script"
    BY <2>1 DEF MonsterRecord
  <2>3. r.task = monster[m].task /\ r.state = monster[m].state
    BY <2>1 DEF MonsterRecord
  <2> QED
    BY <2>1, <2>2, <2>3 DEF TaskFits
<1>4. q \in MonsterRecord /\ TaskFits(q) /\ q.cine = s
  <2> HIDE DEF r
  <2> QED
    BY <1>3, ScheduledFits
<1>5. \A k \in Monster : monster'[k] = IF k = m THEN q ELSE monster[k]
  <2> HIDE DEF q, r
  <2>1. monster' = [monster EXCEPT ![m] = q]
    BY DEF PossessEntity, q, r
  <2> QED
    BY <2>1, <1>1
<1>6. \A x \in Script :
          /\ script'[x] \in ScriptRecord
          /\ script'[x].target = IF x = s THEN m ELSE script[x].target
          /\ script'[x].think = IF x = s THEN "none" ELSE script[x].think
  <2> SUFFICES ASSUME NEW x \in Script
               PROVE  /\ script'[x] \in ScriptRecord
                      /\ script'[x].target = IF x = s THEN m ELSE script[x].target
                      /\ script'[x].think = IF x = s THEN "none" ELSE script[x].think
    OBVIOUS
  <2> HIDE DEF waits
  <2>1. script'[x] =
         [script[x] EXCEPT
            !.target = IF x = s THEN m ELSE @,
            !.think = IF x = s THEN "none" ELSE @,
            !.started = @ /\ ~(x = s /\ s \in Teleports),
            !.m_iDelay = IF x \in waits THEN @ + 1 ELSE @]
    BY DEF PossessEntity, waits
  <2>2. script[x] \in ScriptRecord
    BY <1>1
  <2>3. /\ script'[x].target = IF x = s THEN m ELSE script[x].target
        /\ script'[x].think = IF x = s THEN "none" ELSE script[x].think
    BY <2>1, <2>2 DEF ScriptRecord
  <2>4. /\ script'[x].started = (script[x].started /\ ~(x = s /\ s \in Teleports))
        /\ script'[x].m_iDelay = IF x \in waits THEN script[x].m_iDelay + 1
                                 ELSE script[x].m_iDelay
    BY <2>1, <2>2 DEF ScriptRecord
  <2>5. script'[x] = [target |-> script'[x].target, think |-> script'[x].think,
                      m_iDelay |-> script'[x].m_iDelay, started |-> script'[x].started]
    BY <2>1, <2>2 DEF ScriptRecord
  <2>6. script'[x].started \in BOOLEAN
    BY <2>4
  <2>7. /\ script'[x].target \in Monster \cup {Null} /\ script'[x].m_iDelay \in Int
        /\ script'[x].think \in {"none", "CineThink", "SUB_Remove", "removed"}
    BY <2>2, <2>3, <2>4 DEF ScriptRecord
  <2>8. script'[x] \in ScriptRecord
    BY <2>5, <2>6, <2>7 DEF ScriptRecord
  <2> QED
    BY <2>3, <2>8
<1> HIDE DEF q, r, waits
<1>7. script' \in [Script -> ScriptRecord] /\ monster' \in [Monster -> MonsterRecord]
  <2>1. script' \in [Script -> ScriptRecord]
    BY <1>6 DEF PossessEntity
  <2>2. monster' \in [Monster -> MonsterRecord]
    BY <1>1, <1>4 DEF PossessEntity, q, r
  <2> QED
    BY <2>1, <2>2
<1>8. RecordsOK'
  <2>1. \A k \in Monster : TaskFits(monster'[k])
    BY <1>1, <1>4, <1>5
  <2>2. disturbed' \in BOOLEAN
    BY DEF PossessEntity, ScriptInv, RecordsOK
  <2> QED
    BY <1>7, <2>1, <2>2, TypeFromRecords
<1>9. ScriptsRest'
  BY <1>6 DEF ScriptInv, ScriptsRest
<1>10. LinksAgree'
  <2> SUFFICES ASSUME NEW k \in Monster, NEW x \in Script
               PROVE  /\ monster'[k].cine = x <=> script'[x].target = k
                      /\ monster'[k].cine = x =>
                             script'[x].think \notin {"SUB_Remove", "removed"}
    BY DEF LinksAgree
  <2>1. monster[k].cine = x <=> script[x].target = k
    BY DEF ScriptInv, LinksAgree
  <2>2. monster'[k].cine = x <=> script'[x].target = k
    BY <1>0, <1>2, <1>4, <1>5, <1>6, <2>1
  <2> QED
    BY <1>0, <1>9, <2>2 DEF ScriptsRest
<1>11. ScriptStateHasCine'
  BY <1>0, <1>4, <1>5 DEF ScriptInv, ScriptStateHasCine
<1> QED
  BY <1>8, <1>9, <1>10, <1>11 DEF ScriptInv

\* A script that finds nobody cancels its concert.
LEMMA FindsNobodyInv ==
    ASSUME ScriptInv, NEW s \in Script, FindsNobody(s)
    PROVE  ScriptInv'
<1> DEFINE C == Cancelled(s)
<1>1. C \in SUBSET Monster
  BY DEF Cancelled
<1>2. script' = DropLinks(script, C) /\ monster' = Cleaned(C) /\ disturbed' \in BOOLEAN
  BY DEF FindsNobody, ScriptInv, RecordsOK
<1> HIDE DEF C
<1>3. /\ monster' \in [Monster -> MonsterRecord]
      /\ \A m \in Monster : TaskFits(monster'[m])
      /\ \A m \in Monster : monster'[m].cine = IF m \in C THEN Null ELSE monster[m].cine
      /\ \A m \in Monster : monster'[m].ideal = "script" =>
             m \notin C /\ monster[m].ideal = "script"
  BY <1>1, <1>2, CleanedFits
<1>4. /\ script' \in [Script -> ScriptRecord]
      /\ \A x \in Script : script'[x].target =
             IF \E m \in C : monster[m].cine = x THEN Null ELSE script[x].target
      /\ \A x \in Script : script'[x].target # Null => script'[x].think = "none"
  BY <1>1, <1>2, LinksDropped
<1> QED
  BY <1>1, <1>2, <1>3, <1>4, ScriptsLost

\* The end of a script's SUB_Remove.
LEMMA RemoveScriptInv ==
    ASSUME ScriptInv, NEW s \in Script, RemoveScript(s)
    PROVE  ScriptInv'
<1>1. script \in [Script -> ScriptRecord] /\ script[s].target = Null
  BY DEF ScriptInv, RecordsOK, ScriptsRest, RemoveScript
<1>2. script' = [script EXCEPT ![s].think = "removed"] /\ UNCHANGED <<monster, disturbed>>
  BY DEF RemoveScript
<1>3. script' \in [Script -> ScriptRecord]
  BY <1>1, <1>2 DEF ScriptRecord
<1>4. \A x \in Script : /\ script'[x].target = script[x].target
                        /\ x # s => script'[x] = script[x]
  BY <1>1, <1>2 DEF ScriptRecord
<1>5. ScriptsRest'
  BY <1>1, <1>4 DEF ScriptInv, ScriptsRest
<1> QED
  BY <1>2, <1>3, <1>4, <1>5, OnlyScripts

\* A trigger.
LEMMA TriggerInv ==
    ASSUME ScriptInv, NEW n, Trigger(n)
    PROVE  ScriptInv'
<1>1. /\ script \in [Script -> ScriptRecord]
      /\ \A x \in Script : script[x].target # Null => script[x].target \in Monster
  BY DEF ScriptInv, RecordsOK, ScriptRecord
<1>2. script' = Used(script, n) /\ UNCHANGED <<monster, disturbed>>
  BY DEF Trigger
<1>3. /\ script' \in [Script -> ScriptRecord]
      /\ \A x \in Script :
           /\ script'[x].target = script[x].target
           /\ script[x].target # Null => script'[x].think = script[x].think
  BY <1>1, <1>2, UsedFits
<1>4. ScriptsRest'
  BY <1>3 DEF ScriptInv, ScriptsRest
<1> QED
  BY <1>2, <1>3, <1>4, OnlyScripts

-----------------------------------------------------------------------------
(* The monsters' thinks.                                                   *)

\* What the invariant says of one monster.
LEMMA MonsterFits ==
    ASSUME ScriptInv, NEW m \in Monster
    PROVE  /\ monster[m] \in MonsterRecord /\ TaskFits(monster[m])
           /\ monster \in [Monster -> MonsterRecord]
           /\ script \in [Script -> ScriptRecord]
           /\ disturbed \in BOOLEAN
  BY DEF ScriptInv, RecordsOK, TaskFits

LEMMA ChangeStateInv ==
    ASSUME ScriptInv, NEW m \in Monster, ChangeState(m)
    PROVE  ScriptInv'
<1> DEFINE r == Scheduled(monster[m])
<1>1. /\ r \in MonsterRecord /\ TaskFits(r)
      /\ r.cine = monster[m].cine /\ r.ideal = monster[m].ideal
  BY MonsterFits, ScheduledFits
<1>2. monster' = [monster EXCEPT ![m] = r] /\ UNCHANGED <<script, disturbed>>
  BY DEF ChangeState
<1> HIDE DEF r
<1> QED
  BY <1>1, <1>2, OneMonster, MonsterFits

LEMMA ReachMarkInv ==
    ASSUME ScriptInv, NEW m \in Monster, ReachMark(m)
    PROVE  ScriptInv'
<1> DEFINE heard == Concert(monster[m].cine)
           r == [monster[m] EXCEPT !.task = "wait"]
<1>1. monster[m] \in MonsterRecord /\ monster[m].state = "script"
  BY MonsterFits DEF ReachMark, InScript
<1>2. /\ r \in MonsterRecord /\ TaskFits(r)
      /\ r.cine = monster[m].cine /\ r.ideal = monster[m].ideal
  BY <1>1 DEF MonsterRecord, TaskFits
<1>3. /\ monster' = [monster EXCEPT ![m] = r] /\ UNCHANGED disturbed
      /\ script' = [x \in Script |-> IF x \notin heard THEN script[x]
           ELSE [script[x] EXCEPT !.m_iDelay = @ - 1, !.started = @ \/ script[x].m_iDelay <= 1]]
  BY MonsterFits DEF ReachMark
<1> HIDE DEF r, heard
<1>4. \A x \in Script : /\ script'[x] \in ScriptRecord
                        /\ script'[x].target = script[x].target
                        /\ script'[x].think = script[x].think
  <2> SUFFICES ASSUME NEW x \in Script
               PROVE  /\ script'[x] \in ScriptRecord
                      /\ script'[x].target = script[x].target
                      /\ script'[x].think = script[x].think
    OBVIOUS
  <2>1. script[x] \in ScriptRecord
    BY MonsterFits
  <2>2. CASE x \notin heard
    BY <1>3, <2>1, <2>2
  <2>3. CASE x \in heard
    <3> DEFINE b == script[x].started \/ script[x].m_iDelay <= 1
    <3>1. script'[x] = [script[x] EXCEPT !.m_iDelay = @ - 1, !.started = b]
      <4>1. script'[x] = IF x \notin heard THEN script[x]
              ELSE [script[x] EXCEPT !.m_iDelay = @ - 1,
                                     !.started = @ \/ script[x].m_iDelay <= 1]
        BY <1>3, Zenon
      <4> QED
        BY <2>3, <4>1, Zenon
    <3>2. b \in BOOLEAN
      OBVIOUS
    <3> HIDE DEF b
    <3>3. /\ script'[x].target = script[x].target /\ script'[x].think = script[x].think
          /\ script'[x].started = b /\ script'[x].m_iDelay = script[x].m_iDelay - 1
      BY <2>1, <3>1 DEF ScriptRecord
    <3>4. script'[x] = [target |-> script'[x].target, think |-> script'[x].think,
                        m_iDelay |-> script'[x].m_iDelay, started |-> script'[x].started]
      BY <2>1, <3>1 DEF ScriptRecord
    <3>5. /\ script'[x].target \in Monster \cup {Null} /\ script'[x].m_iDelay \in Int
          /\ script'[x].think \in {"none", "CineThink", "SUB_Remove", "removed"}
      BY <2>1, <3>3 DEF ScriptRecord
    <3> QED
      BY <3>2, <3>3, <3>4, <3>5 DEF ScriptRecord
  <2> QED
    BY <2>2, <2>3
<1>5. script' \in [Script -> ScriptRecord]
  BY <1>3, <1>4
<1>6. \A k \in Monster : monster'[k] = IF k = m THEN r ELSE monster[k]
  BY <1>3, MonsterFits
<1>7. RecordsOK'
  <2>1. monster' \in [Monster -> MonsterRecord] /\ disturbed' \in BOOLEAN
    BY <1>2, <1>3, MonsterFits
  <2>2. \A k \in Monster : TaskFits(monster'[k])
    BY <1>2, <1>6, MonsterFits
  <2> QED
    BY <1>5, <2>1, <2>2, TypeFromRecords
<1>8. ScriptsRest'
  BY <1>4 DEF ScriptInv, ScriptsRest
<1>9. LinksAgree'
  BY <1>2, <1>4, <1>6, <1>8, LinksKept
<1>10. ScriptStateHasCine'
  BY <1>2, <1>6 DEF ScriptInv, ScriptStateHasCine
<1> QED
  BY <1>7, <1>8, <1>9, <1>10 DEF ScriptInv

LEMMA StartSequenceInv ==
    ASSUME ScriptInv, NEW m \in Monster, StartSequence(m)
    PROVE  ScriptInv'
<1> DEFINE r == [monster[m] EXCEPT !.task = "play"]
<1>1. monster[m] \in MonsterRecord /\ monster[m].state = "script"
  BY MonsterFits DEF StartSequence, Ready, InScript
<1>2. /\ r \in MonsterRecord /\ TaskFits(r)
      /\ r.cine = monster[m].cine /\ r.ideal = monster[m].ideal
  BY <1>1 DEF MonsterRecord, TaskFits
<1>3. monster' = [monster EXCEPT ![m] = r] /\ UNCHANGED <<script, disturbed>>
  BY MonsterFits DEF StartSequence
<1> HIDE DEF r
<1> QED
  BY <1>2, <1>3, OneMonster, MonsterFits

\* The end of an animation gives script and monster back, before the target is
\* used.
LEMMA SequenceDoneInv ==
    ASSUME ScriptInv, NEW m \in Monster, SequenceDone(m)
    PROVE  ScriptInv'
<1> DEFINE s == monster[m].cine
           r == [CineCleanup(monster[m]) EXCEPT !.task = "none"]
           done == IF s \in Repeatable THEN script ELSE [script EXCEPT ![s].think = "SUB_Remove"]
           given == DropLinks(done, {m})
<1>0. Null \notin Monster /\ Null \notin Script
  BY ScriptAssumption
<1>1. s \in Script /\ script[s].target = m
  <2>1. s # Null
    BY DEF SequenceDone, InScript, ScriptInv, ScriptStateHasCine
  <2>2. s \in Script
    BY <2>1, MonsterFits DEF MonsterRecord
  <2> QED
    BY <2>2 DEF ScriptInv, LinksAgree
<1>2. /\ r \in MonsterRecord /\ TaskFits(r) /\ r.cine = Null /\ r.ideal # "script"
  <2>1. /\ CineCleanup(monster[m]) \in MonsterRecord
        /\ CineCleanup(monster[m]).cine = Null /\ CineCleanup(monster[m]).ideal # "script"
    BY MonsterFits, CineCleanupFits
  <2> QED
    BY <2>1 DEF MonsterRecord, TaskFits
<1>3. /\ done \in [Script -> ScriptRecord]
      /\ \A x \in Script : /\ done[x].target = script[x].target
                           /\ x # s => done[x].think = script[x].think
  BY <1>1, MonsterFits DEF ScriptRecord
<1>4. PICK n : script' = Used(given, n)
  BY DEF SequenceDone
<1>5. monster' = [monster EXCEPT ![m] = r] /\ UNCHANGED disturbed
  BY MonsterFits DEF SequenceDone
<1> HIDE DEF done, r
<1>6. /\ given \in [Script -> ScriptRecord]
      /\ \A x \in Script :
           /\ given[x].target = IF x = s THEN Null ELSE script[x].target
           /\ given[x].think = done[x].think
  BY <1>3, DropLinksFits
<1> HIDE DEF given
<1>7. /\ script' \in [Script -> ScriptRecord]
      /\ \A x \in Script :
           /\ script'[x].target = given[x].target
           /\ given[x].target # Null => script'[x].think = given[x].think
  <2>1. \A x \in Script : given[x].target # Null => given[x].target \in Monster
    BY <1>6 DEF ScriptRecord
  <2> QED
    BY <1>4, <1>6, <2>1, UsedFits
<1>8. \A k \in Monster : monster'[k] = IF k = m THEN r ELSE monster[k]
  BY <1>5, MonsterFits
<1>9. /\ monster' \in [Monster -> MonsterRecord]
      /\ \A k \in Monster : TaskFits(monster'[k])
      /\ disturbed' \in BOOLEAN
  BY <1>2, <1>5, <1>8, MonsterFits
<1>10. \A k \in Monster :
         /\ monster'[k].cine = IF k \in {m} THEN Null ELSE monster[k].cine
         /\ monster'[k].ideal = "script" => k \notin {m} /\ monster[k].ideal = "script"
  BY <1>2, <1>8
<1>11. \A x \in Script :
         script'[x].target = IF \E k \in {m} : monster[k].cine = x THEN Null ELSE script[x].target
  BY <1>6, <1>7
<1>12. \A x \in Script : script'[x].target # Null => script'[x].think = "none"
  BY <1>3, <1>6, <1>7 DEF ScriptInv, ScriptsRest
<1> QED
  BY <1>7, <1>9, <1>10, <1>11, <1>12, ScriptsLost

\* An interrupted monster is given a schedule of its next state, whether its
\* concert is cancelled or, for a dying monster, left.
LEMMA InterruptInv ==
    ASSUME ScriptInv, NEW m \in Monster, Interrupt(m)
    PROVE  ScriptInv'
<1> DEFINE C == IF monster[m].deadflag = "dying" THEN {} ELSE Cancelled(monster[m].cine)
           after == IF monster[m].deadflag = "dying"
                    THEN [monster EXCEPT ![m].ideal = "dead"] ELSE Cleaned(C)
           r == Scheduled(after[m])
<1>1. C \in SUBSET Monster
  BY DEF Cancelled
<1>2. /\ script' = DropLinks(script, C) /\ monster' = [after EXCEPT ![m] = r]
      /\ disturbed' \in BOOLEAN
  BY DEF Interrupt
<1>3. /\ after \in [Monster -> MonsterRecord]
      /\ \A k \in Monster :
           /\ TaskFits(after[k])
           /\ after[k].cine = IF k \in C THEN Null ELSE monster[k].cine
           /\ after[k].ideal = "script" => k \notin C /\ monster[k].ideal = "script"
  <2>1. CASE monster[m].deadflag = "dying"
    <3> DEFINE d == [monster[m] EXCEPT !.ideal = "dead"]
    <3>1. /\ d \in MonsterRecord /\ TaskFits(d) /\ d.cine = monster[m].cine
          /\ d.ideal = "dead"
      BY MonsterFits DEF MonsterRecord, TaskFits
    <3>2. after = [monster EXCEPT ![m] = d] /\ C = {}
      BY <2>1, MonsterFits
    <3> HIDE DEF d, after, C
    <3>3. \A k \in Monster : after[k] = IF k = m THEN d ELSE monster[k]
      BY <3>2, MonsterFits
    <3>4. after \in [Monster -> MonsterRecord]
      BY <3>1, <3>2, MonsterFits
    <3> QED
      BY <3>1, <3>2, <3>3, <3>4, MonsterFits
  <2>2. CASE monster[m].deadflag # "dying"
    <3>1. after = Cleaned(C)
      BY <2>2
    <3> HIDE DEF after, C
    <3> QED
      BY <1>1, <3>1, CleanedFits
  <2> QED
    BY <2>1, <2>2
<1> HIDE DEF C, after
<1>4. /\ r \in MonsterRecord /\ TaskFits(r)
      /\ r.cine = after[m].cine /\ r.ideal = after[m].ideal
  BY <1>3, ScheduledFits
<1> HIDE DEF r
<1>5. \A k \in Monster : monster'[k] = IF k = m THEN r ELSE after[k]
  BY <1>2, <1>3
<1>6. /\ monster' \in [Monster -> MonsterRecord]
      /\ \A k \in Monster : TaskFits(monster'[k])
      /\ \A k \in Monster : monster'[k].cine = IF k \in C THEN Null ELSE monster[k].cine
      /\ \A k \in Monster : monster'[k].ideal = "script" =>
             k \notin C /\ monster[k].ideal = "script"
  <2>1. monster' \in [Monster -> MonsterRecord]
    BY <1>2, <1>3, <1>4
  <2> QED
    BY <2>1, <1>3, <1>4, <1>5
<1>7. /\ script' \in [Script -> ScriptRecord]
      /\ \A x \in Script : script'[x].target =
             IF \E k \in C : monster[k].cine = x THEN Null ELSE script[x].target
      /\ \A x \in Script : script'[x].target # Null => script'[x].think = "none"
  BY <1>1, <1>2, LinksDropped
<1> QED
  BY <1>1, <1>2, <1>6, <1>7, ScriptsLost

LEMMA DieInv ==
    ASSUME ScriptInv, NEW m \in Monster, Die(m)
    PROVE  ScriptInv'
<1> DEFINE r == [monster[m] EXCEPT !.task = "none", !.deadflag = "dead"]
<1>1. /\ r \in MonsterRecord /\ TaskFits(r)
      /\ r.cine = monster[m].cine /\ r.ideal = monster[m].ideal
  BY MonsterFits DEF MonsterRecord, TaskFits
<1>2. monster' = [monster EXCEPT ![m] = r] /\ UNCHANGED <<script, disturbed>>
  BY MonsterFits DEF Die
<1> HIDE DEF r
<1> QED
  BY <1>1, <1>2, OneMonster, MonsterFits

-----------------------------------------------------------------------------
(* What happens to monsters.                                               *)

LEMMA ChangeMoodInv ==
    ASSUME ScriptInv, NEW m \in Monster, ChangeMood(m)
    PROVE  ScriptInv'
<1>1. PICK mood \in {"idle", "combat"} :
        monster' = [monster EXCEPT ![m].state = mood, ![m].ideal = mood]
  BY DEF ChangeMood
<1> DEFINE r == [monster[m] EXCEPT !.state = mood, !.ideal = mood]
<1>2. monster[m].state \in {"idle", "combat"} /\ UNCHANGED <<script, disturbed>>
  BY DEF ChangeMood
<1>3. /\ r \in MonsterRecord /\ TaskFits(r)
      /\ r.cine = monster[m].cine /\ r.ideal # "script"
  BY <1>2, MonsterFits DEF MonsterRecord, TaskFits
<1>4. monster' = [monster EXCEPT ![m] = r]
  BY <1>1, MonsterFits
<1> HIDE DEF r
<1> QED
  BY <1>2, <1>3, <1>4, OneMonster, MonsterFits

LEMMA HurtInv ==
    ASSUME ScriptInv, NEW m \in Monster, Hurt(m)
    PROVE  ScriptInv'
<1> DEFINE r == [monster[m] EXCEPT !.out = TRUE]
<1>1. /\ r \in MonsterRecord /\ TaskFits(r)
      /\ r.cine = monster[m].cine /\ r.ideal = monster[m].ideal
  BY MonsterFits DEF MonsterRecord, TaskFits
<1>2. monster' = [monster EXCEPT ![m] = r] /\ UNCHANGED <<script, disturbed>>
  BY MonsterFits DEF Hurt
<1> HIDE DEF r
<1> QED
  BY <1>1, <1>2, OneMonster, MonsterFits

LEMMA DeathEventInv ==
    ASSUME ScriptInv, NEW m \in Monster, DeathEvent(m)
    PROVE  ScriptInv'
<1>1. PICK dead \in BOOLEAN :
        monster' = [monster EXCEPT ![m].out = dead,
                                   ![m].deadflag = IF dead THEN "dying" ELSE "no"]
  BY DEF DeathEvent
<1> DEFINE r == [monster[m] EXCEPT !.out = dead, !.deadflag = IF dead THEN "dying" ELSE "no"]
<1>2. /\ r \in MonsterRecord /\ TaskFits(r)
      /\ r.cine = monster[m].cine /\ r.ideal = monster[m].ideal
  BY MonsterFits DEF MonsterRecord, TaskFits
<1>3. monster' = [monster EXCEPT ![m] = r] /\ UNCHANGED <<script, disturbed>>
  BY <1>1, MonsterFits DEF DeathEvent
<1> HIDE DEF r
<1> QED
  BY <1>2, <1>3, OneMonster, MonsterFits

LEMMA KilledInv ==
    ASSUME ScriptInv, NEW m \in Monster, Killed(m)
    PROVE  ScriptInv'
<1> DEFINE r == [monster[m] EXCEPT !.killed = TRUE, !.ideal = "dead", !.out = FALSE]
<1>1. /\ r \in MonsterRecord /\ TaskFits(r)
      /\ r.cine = monster[m].cine /\ r.ideal = "dead"
  BY MonsterFits DEF MonsterRecord, TaskFits
<1>2. monster' = [monster EXCEPT ![m] = r] /\ UNCHANGED script
  BY MonsterFits DEF Killed
<1>3. disturbed' \in BOOLEAN
  BY MonsterFits DEF Killed
<1> HIDE DEF r
<1> QED
  BY <1>1, <1>2, <1>3, OneMonster

\* Handles to a removed monster become empty, m_pCine goes with it.
LEMMA UpdateOnRemoveInv ==
    ASSUME ScriptInv, NEW m \in Monster, UpdateOnRemove(m)
    PROVE  ScriptInv'
<1> DEFINE r == [cine |-> Null, state |-> "removed", ideal |-> "dead", task |-> "none",
                 deadflag |-> "dead", out |-> FALSE, killed |-> TRUE]
<1>1. r \in MonsterRecord /\ TaskFits(r) /\ r.cine = Null /\ r.ideal = "dead"
  BY DEF MonsterRecord, TaskFits
<1>2. /\ monster' = [monster EXCEPT ![m] = r]
      /\ script' = [x \in Script |-> [script[x] EXCEPT !.target = IF @ = m THEN Null ELSE @]]
  BY DEF UpdateOnRemove
<1>3. disturbed' \in BOOLEAN
  BY MonsterFits DEF UpdateOnRemove
<1> HIDE DEF r
<1>4. \A k \in Monster : monster'[k] = IF k = m THEN r ELSE monster[k]
  BY <1>2, MonsterFits
<1>5. /\ monster' \in [Monster -> MonsterRecord]
      /\ \A k \in Monster : TaskFits(monster'[k])
  BY <1>1, <1>2, <1>4, MonsterFits
<1>6. \A k \in Monster :
         /\ monster'[k].cine = IF k \in {m} THEN Null ELSE monster[k].cine
         /\ monster'[k].ideal = "script" => k \notin {m} /\ monster[k].ideal = "script"
  BY <1>1, <1>4
<1>7. \A x \in Script : /\ script'[x] \in ScriptRecord
                        /\ script'[x].target = IF script[x].target = m THEN Null
                                               ELSE script[x].target
                        /\ script'[x].think = script[x].think
  BY <1>2, MonsterFits DEF ScriptRecord
<1>8. \A x \in Script : (\E k \in {m} : monster[k].cine = x) <=> script[x].target = m
  BY DEF ScriptInv, LinksAgree
<1>9. \A x \in Script :
         script'[x].target = IF \E k \in {m} : monster[k].cine = x THEN Null ELSE script[x].target
  BY <1>7, <1>8
<1>10. \A x \in Script : script'[x].target # Null => script'[x].think = "none"
  BY <1>7 DEF ScriptInv, ScriptsRest
<1>11. script' \in [Script -> ScriptRecord]
  BY <1>2, <1>7
<1> QED
  BY <1>3, <1>5, <1>6, <1>9, <1>10, <1>11, ScriptsLost

LEMMA StartFollowingInv ==
    ASSUME ScriptInv, NEW m \in Monster, StartFollowing(m)
    PROVE  ScriptInv'
<1> DEFINE C == Cancelled(monster[m].cine)
<1>1. C \in SUBSET Monster
  BY DEF Cancelled
<1>2. PICK enemy \in BOOLEAN :
        monster' = [Cleaned(C) EXCEPT ![m].task = "none",
                                      ![m].ideal = IF enemy THEN "combat" ELSE @]
  BY DEF StartFollowing
<1>3. script' = DropLinks(script, C) /\ disturbed' \in BOOLEAN
  BY DEF StartFollowing
<1> HIDE DEF C
<1> DEFINE q == Cleaned(C)[m]
           r == [q EXCEPT !.task = "none", !.ideal = IF enemy THEN "combat" ELSE @]
<1>4. /\ Cleaned(C) \in [Monster -> MonsterRecord]
      /\ \A k \in Monster :
           /\ TaskFits(Cleaned(C)[k])
           /\ Cleaned(C)[k].cine = IF k \in C THEN Null ELSE monster[k].cine
           /\ Cleaned(C)[k].ideal = "script" => k \notin C /\ monster[k].ideal = "script"
  BY <1>1, CleanedFits
<1>5. /\ r \in MonsterRecord /\ TaskFits(r) /\ r.cine = q.cine
      /\ r.ideal = "script" => q.ideal = "script"
  BY <1>4 DEF MonsterRecord, TaskFits
<1>6. monster' = [Cleaned(C) EXCEPT ![m] = r]
  BY <1>2, <1>4
<1> HIDE DEF r
<1>7. \A k \in Monster : monster'[k] = IF k = m THEN r ELSE Cleaned(C)[k]
  BY <1>4, <1>6
<1>8. /\ monster' \in [Monster -> MonsterRecord]
      /\ \A k \in Monster : TaskFits(monster'[k])
      /\ \A k \in Monster : monster'[k].cine = IF k \in C THEN Null ELSE monster[k].cine
      /\ \A k \in Monster : monster'[k].ideal = "script" =>
             k \notin C /\ monster[k].ideal = "script"
  <2>1. monster' \in [Monster -> MonsterRecord]
    BY <1>4, <1>5, <1>6
  <2> QED
    BY <2>1, <1>4, <1>5, <1>7
<1>9. /\ script' \in [Script -> ScriptRecord]
      /\ \A x \in Script : script'[x].target =
             IF \E k \in C : monster[k].cine = x THEN Null ELSE script[x].target
      /\ \A x \in Script : script'[x].target # Null => script'[x].think = "none"
  BY <1>1, <1>3, LinksDropped
<1> QED
  BY <1>1, <1>3, <1>8, <1>9, ScriptsLost

-----------------------------------------------------------------------------
(* The theorems.                                                           *)

\* At first no monster has a script and no script a monster.
LEMMA ScriptInitInv == ScriptInit => ScriptInv
<1> SUFFICES ASSUME ScriptInit
             PROVE  ScriptInv
  OBVIOUS
<1>0. Null \notin Monster /\ Null \notin Script
  BY ScriptAssumption
<1>1. /\ \A m \in Monster : /\ monster[m] \in MonsterRecord /\ TaskFits(monster[m])
                            /\ monster[m].cine = Null /\ monster[m].ideal # "script"
      /\ monster \in [Monster -> MonsterRecord]
  <2>1. ASSUME NEW m \in Monster
        PROVE  /\ monster[m] \in MonsterRecord /\ TaskFits(monster[m])
               /\ monster[m].cine = Null /\ monster[m].ideal # "script"
    <3>1. PICK mood \in {"idle", "combat"} : monster[m] =
            [cine |-> Null, state |-> mood, ideal |-> mood, task |-> "none",
             deadflag |-> "no", out |-> FALSE, killed |-> FALSE]
      BY <2>1 DEF ScriptInit
    <3> QED
      BY <3>1 DEF MonsterRecord, TaskFits
  <2>2. monster = [m \in Monster |-> monster[m]]
    BY DEF ScriptInit
  <2> QED
    BY <2>1, <2>2
<1>2. /\ script \in [Script -> ScriptRecord]
      /\ \A s \in Script : script[s].target = Null
  BY DEF ScriptInit, ScriptRecord
<1>3. RecordsOK
  BY <1>1, <1>2 DEF ScriptInit, RecordsOK, TaskFits
<1> QED
  BY <1>0, <1>1, <1>2, <1>3 DEF ScriptInv, LinksAgree, ScriptStateHasCine, ScriptsRest

\* No other step counts an early arrival.
LEMMA OnlyReachMark ==
    ASSUME [ScriptNext]_scriptVars
    PROVE  UNCHANGED early \/ \E m \in Monster : ReachMark(m)
<1>1. CASE UNCHANGED scriptVars
  BY <1>1 DEF scriptVars
<1>2. ASSUME NEW s \in Script, CineThink(s) \/ FindsNobody(s) \/ RemoveScript(s)
      PROVE  UNCHANGED early
  BY <1>2 DEF CineThink, PossessEntity, FindsNobody, RemoveScript
<1>3. ASSUME NEW n \in Names, Trigger(n)
      PROVE  UNCHANGED early
  BY <1>3 DEF Trigger
<1>4. ASSUME NEW m \in Monster, Interrupt(m) \/ Acts(m)
      PROVE  UNCHANGED early
  BY <1>4 DEF Interrupt, Acts, ChangeState, StartSequence, SequenceDone, Die
<1>5. ASSUME NEW m \in Monster,
             \/ ChangeMood(m) \/ Hurt(m) \/ DeathEvent(m) \/ Killed(m)
             \/ UpdateOnRemove(m) \/ StartFollowing(m)
      PROVE  UNCHANGED early
  BY <1>5 DEF ChangeMood, Hurt, DeathEvent, Killed, UpdateOnRemove, StartFollowing
<1> QED
  BY <1>1, <1>2, <1>3, <1>4, <1>5 DEF ScriptNext

\* Every step keeps the invariant.
LEMMA ScriptStepInv ==
    ASSUME ScriptInv, [ScriptNext]_scriptVars
    PROVE  ScriptInv'
<1>1. CASE UNCHANGED scriptVars
  BY <1>1 DEF scriptVars, ScriptInv, RecordsOK, LinksAgree, ScriptStateHasCine, ScriptsRest
<1>2. ASSUME NEW s \in Script, CineThink(s)
      PROVE  ScriptInv'
  BY <1>2, PossessEntityInv DEF CineThink
<1>3. ASSUME NEW s \in Script, FindsNobody(s) \/ RemoveScript(s)
      PROVE  ScriptInv'
  BY <1>3, FindsNobodyInv, RemoveScriptInv
<1>4. ASSUME NEW n \in Names, Trigger(n)
      PROVE  ScriptInv'
  BY <1>4, TriggerInv
<1>5. ASSUME NEW m \in Monster, ReachMark(m) \/ Interrupt(m) \/ Acts(m)
      PROVE  ScriptInv'
  BY <1>5, ReachMarkInv, InterruptInv, ChangeStateInv, StartSequenceInv, SequenceDoneInv,
     DieInv DEF Acts
<1>6. ASSUME NEW m \in Monster, ChangeMood(m) \/ Hurt(m) \/ DeathEvent(m) \/ Killed(m)
      PROVE  ScriptInv'
  BY <1>6, ChangeMoodInv, HurtInv, DeathEventInv, KilledInv
<1>7. ASSUME NEW m \in Monster, UpdateOnRemove(m) \/ StartFollowing(m)
      PROVE  ScriptInv'
  BY <1>7, UpdateOnRemoveInv, StartFollowingInv
<1> QED
  BY <1>1, <1>2, <1>3, <1>4, <1>5, <1>6, <1>7 DEF ScriptNext

\* The invariant holds in every state.
THEOREM ScriptInvAlways == ScriptSpec => []ScriptInv
<1>1. ScriptInit => ScriptInv
  BY ScriptInitInv
<1>2. ScriptInv /\ [ScriptNext]_scriptVars => ScriptInv'
  BY ScriptStepInv
<1> QED
  BY <1>1, <1>2, PTL DEF ScriptSpec

EarlyOK == early \in [Names -> Nat]

\* Early arrivals are only counted up.
LEMMA EarlyStep ==
    ASSUME EarlyOK, [ScriptNext]_scriptVars
    PROVE  EarlyOK'
<1>1. ASSUME NEW m \in Monster, ReachMark(m)
      PROVE  EarlyOK'
  <2>1. early' = [n \in Names |-> IF n = targetname[monster[m].cine] /\ ~Counts(monster[m].cine)
                                 THEN early[n] + 1 ELSE early[n]]
    BY <1>1 DEF ReachMark
  <2> QED
    BY <2>1 DEF EarlyOK
<1>2. CASE UNCHANGED early
  BY <1>2 DEF EarlyOK
<1> QED
  BY <1>1, <1>2, OnlyReachMark

\* The history has its range in every state.
LEMMA EarlyAlways == ScriptSpec => []EarlyOK
<1>1. ScriptInit => EarlyOK
  BY DEF ScriptInit, EarlyOK
<1>2. EarlyOK /\ [ScriptNext]_scriptVars => EarlyOK'
  BY EarlyStep
<1> QED
  BY <1>1, <1>2, PTL DEF ScriptSpec

\* Scripts and monsters keep their ranges, and only a monster in the script
\* state walks, waits or plays for a script.
THEOREM ScriptTypeCorrect == ScriptSpec => []ScriptTypeOK
<1>1. ScriptInv /\ EarlyOK => ScriptTypeOK
  BY DEF ScriptInv, RecordsOK, EarlyOK, ScriptTypeOK
<1> QED
  BY <1>1, ScriptInvAlways, EarlyAlways, PTL

\* A script and the monster it has point at each other, and a script that a
\* monster points at is not removed.
THEOREM LinksAgreeAlways == ScriptSpec => []LinksAgree
  BY ScriptInvAlways, PTL DEF ScriptInv

\* A monster that is to be in the script state has a script.
THEOREM ScriptStateHasCineAlways == ScriptSpec => []ScriptStateHasCine
  BY ScriptInvAlways, PTL DEF ScriptInv

-----------------------------------------------------------------------------
(* The delay. m_iDelay of each script, with the early arrivals, is never   *)
(* less than the number of monsters of its name that are behind. While no  *)
(* monster has lost its script, only a monster with a script has a task of *)
(* one, and it is exactly that number.                                     *)

WalkFits(r) ==
    /\ r.cine # Null => r.ideal = "script"
    /\ r.task \in {"walk", "wait", "play"} => r.cine # Null
    /\ r.task = "walk" => r.cine \in Walks

Behind(r) ==
    /\ r.ideal = "script" /\ r.cine \in Script /\ Counts(r.cine)
    /\ r.task \notin {"wait", "play"}

Walkers(monsters, s) ==
    {m \in Monster :
        /\ Behind(monsters[m])
        /\ targetname[s] = targetname[monsters[m].cine] /\ targetname[s] # Null}

Delay(s) ==
    IF targetname[s] = Null THEN script[s].m_iDelay
    ELSE script[s].m_iDelay + early[targetname[s]]

DelaysSuffice ==
    \A s \in Script \ AIScripts :
        script[s].think # "removed" => Delay(s) >= Cardinality(Walkers(monster, s))

DelaysCount ==
    \A s \in Script \ AIScripts :
        script[s].think # "removed" => Delay(s) = Cardinality(Walkers(monster, s))

WalkersInv ==
    ~disturbed => (\A m \in Monster : WalkFits(monster[m])) /\ DelaysCount

\* The delays and the removal of scripts are left alone.
DelaysKept ==
    /\ UNCHANGED early
    /\ \A s \in Script :
         /\ script'[s].m_iDelay = script[s].m_iDelay
         /\ script'[s].think # "removed" => script[s].think # "removed"

\* There are finitely many walkers.
LEMMA WalkersFinite ==
    ASSUME NEW monsters, NEW s
    PROVE  IsFiniteSet(Walkers(monsters, s))
<1>1. Walkers(monsters, s) \in SUBSET Monster
  BY DEF Walkers
<1> QED
  BY <1>1, FS_Subset, ScriptAssumption

\* One monster changes and is as much behind as before.
LEMMA OneMonsterWalks ==
    ASSUME ScriptInv, WalkersInv, ~disturbed, NEW m \in Monster, NEW r \in MonsterRecord,
           monster' = [monster EXCEPT ![m] = r], DelaysKept, WalkFits(r),
           Behind(r) <=> Behind(monster[m]),
           Behind(r) => r.cine = monster[m].cine
    PROVE  WalkersInv'
<1>1. \A k \in Monster : monster'[k] = IF k = m THEN r ELSE monster[k]
  BY DEF ScriptInv, RecordsOK
<1>2. \A k \in Monster : WalkFits(monster'[k])
  BY <1>1 DEF WalkersInv
<1>3. ASSUME NEW s
      PROVE  Walkers(monster', s) = Walkers(monster, s)
  BY <1>1 DEF Walkers
<1>4. DelaysCount'
  <2> SUFFICES ASSUME NEW s \in Script \ AIScripts, script'[s].think # "removed"
               PROVE  Delay(s)' = Cardinality(Walkers(monster', s))
    BY DEF DelaysCount
  <2>1. Walkers(monster', s) = Walkers(monster, s)
    BY <1>3
  <2> QED
    BY <2>1 DEF DelaysKept, WalkersInv, DelaysCount, Delay
<1> QED
  BY <1>2, <1>4 DEF WalkersInv

\* No monster changes.
LEMMA NoMonsterWalks ==
    ASSUME WalkersInv, ~disturbed, \A k \in Monster : monster'[k] = monster[k], DelaysKept
    PROVE  WalkersInv'
<1>1. ASSUME NEW s
      PROVE  Walkers(monster', s) = Walkers(monster, s)
  BY DEF Walkers
<1>2. DelaysCount'
  <2> SUFFICES ASSUME NEW s \in Script \ AIScripts, script'[s].think # "removed"
               PROVE  Delay(s)' = Cardinality(Walkers(monster', s))
    BY DEF DelaysCount
  <2>1. Walkers(monster', s) = Walkers(monster, s)
    BY <1>1
  <2> QED
    BY <2>1 DEF DelaysKept, WalkersInv, DelaysCount, Delay
<1> QED
  BY <1>2 DEF WalkersInv

\* The delay of a script is an integer.
LEMMA DelayFits ==
    ASSUME ScriptInv, EarlyOK, NEW s \in Script
    PROVE  Delay(s) \in Int
<1>1. script[s].m_iDelay \in Int
  BY DEF ScriptInv, RecordsOK, ScriptRecord
<1>2. targetname[s] # Null => early[targetname[s]] \in Nat
  BY DEF Names, EarlyOK
<1> QED
  BY <1>1, <1>2 DEF Delay

\* A step that puts no monster behind and leaves the delays alone.
LEMMA NobodyMoreBehind ==
    ASSUME ScriptInv, EarlyOK, DelaysSuffice, DelaysKept,
           \A k \in Monster : Behind(monster'[k]) =>
               Behind(monster[k]) /\ monster'[k].cine = monster[k].cine
    PROVE  DelaysSuffice'
<1> SUFFICES ASSUME NEW s \in Script \ AIScripts, script'[s].think # "removed"
             PROVE  Delay(s)' >= Cardinality(Walkers(monster', s))
  BY DEF DelaysSuffice
<1>1. Delay(s)' = Delay(s) /\ Delay(s) >= Cardinality(Walkers(monster, s))
  BY DEF DelaysKept, Delay, DelaysSuffice
<1>2. Walkers(monster', s) \subseteq Walkers(monster, s)
  BY DEF Walkers
<1>3. Cardinality(Walkers(monster', s)) <= Cardinality(Walkers(monster, s))
  BY <1>2, WalkersFinite, FS_Subset
<1>4. Cardinality(Walkers(monster', s)) \in Nat /\ Cardinality(Walkers(monster, s)) \in Nat
  BY WalkersFinite, FS_CardinalityType
<1> QED
  BY <1>1, <1>3, <1>4, DelayFits

\* The end of a sequence and the uses it makes leave the delays alone.
LEMMA SequenceDoneDelays ==
    ASSUME ScriptInv, NEW m \in Monster, SequenceDone(m)
    PROVE  DelaysKept
<1> DEFINE s == monster[m].cine
           done == IF s \in Repeatable THEN script ELSE [script EXCEPT ![s].think = "SUB_Remove"]
<1>1. PICK n \in Names \cup {Null} : script' = Used(DropLinks(done, {m}), n)
  BY DEF SequenceDone
<1>2. script \in [Script -> ScriptRecord] /\ s \in Script /\ script[s].think # "removed"
  BY DEF ScriptInv, RecordsOK, LinksAgree, ScriptStateHasCine, MonsterRecord, SequenceDone, InScript
<1>3. /\ done \in [Script -> ScriptRecord]
      /\ \A x \in Script : /\ done[x].m_iDelay = script[x].m_iDelay
                           /\ done[x].think # "removed" => script[x].think # "removed"
  BY <1>2 DEF ScriptRecord
<1> HIDE DEF done
<1>4. \A x \in Script : /\ DropLinks(done, {m})[x].m_iDelay = done[x].m_iDelay
                        /\ DropLinks(done, {m})[x].think = done[x].think
  BY <1>3 DEF DropLinks, ScriptRecord
<1>5. DropLinks(done, {m}) \in [Script -> ScriptRecord]
  BY <1>3, DropLinksFits
<1>6. \A x \in Script :
        /\ script'[x].m_iDelay = DropLinks(done, {m})[x].m_iDelay
        /\ script'[x].think # "removed" => DropLinks(done, {m})[x].think # "removed"
  BY <1>1, <1>5 DEF Used, ScriptRecord
<1>7. UNCHANGED early
  BY DEF SequenceDone
<1> QED
  BY <1>3, <1>4, <1>6, <1>7 DEF DelaysKept

\* A monster that is possessed was not behind, and is only for a walk that counts.
LEMMA PossessEntityBehind ==
    ASSUME ScriptInv, NEW s \in Script, NEW m \in Monster,
           CanPlaySequence(m, s), PossessEntity(s, m)
    PROVE  /\ \A k \in Monster : k # m => monster'[k] = monster[k]
           /\ monster'[m].cine = s /\ ~Behind(monster[m])
           /\ Behind(monster'[m]) => Counts(s)
           /\ WalkFits(monster[m]) =>
                  WalkFits(monster'[m]) /\ (Behind(monster'[m]) <=> Counts(s))
<1> DEFINE r == [monster[m] EXCEPT !.cine = s, !.ideal = "script"]
           q == IF s \in AIScripts /\ r.state = "script" THEN Scheduled(r) ELSE r
<1>1. s # Null /\ Null \notin Script
  BY ScriptAssumption
<1>2. monster \in [Monster -> MonsterRecord] /\ monster[m] \in MonsterRecord /\ monster[m].cine = Null
  BY DEF ScriptInv, RecordsOK, CanPlaySequence
<1>3. r \in MonsterRecord /\ r.cine = s /\ r.ideal = "script" /\ r.task = monster[m].task
  BY <1>2 DEF MonsterRecord
<1>4. monster' = [monster EXCEPT ![m] = q]
  BY DEF PossessEntity
<1> HIDE DEF r
<1>5. q.cine = s /\ q.ideal = "script"
  BY <1>3, ScheduledFits
<1> HIDE DEF q
<1>6. \A k \in Monster : monster'[k] = IF k = m THEN q ELSE monster[k]
  BY <1>2, <1>4
<1>7. Behind(q) => Counts(s)
  BY <1>5 DEF Behind
<1>8. ASSUME WalkFits(monster[m])
      PROVE  WalkFits(q) /\ (Behind(q) <=> Counts(s))
  <2>1. r.task \notin {"walk", "wait", "play"}
    BY <1>2, <1>3, <1>8 DEF WalkFits
  <2>2. CASE s \in AIScripts /\ r.state = "script"
    <3>1. q = Scheduled(r)
      BY <2>2 DEF q
    <3>2. q.task = FirstTask(s)
      BY <3>1, <1>3 DEF Scheduled, MonsterRecord
    <3> QED
      BY <1>1, <1>5, <2>2, <3>2 DEF FirstTask, WalkFits, Behind, Counts
  <2>3. CASE ~(s \in AIScripts /\ r.state = "script")
    <3>1. q = r
      BY <2>3 DEF q
    <3> QED
      BY <1>3, <2>1, <3>1 DEF WalkFits, Behind
  <2> QED
    BY <2>2, <2>3
<1> QED
  BY <1>1, <1>2, <1>5, <1>6, <1>7, <1>8 DEF Behind

\* The scripts of the concert count one more then.
LEMMA PossessEntityDelays ==
    ASSUME ScriptInv, EarlyOK, NEW s \in Script, NEW m \in Monster,
           script[s].think = "CineThink", PossessEntity(s, m), NEW x \in Script
    PROVE  /\ Delay(x)' = IF Counts(s) /\ x \in Concert(s) THEN Delay(x) + 1 ELSE Delay(x)
           /\ script'[x].think # "removed" => script[x].think # "removed"
<1>1. script[x] \in ScriptRecord /\ script[x].m_iDelay \in Int
  BY DEF ScriptInv, RecordsOK, ScriptRecord
<1>2. script'[x].m_iDelay =
        IF Counts(s) /\ x \in Concert(s) THEN script[x].m_iDelay + 1 ELSE script[x].m_iDelay
  BY <1>1 DEF PossessEntity, ScriptRecord
<1>3. script'[x].think # "removed" => script[x].think # "removed"
  BY <1>1 DEF PossessEntity, ScriptRecord
<1>4. UNCHANGED early /\ (targetname[x] # Null => early[targetname[x]] \in Nat)
  BY DEF PossessEntity, EarlyOK, Names
<1> QED
  BY <1>1, <1>2, <1>3, <1>4 DEF Delay

\* A monster that is possessed for a walk is at most one more that is behind.
LEMMA PossessEntitySuffices ==
    ASSUME ScriptInv, EarlyOK, DelaysSuffice, NEW s \in Script, NEW m \in Monster,
           script[s].think = "CineThink", CanPlaySequence(m, s), PossessEntity(s, m)
    PROVE  DelaysSuffice'
<1> SUFFICES ASSUME NEW x \in Script \ AIScripts, script'[x].think # "removed"
             PROVE  Delay(x)' >= Cardinality(Walkers(monster', x))
  BY DEF DelaysSuffice
<1>1. /\ script[x].think # "removed" /\ Delay(x) >= Cardinality(Walkers(monster, x))
      /\ Delay(x) \in Int
  BY PossessEntityDelays, DelayFits DEF DelaysSuffice
<1>2. /\ Cardinality(Walkers(monster', x)) \in Nat
      /\ Cardinality(Walkers(monster, x)) \in Nat
  BY WalkersFinite, FS_CardinalityType
<1>3. CASE Counts(s) /\ x \in Concert(s)
  <2>1. Walkers(monster', x) \subseteq Walkers(monster, x) \cup {m}
    BY PossessEntityBehind DEF Walkers
  <2>2. Cardinality(Walkers(monster', x)) <= Cardinality(Walkers(monster, x)) + 1
    <3>1. /\ IsFiniteSet(Walkers(monster, x) \cup {m})
          /\ Cardinality(Walkers(monster, x) \cup {m}) =
               IF m \in Walkers(monster, x) THEN Cardinality(Walkers(monster, x))
               ELSE Cardinality(Walkers(monster, x)) + 1
      BY WalkersFinite, FS_AddElement
    <3>2. Cardinality(Walkers(monster', x)) <= Cardinality(Walkers(monster, x) \cup {m})
      BY <2>1, <3>1, FS_Subset
    <3> QED
      BY <1>2, <3>1, <3>2
  <2>3. Delay(x)' = Delay(x) + 1
    BY <1>3, PossessEntityDelays
  <2> QED
    BY <1>1, <1>2, <2>2, <2>3
<1>4. CASE ~(Counts(s) /\ x \in Concert(s))
  <2>1. Walkers(monster', x) \subseteq Walkers(monster, x)
    BY <1>1, <1>4, PossessEntityBehind DEF Walkers, Concert
  <2>2. Cardinality(Walkers(monster', x)) <= Cardinality(Walkers(monster, x))
    BY <2>1, WalkersFinite, FS_Subset
  <2>3. Delay(x)' = Delay(x)
    BY <1>4, PossessEntityDelays
  <2> QED
    BY <1>1, <1>2, <2>2, <2>3
<1> QED
  BY <1>3, <1>4

\* For a walk that counts it is exactly one more.
LEMMA PossessEntityWalks ==
    ASSUME ScriptInv, EarlyOK, WalkersInv, ~disturbed', NEW s \in Script, NEW m \in Monster,
           script[s].think = "CineThink", CanPlaySequence(m, s), PossessEntity(s, m)
    PROVE  WalkersInv'
<1>1. ~disturbed /\ \A k \in Monster : WalkFits(monster[k])
  BY DEF PossessEntity, WalkersInv
<1>2. /\ \A k \in Monster : WalkFits(monster'[k])
      /\ \A k \in Monster : k # m => monster'[k] = monster[k]
      /\ monster'[m].cine = s /\ ~Behind(monster[m]) /\ (Behind(monster'[m]) <=> Counts(s))
  BY <1>1, PossessEntityBehind
<1>3. DelaysCount'
  <2> SUFFICES ASSUME NEW x \in Script \ AIScripts, script'[x].think # "removed"
               PROVE  Delay(x)' = Cardinality(Walkers(monster', x))
    BY DEF DelaysCount
  <2>1. script[x].think # "removed" /\ Delay(x) = Cardinality(Walkers(monster, x))
    BY <1>1, PossessEntityDelays DEF WalkersInv, DelaysCount
  <2>2. m \notin Walkers(monster, x)
    BY <1>2 DEF Walkers
  <2>3. CASE Counts(s) /\ x \in Concert(s)
    <3>1. Walkers(monster', x) = Walkers(monster, x) \cup {m}
      BY <1>2, <2>3 DEF Walkers, Concert
    <3>2. Cardinality(Walkers(monster', x)) = Cardinality(Walkers(monster, x)) + 1
      BY <2>2, <3>1, WalkersFinite, FS_AddElement
    <3>3. Delay(x)' = Delay(x) + 1
      BY <2>3, PossessEntityDelays
    <3> QED
      BY <2>1, <3>2, <3>3
  <2>4. CASE ~(Counts(s) /\ x \in Concert(s))
    <3>1. Walkers(monster', x) = Walkers(monster, x)
      BY <1>2, <2>1, <2>2, <2>4 DEF Walkers, Concert
    <3> QED
      BY <2>1, <2>4, <3>1, PossessEntityDelays
  <2> QED
    BY <2>3, <2>4
<1> QED
  BY <1>2, <1>3 DEF WalkersInv

\* The monster of ReachMark, and what it becomes.
LEMMA ReachMarkMonster ==
    ASSUME ScriptInv, NEW m \in Monster, ReachMark(m)
    PROVE  /\ monster[m].cine \in Script /\ monster[m].ideal = "script" /\ monster[m].task = "walk"
           /\ \A k \in Monster : k # m => monster'[k] = monster[k]
           /\ monster'[m].cine = monster[m].cine /\ monster'[m].ideal = "script"
           /\ monster'[m].task = "wait"
<1>1. /\ monster \in [Monster -> MonsterRecord] /\ monster[m] \in MonsterRecord
      /\ monster[m].ideal = "script" /\ monster[m].task = "walk"
      /\ monster' = [monster EXCEPT ![m].task = "wait"]
  BY DEF ScriptInv, RecordsOK, ReachMark, InScript
<1>2. monster[m].cine \in Script
  BY <1>1 DEF ScriptInv, ScriptStateHasCine, MonsterRecord
<1>3. \A k \in Monster : k # m => monster'[k] = monster[k]
  BY <1>1
<1>4. monster'[m] = [monster[m] EXCEPT !.task = "wait"]
  BY <1>1
<1> QED
  BY <1>1, <1>2, <1>3, <1>4 DEF MonsterRecord

\* A monster at the end of its walk is one less, or counted as early: the
\* delays of the concert change as the number of those behind does.
LEMMA ReachMarkDelays ==
    ASSUME ScriptInv, EarlyOK, NEW m \in Monster, ReachMark(m),
           NEW x \in Script \ AIScripts, script'[x].think # "removed"
    PROVE  /\ script[x].think # "removed"
           /\ \E d \in {0, 1} :
                /\ Delay(x)' = Delay(x) - d
                /\ Cardinality(Walkers(monster', x)) = Cardinality(Walkers(monster, x)) - d
<1> DEFINE s == monster[m].cine
           heard == Concert(s)
           n == targetname[x]
<1>1. /\ s \in Script /\ monster[m].ideal = "script" /\ monster[m].task = "walk"
      /\ \A k \in Monster : k # m => monster'[k] = monster[k]
      /\ monster'[m].cine = s /\ monster'[m].task = "wait"
  BY ReachMarkMonster
<1>2. Behind(monster[m]) <=> Counts(s)
  BY <1>1 DEF Behind
<1>3. ~Behind(monster'[m])
  BY <1>1 DEF Behind
<1>4. script[x] \in ScriptRecord /\ script[x].m_iDelay \in Int
  BY DEF ScriptInv, RecordsOK, ScriptRecord
<1>5. /\ script'[x].m_iDelay = IF x \in heard THEN script[x].m_iDelay - 1 ELSE script[x].m_iDelay
      /\ script[x].think # "removed"
  BY <1>4 DEF ReachMark, ScriptRecord
<1>6. x \in heard <=> n = targetname[s] /\ n # Null
  BY <1>5 DEF Concert
<1>7. n # Null =>
        /\ early[n] \in Nat
        /\ early'[n] = IF n = targetname[s] /\ ~Counts(s) THEN early[n] + 1 ELSE early[n]
  BY DEF ReachMark, EarlyOK, Names
<1>8. Delay(x) \in Int /\ Cardinality(Walkers(monster, x)) \in Nat
  BY DelayFits, WalkersFinite, FS_CardinalityType
<1>9. Delay(x)' = IF x \in heard /\ Counts(s) THEN Delay(x) - 1 ELSE Delay(x)
  <2> HIDE DEF heard, n, s
  <2>1. CASE n = Null
    BY <1>5, <1>6, <2>1 DEF Delay, n
  <2>2. CASE n # Null
    BY <1>4, <1>5, <1>6, <1>7, <2>2 DEF Delay, n
  <2> QED
    BY <2>1, <2>2
<1>10. Walkers(monster', x) = Walkers(monster, x) \ {m}
  BY <1>1, <1>3 DEF Walkers
<1>11. m \in Walkers(monster, x) <=> x \in heard /\ Counts(s)
  BY <1>1, <1>2, <1>6 DEF Walkers
<1>12. Cardinality(Walkers(monster', x)) =
         IF x \in heard /\ Counts(s) THEN Cardinality(Walkers(monster, x)) - 1
         ELSE Cardinality(Walkers(monster, x))
  BY <1>10, <1>11, WalkersFinite, FS_RemoveElement
<1> QED
  BY <1>5, <1>8, <1>9, <1>12

\* So an arrival leaves m_iDelay large enough.
LEMMA ReachMarkSuffices ==
    ASSUME ScriptInv, EarlyOK, DelaysSuffice, NEW m \in Monster, ReachMark(m)
    PROVE  DelaysSuffice'
<1> SUFFICES ASSUME NEW x \in Script \ AIScripts, script'[x].think # "removed"
             PROVE  Delay(x)' >= Cardinality(Walkers(monster', x))
  BY DEF DelaysSuffice
<1>1. Delay(x) \in Int /\ Cardinality(Walkers(monster, x)) \in Nat
  BY DelayFits, WalkersFinite, FS_CardinalityType
<1>2. Delay(x) >= Cardinality(Walkers(monster, x))
  BY ReachMarkDelays DEF DelaysSuffice
<1>3. PICK d \in {0, 1} :
        /\ Delay(x)' = Delay(x) - d
        /\ Cardinality(Walkers(monster', x)) = Cardinality(Walkers(monster, x)) - d
  BY ReachMarkDelays
<1> QED
  BY <1>1, <1>2, <1>3

\* An arrival keeps the count exact.
LEMMA ReachMarkWalks ==
    ASSUME ScriptInv, EarlyOK, WalkersInv, ~disturbed', NEW m \in Monster, ReachMark(m)
    PROVE  WalkersInv'
<1>1. ~disturbed /\ \A k \in Monster : WalkFits(monster[k])
  BY DEF ReachMark, WalkersInv
<1>2. \A k \in Monster : WalkFits(monster'[k])
  BY <1>1, ReachMarkMonster, ScriptAssumption DEF WalkFits
<1>3. DelaysCount'
  <2> SUFFICES ASSUME NEW x \in Script \ AIScripts, script'[x].think # "removed"
               PROVE  Delay(x)' = Cardinality(Walkers(monster', x))
    BY DEF DelaysCount
  <2> QED
    BY <1>1, ReachMarkDelays DEF WalkersInv, DelaysCount
<1> QED
  BY <1>2, <1>3 DEF WalkersInv

\* No monster is put behind, or goes on to another script.
BehindKept ==
    \A k \in Monster : Behind(monster'[k]) =>
        Behind(monster[k]) /\ monster'[k].cine = monster[k].cine

\* The cleanup only leaves those behind that it passes over.
LEMMA CleanedBehind ==
    ASSUME ScriptInv, NEW C \in SUBSET Monster, NEW k \in Monster, Cleaned(C)[k].ideal = "script"
    PROVE  k \notin C /\ Cleaned(C)[k] = monster[k]
  BY CleanedFits DEF Cleaned

\* A scripted_sequence that is cancelled loses its own monster if that is in
\* the script state.
LEMMA OwnCancelled ==
    ASSUME ScriptInv, NEW m \in Monster, monster[m].state = "script",
           monster[m].cine \in Script \ AIScripts
    PROVE  m \in Cancelled(monster[m].cine)
<1>1. script[monster[m].cine].target = m
  BY DEF ScriptInv, LinksAgree
<1> QED
  BY <1>1 DEF Cancelled

\* The delays and those behind, in each step that takes no monster and ends no walk.
LEMMA ScriptsBehind ==
    ASSUME ScriptInv, \/ \E s \in Script : FindsNobody(s) \/ RemoveScript(s)
                      \/ \E n \in Names : Trigger(n)
    PROVE  BehindKept /\ DelaysKept
<1>1. script \in [Script -> ScriptRecord]
  BY DEF ScriptInv, RecordsOK
<1>2. ASSUME NEW s \in Script, FindsNobody(s)
      PROVE  BehindKept /\ DelaysKept
  <2>1. Cancelled(s) \in SUBSET Monster
    BY DEF Cancelled
  <2>2. BehindKept
    BY <1>2, <2>1, CleanedBehind DEF FindsNobody, BehindKept, Behind
  <2>3. DelaysKept
    BY <1>1, <1>2 DEF FindsNobody, DropLinks, DelaysKept, ScriptRecord
  <2> QED
    BY <2>2, <2>3
<1>3. ASSUME NEW s \in Script, RemoveScript(s)
      PROVE  BehindKept /\ DelaysKept
  BY <1>1, <1>3 DEF RemoveScript, BehindKept, DelaysKept, ScriptRecord
<1>4. ASSUME NEW n \in Names, Trigger(n)
      PROVE  BehindKept /\ DelaysKept
  BY <1>1, <1>4 DEF Trigger, Used, BehindKept, DelaysKept, ScriptRecord
<1> QED
  BY <1>2, <1>3, <1>4

\* A schedule that is chosen, played or left puts nobody behind.
LEMMA ActsBehind ==
    ASSUME ScriptInv, NEW m \in Monster, Acts(m)
    PROVE  BehindKept /\ DelaysKept
<1>1. /\ monster \in [Monster -> MonsterRecord] /\ monster[m] \in MonsterRecord
      /\ TaskFits(monster[m])
  BY DEF ScriptInv, RecordsOK, TaskFits
<1>2. CASE ChangeState(m)
  <2> DEFINE r == Scheduled(monster[m])
  <2>1. r.cine = monster[m].cine /\ r.ideal = monster[m].ideal
    BY <1>1, ScheduledFits
  <2>2. monster[m].ideal = "script" => monster[m].task \notin {"wait", "play"}
    BY <1>1, <1>2 DEF ChangeState, InScript, TaskFits
  <2>3. monster' = [monster EXCEPT ![m] = r]
    BY <1>2 DEF ChangeState
  <2> HIDE DEF r
  <2>4. \A k \in Monster : monster'[k] = IF k = m THEN r ELSE monster[k]
    BY <1>1, <2>3
  <2> QED
    BY <1>2, <2>1, <2>2, <2>4 DEF ChangeState, BehindKept, Behind, DelaysKept
<1>3. CASE StartSequence(m)
  <2>1. \A k \in Monster : k # m => monster'[k] = monster[k]
    BY <1>1, <1>3 DEF StartSequence
  <2>2. monster'[m].task = "play"
    BY <1>1, <1>3 DEF StartSequence, MonsterRecord
  <2> QED
    BY <1>3, <2>1, <2>2 DEF StartSequence, BehindKept, Behind, DelaysKept
<1>4. CASE SequenceDone(m)
  <2> DEFINE r == CineCleanup(monster[m])
  <2>1. r \in MonsterRecord /\ r.ideal # "script"
    BY <1>1, CineCleanupFits
  <2>2. monster' = [monster EXCEPT ![m] = [r EXCEPT !.task = "none"]]
    BY <1>4 DEF SequenceDone
  <2> HIDE DEF r
  <2>3. \A k \in Monster : k # m => monster'[k] = monster[k]
    BY <1>1, <2>2
  <2>4. monster'[m].ideal # "script"
    BY <1>1, <2>1, <2>2 DEF MonsterRecord
  <2> QED
    BY <1>4, <2>3, <2>4, SequenceDoneDelays DEF BehindKept, Behind
<1>5. CASE Die(m)
  <2>1. \A k \in Monster : k # m => monster'[k] = monster[k]
    BY <1>1, <1>5 DEF Die
  <2>2. monster'[m].ideal = "dead"
    BY <1>1, <1>5 DEF Die, MonsterRecord
  <2> QED
    BY <1>5, <2>1, <2>2 DEF Die, BehindKept, Behind, DelaysKept
<1> QED
  BY <1>2, <1>3, <1>4, <1>5 DEF Acts

\* Nor does what the map and other monsters do to a monster.
LEMMA EventBehind ==
    ASSUME ScriptInv, NEW m \in Monster,
           ChangeMood(m) \/ Hurt(m) \/ DeathEvent(m) \/ Killed(m) \/ UpdateOnRemove(m)
    PROVE  BehindKept /\ DelaysKept
<1>1. /\ monster \in [Monster -> MonsterRecord] /\ monster[m] \in MonsterRecord
      /\ script \in [Script -> ScriptRecord]
  BY DEF ScriptInv, RecordsOK
<1>2. DelaysKept
  BY <1>1 DEF ChangeMood, Hurt, DeathEvent, Killed, UpdateOnRemove, DelaysKept, ScriptRecord
<1>3. \A k \in Monster : k # m => monster'[k] = monster[k]
  BY <1>1 DEF ChangeMood, Hurt, DeathEvent, Killed, UpdateOnRemove
<1>4. CASE Hurt(m) \/ DeathEvent(m)
  <2>1. /\ monster'[m].cine = monster[m].cine /\ monster'[m].ideal = monster[m].ideal
        /\ monster'[m].task = monster[m].task
    <3>1. CASE Hurt(m)
      BY <1>1, <3>1 DEF Hurt, MonsterRecord
    <3>2. CASE DeathEvent(m)
      <4>1. PICK dead \in BOOLEAN :
              monster' = [monster EXCEPT ![m].out = dead,
                                         ![m].deadflag = IF dead THEN "dying" ELSE "no"]
        BY <3>2 DEF DeathEvent
      <4>2. monster'[m] = [monster[m] EXCEPT !.out = dead,
                                             !.deadflag = IF dead THEN "dying" ELSE "no"]
        BY <1>1, <4>1
      <4> QED
        BY <1>1, <4>2 DEF MonsterRecord
    <3> QED
      BY <1>4, <3>1, <3>2
  <2> QED
    BY <1>2, <1>3, <2>1 DEF BehindKept, Behind
<1>5. CASE ChangeMood(m) \/ Killed(m) \/ UpdateOnRemove(m)
  <2>1. monster'[m].ideal # "script"
    BY <1>1, <1>5 DEF ChangeMood, Killed, UpdateOnRemove, MonsterRecord
  <2> QED
    BY <1>2, <1>3, <2>1 DEF BehindKept, Behind
<1> QED
  BY <1>4, <1>5

\* An interrupted script lets its monster go, unless it is a CCineAI.
LEMMA InterruptBehind ==
    ASSUME ScriptInv, NEW m \in Monster, Interrupt(m)
    PROVE  BehindKept /\ DelaysKept
<1> DEFINE C == IF monster[m].deadflag = "dying" THEN {} ELSE Cancelled(monster[m].cine)
           after == IF monster[m].deadflag = "dying"
                    THEN [monster EXCEPT ![m].ideal = "dead"] ELSE Cleaned(C)
           r == Scheduled(after[m])
<1>1. /\ monster \in [Monster -> MonsterRecord] /\ monster[m] \in MonsterRecord
      /\ script \in [Script -> ScriptRecord]
  BY DEF ScriptInv, RecordsOK
<1>2. /\ script' = DropLinks(script, C) /\ UNCHANGED early
      /\ monster' = [after EXCEPT ![m] = r]
  BY DEF Interrupt
<1>3. DelaysKept
  BY <1>1, <1>2 DEF DropLinks, DelaysKept, ScriptRecord
<1>4. C \in SUBSET Monster
  BY DEF Cancelled
<1>5. after \in [Monster -> MonsterRecord]
  BY <1>1, <1>4, CleanedFits DEF MonsterRecord
<1>6. /\ \A k \in Monster \ {m} : after[k].ideal = "script" => after[k] = monster[k]
      /\ ~(after[m].ideal = "script" /\ after[m].cine \in Script \ AIScripts)
  <2>1. CASE monster[m].deadflag = "dying"
    BY <1>1, <2>1 DEF MonsterRecord
  <2>2. CASE monster[m].deadflag # "dying"
    <3>1. \A k \in Monster : after[k].ideal = "script" => k \notin C /\ after[k] = monster[k]
      BY <1>4, <2>2, CleanedBehind
    <3>2. monster[m].cine \in Script \ AIScripts => m \in C
      BY <2>2, OwnCancelled DEF Interrupt, InScript
    <3> QED
      BY <3>1, <3>2
  <2> QED
    BY <2>1, <2>2
<1> HIDE DEF C, after
<1>7. r.cine = after[m].cine /\ r.ideal = after[m].ideal
  BY <1>5, ScheduledFits
<1> HIDE DEF r
<1>8. \A k \in Monster : monster'[k] = IF k = m THEN r ELSE after[k]
  BY <1>2, <1>5
<1> QED
  BY <1>3, <1>6, <1>7, <1>8 DEF BehindKept, Behind, Counts

\* A monster that follows a player was behind if it still is.
LEMMA StartFollowingBehind ==
    ASSUME ScriptInv, NEW m \in Monster, StartFollowing(m)
    PROVE  BehindKept /\ DelaysKept
<1> DEFINE C == Cancelled(monster[m].cine)
<1>1. /\ monster[m] \in MonsterRecord /\ TaskFits(monster[m])
      /\ script \in [Script -> ScriptRecord]
  BY DEF ScriptInv, RecordsOK, TaskFits
<1>2. script' = DropLinks(script, C) /\ UNCHANGED early
  BY DEF StartFollowing
<1>3. DelaysKept
  BY <1>1, <1>2 DEF DropLinks, DelaysKept, ScriptRecord
<1>4. C \in SUBSET Monster /\ (monster[m].state = "script" /\ monster[m].cine \in Script \ AIScripts => m \in C)
  BY OwnCancelled DEF Cancelled
<1>5. PICK enemy \in BOOLEAN :
        monster' = [Cleaned(C) EXCEPT ![m].task = "none",
                                      ![m].ideal = IF enemy THEN "combat" ELSE @]
  BY DEF StartFollowing
<1> HIDE DEF C
<1>6. Cleaned(C) \in [Monster -> MonsterRecord] /\ Cleaned(C)[m] \in MonsterRecord
  BY <1>4, CleanedFits
<1>7. /\ \A k \in Monster : k # m => monster'[k] = Cleaned(C)[k]
      /\ monster'[m] = [Cleaned(C)[m] EXCEPT !.task = "none",
                                             !.ideal = IF enemy THEN "combat" ELSE @]
  BY <1>5, <1>6
<1>8. /\ monster'[m].cine = Cleaned(C)[m].cine
      /\ monster'[m].ideal = "script" => Cleaned(C)[m].ideal = "script"
  BY <1>6, <1>7 DEF MonsterRecord
<1>9. Behind(monster'[m]) =>
        Behind(monster[m]) /\ monster'[m].cine = monster[m].cine
  <2> SUFFICES ASSUME Behind(monster'[m])
               PROVE  Behind(monster[m]) /\ monster'[m].cine = monster[m].cine
    OBVIOUS
  <2>1. m \notin C /\ Cleaned(C)[m] = monster[m]
    BY <1>4, <1>8, CleanedBehind DEF Behind
  <2>2. monster[m].cine \in Script \ AIScripts /\ monster[m].ideal = "script"
    BY <1>8, <2>1 DEF Behind, Counts
  <2>3. monster[m].task \notin {"wait", "play"}
    BY <1>1, <1>4, <2>1, <2>2 DEF TaskFits
  <2> QED
    BY <1>8, <2>1, <2>2, <2>3 DEF Behind
<1>10. \A k \in Monster : k # m /\ Behind(monster'[k]) =>
         Behind(monster[k]) /\ monster'[k].cine = monster[k].cine
  BY <1>4, <1>7, CleanedBehind DEF Behind
<1> QED
  BY <1>3, <1>9, <1>10 DEF BehindKept

\* The thinks of a monster that do not move it.
LEMMA ActsWalks ==
    ASSUME ScriptInv, WalkersInv, ~disturbed', NEW m \in Monster, Acts(m)
    PROVE  WalkersInv'
<1>1. /\ monster[m] \in MonsterRecord /\ TaskFits(monster[m]) /\ ~disturbed
      /\ monster[m].ideal = "script" => monster[m].cine # Null
      /\ script \in [Script -> ScriptRecord]
      /\ \A x \in Script : script[x].target # Null => script[x].target \in Monster
  BY DEF ScriptInv, RecordsOK, ScriptStateHasCine, TaskFits, ScriptRecord, Acts, ChangeState,
         StartSequence, SequenceDone, Die
<1>2. WalkFits(monster[m])
  BY <1>1 DEF WalkersInv
<1>3. CASE ChangeState(m)
  <2> DEFINE r == Scheduled(monster[m])
  <2>1. r \in MonsterRecord /\ r.cine = monster[m].cine /\ r.ideal = monster[m].ideal
    BY <1>1, ScheduledFits
  <2>2. r.task = CASE monster[m].ideal = "script" -> FirstTask(monster[m].cine)
                   [] monster[m].ideal = "dead" -> "die"
                   [] OTHER -> "none"
    BY <1>1 DEF Scheduled, MonsterRecord
  <2>3. monster[m].ideal = "script" => monster[m].task \notin {"walk", "wait", "play"}
    BY <1>1, <1>3 DEF ChangeState, InScript, TaskFits
  <2>4. DelaysKept /\ monster' = [monster EXCEPT ![m] = r]
    BY <1>3 DEF DelaysKept, ChangeState
  <2> HIDE DEF r
  <2>5. CASE monster[m].ideal = "script"
    <3>1. r.task = FirstTask(monster[m].cine)
      BY <2>2, <2>5
    <3>2. WalkFits(r) /\ (Behind(r) <=> Behind(monster[m]))
      BY <1>1, <2>1, <2>3, <2>5, <3>1 DEF FirstTask, WalkFits, Behind, Counts
    <3> QED
      BY <1>1, <2>1, <2>4, <3>2, OneMonsterWalks
  <2>6. CASE monster[m].ideal # "script"
    <3>1. monster[m].cine = Null /\ r.task \in {"die", "none"}
      BY <1>2, <2>2, <2>6 DEF WalkFits
    <3>2. WalkFits(r) /\ ~Behind(r) /\ ~Behind(monster[m])
      BY <2>1, <3>1, ScriptAssumption DEF WalkFits, Behind
    <3> QED
      BY <1>1, <2>1, <2>4, <3>2, OneMonsterWalks
  <2> QED
    BY <2>5, <2>6
<1>4. CASE StartSequence(m)
  <2> DEFINE r == [monster[m] EXCEPT !.task = "play"]
  <2>1. r \in MonsterRecord /\ r.cine = monster[m].cine /\ r.ideal = monster[m].ideal /\ r.task = "play"
    BY <1>1 DEF MonsterRecord
  <2>2. monster[m].task = "wait" /\ DelaysKept /\ monster' = [monster EXCEPT ![m] = r]
    BY <1>4 DEF DelaysKept, StartSequence, Ready
  <2> HIDE DEF r
  <2>3. WalkFits(r) /\ ~Behind(r) /\ ~Behind(monster[m])
    BY <1>2, <2>1, <2>2 DEF WalkFits, Behind
  <2> QED
    BY <1>1, <2>1, <2>2, <2>3, OneMonsterWalks
<1>5. CASE SequenceDone(m)
  <2> DEFINE r == [CineCleanup(monster[m]) EXCEPT !.task = "none"]
  <2>1. CineCleanup(monster[m]) \in MonsterRecord /\ CineCleanup(monster[m]).cine = Null
    BY <1>1, CineCleanupFits
  <2>2. r \in MonsterRecord /\ r.cine = Null /\ r.task = "none"
    BY <2>1 DEF MonsterRecord
  <2>3. monster[m].task \in {"play", "wait"} /\ monster' = [monster EXCEPT ![m] = r]
    BY <1>5 DEF SequenceDone, Ready
  <2>4. DelaysKept
    BY <1>5, SequenceDoneDelays
  <2> HIDE DEF r
  <2>5. WalkFits(r) /\ ~Behind(r) /\ ~Behind(monster[m])
    BY <2>2, <2>3, ScriptAssumption DEF WalkFits, Behind
  <2> QED
    BY <1>1, <2>2, <2>3, <2>4, <2>5, OneMonsterWalks
<1>6. CASE Die(m)
  <2> DEFINE r == [monster[m] EXCEPT !.task = "none", !.deadflag = "dead"]
  <2>1. r \in MonsterRecord /\ r.cine = monster[m].cine /\ r.ideal = monster[m].ideal /\ r.task = "none"
    BY <1>1 DEF MonsterRecord
  <2>2. /\ monster[m].task = "die" /\ monster[m].ideal = "dead"
        /\ DelaysKept /\ monster' = [monster EXCEPT ![m] = r]
    BY <1>6 DEF DelaysKept, Die, ScriptInv, RecordsOK
  <2> HIDE DEF r
  <2>3. WalkFits(r) /\ ~Behind(r) /\ ~Behind(monster[m])
    BY <1>2, <2>1, <2>2 DEF WalkFits, Behind
  <2> QED
    BY <1>1, <2>1, <2>2, <2>3, OneMonsterWalks
<1> QED
  BY <1>3, <1>4, <1>5, <1>6 DEF Acts

\* What happens to a monster from outside does not move it either.
LEMMA EventWalks ==
    ASSUME ScriptInv, WalkersInv, ~disturbed', NEW m \in Monster,
           ChangeMood(m) \/ Hurt(m) \/ DeathEvent(m) \/ Killed(m)
    PROVE  WalkersInv'
<1>1. monster[m] \in MonsterRecord /\ ~disturbed /\ UNCHANGED script
  BY DEF ScriptInv, RecordsOK, ChangeMood, Hurt, DeathEvent, Killed
<1>2. WalkFits(monster[m]) /\ DelaysKept
  BY <1>1, EventBehind DEF WalkersInv
<1>3. ASSUME NEW r \in MonsterRecord, monster' = [monster EXCEPT ![m] = r],
             r.cine = monster[m].cine, r.task = monster[m].task,
             r.cine # Null => r.ideal = monster[m].ideal
      PROVE  WalkersInv'
  <2>1. WalkFits(r) /\ (Behind(r) <=> Behind(monster[m]))
    BY <1>2, <1>3, ScriptAssumption DEF WalkFits, Behind
  <2> QED
    BY <1>1, <1>2, <1>3, <2>1, OneMonsterWalks
<1>4. CASE ChangeMood(m)
  <2>1. PICK mood \in {"idle", "combat"} :
          monster' = [monster EXCEPT ![m].state = mood, ![m].ideal = mood]
    BY <1>4 DEF ChangeMood
  <2> DEFINE r == [monster[m] EXCEPT !.state = mood, !.ideal = mood]
  <2>2. r \in MonsterRecord /\ r.cine = monster[m].cine /\ r.task = monster[m].task
    BY <1>1 DEF MonsterRecord
  <2>3. monster[m].cine = Null
    BY <1>2, <1>4 DEF ChangeMood, WalkFits
  <2>4. monster' = [monster EXCEPT ![m] = r]
    BY <2>1
  <2> HIDE DEF r
  <2> QED
    BY <1>3, <2>2, <2>3, <2>4
<1>5. CASE Hurt(m)
  <2> DEFINE r == [monster[m] EXCEPT !.out = TRUE]
  <2>1. /\ r \in MonsterRecord /\ r.cine = monster[m].cine /\ r.task = monster[m].task
        /\ r.ideal = monster[m].ideal
    BY <1>1 DEF MonsterRecord
  <2>2. monster' = [monster EXCEPT ![m] = r]
    BY <1>5 DEF Hurt
  <2> HIDE DEF r
  <2> QED
    BY <1>3, <2>1, <2>2
<1>6. CASE DeathEvent(m)
  <2>1. PICK dead \in BOOLEAN :
          monster' = [monster EXCEPT ![m].out = dead,
                                     ![m].deadflag = IF dead THEN "dying" ELSE "no"]
    BY <1>6 DEF DeathEvent
  <2> DEFINE r == [monster[m] EXCEPT !.out = dead, !.deadflag = IF dead THEN "dying" ELSE "no"]
  <2>2. /\ r \in MonsterRecord /\ r.cine = monster[m].cine /\ r.task = monster[m].task
        /\ r.ideal = monster[m].ideal
    BY <1>1 DEF MonsterRecord
  <2>3. monster' = [monster EXCEPT ![m] = r]
    BY <2>1
  <2> HIDE DEF r
  <2> QED
    BY <1>3, <2>2, <2>3
<1>7. CASE Killed(m)
  <2> DEFINE r == [monster[m] EXCEPT !.killed = TRUE, !.ideal = "dead", !.out = FALSE]
  <2>1. r \in MonsterRecord /\ r.cine = monster[m].cine /\ r.task = monster[m].task
    BY <1>1 DEF MonsterRecord
  <2>2. monster[m].cine = Null /\ monster' = [monster EXCEPT ![m] = r]
    BY <1>7 DEF Killed
  <2> HIDE DEF r
  <2> QED
    BY <1>3, <2>1, <2>2
<1> QED
  BY <1>4, <1>5, <1>6, <1>7

\* A monster that is removed had no script.
LEMMA UpdateOnRemoveWalks ==
    ASSUME ScriptInv, WalkersInv, ~disturbed', NEW m \in Monster, UpdateOnRemove(m)
    PROVE  WalkersInv'
<1> DEFINE r == [cine |-> Null, state |-> "removed", ideal |-> "dead", task |-> "none",
                 deadflag |-> "dead", out |-> FALSE, killed |-> TRUE]
<1>1. ~disturbed /\ monster[m].cine = Null /\ monster' = [monster EXCEPT ![m] = r]
  BY DEF UpdateOnRemove
<1>2. DelaysKept
  BY DEF UpdateOnRemove, DelaysKept, ScriptInv, RecordsOK, ScriptRecord
<1>3. r \in MonsterRecord /\ WalkFits(r) /\ ~Behind(r) /\ ~Behind(monster[m])
  BY <1>1, ScriptAssumption DEF MonsterRecord, WalkFits, Behind
<1> HIDE DEF r
<1> QED
  BY <1>1, <1>2, <1>3, OneMonsterWalks

\* The steps of the scripts and the map that take no monster.
LEMMA ScriptsWalk ==
    ASSUME ScriptInv, WalkersInv, ~disturbed',
           \/ \E s \in Script : FindsNobody(s) \/ RemoveScript(s)
           \/ \E n \in Names : Trigger(n)
    PROVE  WalkersInv'
<1>1. monster \in [Monster -> MonsterRecord] /\ script \in [Script -> ScriptRecord] /\ ~disturbed
  BY DEF ScriptInv, RecordsOK, FindsNobody, RemoveScript, Trigger
<1>2. ASSUME NEW s \in Script, FindsNobody(s)
      PROVE  (\A k \in Monster : monster'[k] = monster[k]) /\ DelaysKept
  <2>1. Cancelled(s) = {}
    BY <1>2 DEF FindsNobody
  <2>2. script' = DropLinks(script, {}) /\ monster' = Cleaned({})
    BY <1>2, <2>1 DEF FindsNobody
  <2>3. UNCHANGED early
    BY <1>2 DEF FindsNobody
  <2> QED
    BY <2>2, <2>3 DEF DropLinks, Cleaned, DelaysKept
<1>3. ASSUME NEW s \in Script, RemoveScript(s)
      PROVE  (\A k \in Monster : monster'[k] = monster[k]) /\ DelaysKept
  BY <1>1, <1>3 DEF RemoveScript, DelaysKept, ScriptRecord
<1>4. ASSUME NEW n \in Names, Trigger(n)
      PROVE  (\A k \in Monster : monster'[k] = monster[k]) /\ DelaysKept
  BY <1>1, <1>4 DEF Trigger, Used, DelaysKept, ScriptRecord
<1> QED
  BY <1>1, <1>2, <1>3, <1>4, NoMonsterWalks

\* Every step keeps m_iDelay large enough.
LEMMA StepSuffices ==
    ASSUME ScriptInv, EarlyOK, DelaysSuffice, [ScriptNext]_scriptVars
    PROVE  DelaysSuffice'
<1>1. BehindKept /\ DelaysKept => DelaysSuffice'
  BY NobodyMoreBehind DEF BehindKept
<1>2. CASE UNCHANGED scriptVars
  BY <1>1, <1>2 DEF scriptVars, BehindKept, DelaysKept
<1>3. CASE \E s \in Script : CineThink(s)
  BY <1>3, PossessEntitySuffices DEF CineThink
<1>4. CASE \E m \in Monster : ReachMark(m)
  BY <1>4, ReachMarkSuffices
<1>5. ASSUME NEW m \in Monster,
             \/ Interrupt(m) \/ Acts(m) \/ ChangeMood(m) \/ Hurt(m) \/ DeathEvent(m)
             \/ Killed(m) \/ UpdateOnRemove(m) \/ StartFollowing(m)
      PROVE  DelaysSuffice'
  BY <1>1, <1>5, InterruptBehind, ActsBehind, EventBehind, StartFollowingBehind
<1> QED
  BY <1>1, <1>2, <1>3, <1>4, <1>5, ScriptsBehind DEF ScriptNext

\* Every step keeps the count.
LEMMA NextWalks ==
    ASSUME ScriptInv, EarlyOK, WalkersInv, [ScriptNext]_scriptVars
    PROVE  WalkersInv'
<1> SUFFICES ASSUME ~disturbed' PROVE WalkersInv'
  BY DEF WalkersInv
<1>1. CASE UNCHANGED scriptVars
  BY <1>1, NoMonsterWalks DEF scriptVars, DelaysKept
<1>2. CASE \E s \in Script : CineThink(s)
  BY <1>2, PossessEntityWalks DEF CineThink
<1>3. CASE \E m \in Monster : Interrupt(m) \/ StartFollowing(m)
  BY <1>3 DEF Interrupt, StartFollowing
<1> QED
  BY <1>1, <1>2, <1>3, ScriptsWalk, ReachMarkWalks, ActsWalks, EventWalks, UpdateOnRemoveWalks
     DEF ScriptNext

\* m_iDelay of a script that exists, with the arrivals that DelayStart(true) had
\* not counted, is never less than the number of its concert's monsters that
\* walk: nobody starts to play while one of them does, however walks, triggers,
\* cancelled scripts and deaths interleave. Until a monster loses its script it
\* is exactly that number.
THEOREM DelayCountsWalkersAlways == ScriptSpec => []DelayCountsWalkers
<1>1. ScriptInit => WalkersInv /\ DelaysSuffice
  <2> SUFFICES ASSUME ScriptInit
               PROVE  (\A m \in Monster : WalkFits(monster[m])) /\ DelaysCount /\ DelaysSuffice
    BY DEF WalkersInv
  <2>1. \A m \in Monster : monster[m].cine = Null /\ monster[m].task = "none"
    BY DEF ScriptInit
  <2>2. \A s \in Script : Walkers(monster, s) = {}
    BY <2>1, ScriptAssumption DEF Walkers, Behind
  <2>3. \A s \in Script : Delay(s) = 0
    BY DEF ScriptInit, Delay, Names
  <2> QED
    BY <2>1, <2>2, <2>3, FS_EmptySet DEF DelaysCount, DelaysSuffice, WalkFits
<1>2. ScriptInv /\ EarlyOK /\ WalkersInv /\ DelaysSuffice /\ [ScriptNext]_scriptVars
        => WalkersInv' /\ DelaysSuffice'
  BY NextWalks, StepSuffices
<1>3. ScriptInv /\ WalkersInv /\ DelaysSuffice => DelayCountsWalkers
  <2> SUFFICES ASSUME ScriptInv, WalkersInv, DelaysSuffice, NEW s \in Script \ AIScripts,
                      script[s].think # "removed"
               PROVE  LET walkers == {m \in Monster : Walker(m) /\ s \in Concert(monster[m].cine)}
                      IN  Delay(s) >= Cardinality(walkers)
                          /\ (~disturbed => Delay(s) = Cardinality(walkers))
    BY DEF DelayCountsWalkers, Delay
  <2>1. {m \in Monster : Walker(m) /\ s \in Concert(monster[m].cine)} = Walkers(monster, s)
    BY DEF Walker, Concert, Walkers, Behind
  <2> QED
    BY <2>1 DEF WalkersInv, DelaysCount, DelaysSuffice
<1> QED
  BY <1>1, <1>2, <1>3, ScriptInvAlways, EarlyAlways, PTL DEF ScriptSpec
=============================================================================
