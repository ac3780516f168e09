------------------------- MODULE MusicSystemProofs -------------------------
(***************************************************************************)
(* The types of MusicSystem, and that its two vectors of jobs are one      *)
(* queue: a swap moves jobs only when the worker has none left, so taking  *)
(* them never reorders, repeats or loses one.                              *)
(* Then that the file named last is the one that plays at last.            *)
(***************************************************************************)
EXTENDS MusicSystem, SequenceTheorems, TLAPS

USE FilesAssumption, CallsAssumption

(* The initial state has the types, whether or not the thread could start. *)
LEMMA InitTypeOK == Init => TypeOK
<1> SUFFICES ASSUME Init PROVE TypeOK
  OBVIOUS
<1>1. NoJob \in Jobs
  BY DEF NoJob, Job, Jobs, Ops
<1>2. locked = (mainAt = "locked")
  BY DEF Init
<1>3. calls \in 0..MaxCalls /\ m_Jobs \in Seq(Jobs) /\ m_JobsToExecute \in Seq(Jobs)
  BY DEF Init
<1>4. QED
  BY <1>1, <1>2, <1>3 DEF Init, TypeOK

(* A call of the main thread begins, and queues a job or none.             *)
LEMMA MainCallTypeOK == ASSUME TypeOK, MainCall PROVE TypeOK'
<1> USE DEF TypeOK, Call, Queueing, NotQueueing, Jobs, Job, Ops, queueVars, workerVars,
            playVars, songVars, runVars
<1>1. ASSUME NEW file \in Files, Play(file) PROVE TypeOK'
  BY <1>1 DEF Play
<1>2. ASSUME NEW command, NEW op \in Ops, Control(command, op) PROVE TypeOK'
  BY <1>2 DEF Control
<1>3. ASSUME NEW command, NEW op \in Ops, NEW blocks \in BOOLEAN, BlockSound(command, op, blocks)
      PROVE  TypeOK'
  BY <1>3 DEF BlockSound
<1>4. ASSUME MusicOn PROVE TypeOK'
  BY <1>4 DEF MusicOn
<1>5. ASSUME MusicOff PROVE TypeOK'
  BY <1>5 DEF MusicOff
<1>6. ASSUME MusicReset PROVE TypeOK'
  BY <1>6 DEF MusicReset
<1>7. ASSUME FadeOut PROVE TypeOK'
  BY <1>7 DEF FadeOut
<1> HIDE DEF TypeOK
<1>8. QED
  BY <1>1, <1>2, <1>3, <1>4, <1>5, <1>6, <1>7 DEF MainCall

(* The mutex is held exactly between the two ends of the lock_guard.       *)
LEMMA MainGoesOnTypeOK == ASSUME TypeOK, MainGoesOn \/ Quit \/ FadeEnds PROVE TypeOK'
<1> USE DEF TypeOK, queueVars, workerVars, playVars, songVars, runVars, mainVars
<1>1. ASSUME LockJobs PROVE TypeOK'
  <2>1. locked' = (mainAt' = "locked")
    BY <1>1 DEF LockJobs
  <2>2. QED
    BY <1>1, <2>1 DEF LockJobs
<1>2. ASSUME QueueJob PROVE TypeOK'
  <2>1. m_Jobs' \in Seq(Jobs)
    BY <1>2, AppendProperties DEF QueueJob
  <2>2. NoJob \in Jobs
    BY DEF NoJob, Job, Jobs, Ops
  <2>3. mainAt' \in {"idle", "disable"} /\ locked' = (mainAt' = "locked")
    BY <1>2 DEF QueueJob
  <2>4. QED
    BY <1>2, <2>1, <2>2, <2>3 DEF QueueJob
<1>3. ASSUME Disable PROVE TypeOK'
  <2>1. m_Enabled' \in BOOLEAN /\ disables' \in BOOLEAN /\ locked' = (mainAt' = "locked")
    BY <1>3 DEF Disable
  <2>2. QED
    BY <1>3, <2>1 DEF Disable
<1>4. ASSUME Quit PROVE TypeOK'
  BY <1>4 DEF Quit
<1>5. ASSUME FadeEnds PROVE TypeOK'
  BY <1>5 DEF FadeEnds
<1> HIDE DEF TypeOK
<1>6. QED
  BY <1>1, <1>2, <1>3, <1>4, <1>5 DEF MainGoesOn

(* The worker leaves the vector it runs empty before it takes the next.    *)
LEMMA WorkerStepTypeOK == ASSUME TypeOK, WorkerStep PROVE TypeOK'
<1> USE DEF TypeOK, Worker, StopSource, queueVars, playVars, songVars, runVars, mainVars, workerLeaves
<1>0. NoJob \in Jobs
  BY DEF NoJob, Job, Jobs, Ops
<1>1. ASSUME TakeJobs PROVE TypeOK'
  <2>1. CASE locked
    BY <1>1, <2>1 DEF TakeJobs
  <2>2. CASE ~locked
    BY <1>1, <2>2 DEF TakeJobs
  <2>3. QED
    BY <2>1, <2>2
<1>2. ASSUME LeaveLoop PROVE TypeOK'
  BY <1>2 DEF LeaveLoop
<1>3. ASSUME BeginJob PROVE TypeOK'
  <2>1. Head(m_JobsToExecute) \in Jobs /\ m_JobsToExecute' \in Seq(Jobs)
    BY <1>3, HeadTailProperties DEF BeginJob
  <2>2. QED
    BY <1>3, <2>1 DEF BeginJob
<1>4. ASSUME JobsDone PROVE TypeOK'
  BY <1>4 DEF JobsDone
<1>5. ASSUME RunJob PROVE TypeOK'
  <2>1. doing' \in Jobs
    BY <1>0, <1>5 DEF RunJob
  <2>2. doing.file \in Files \cup {NoFile}
    BY DEF Jobs
  <2>3. ASSUME RunStop PROVE TypeOK'
    <3>1. m_Playing' \in BOOLEAN /\ m_Paused' \in BOOLEAN
      BY <2>3 DEF RunStop
    <3>2. workerAt' = "jobs" /\ UNCHANGED <<fade, current, m_Blocked>>
      BY <2>3 DEF RunStop
    <3>3. QED
      BY <1>5, <2>1, <3>1, <3>2 DEF RunJob
  <2>4. ASSUME RunPause PROVE TypeOK'
    <3>1. m_Playing' \in BOOLEAN /\ m_Paused' \in BOOLEAN
      BY <2>4 DEF RunPause
    <3>2. workerAt' = "jobs" /\ UNCHANGED <<fade, current, m_Blocked>>
      BY <2>4 DEF RunPause
    <3>3. QED
      BY <1>5, <2>1, <3>1, <3>2 DEF RunJob
  <2>5. ASSUME RunResume PROVE TypeOK'
    <3>1. m_Playing' \in BOOLEAN /\ m_Paused' \in BOOLEAN
      BY <2>5 DEF RunResume
    <3>2. workerAt' \in {"resume", "jobs"}
      BY <2>5 DEF RunResume
    <3>3. QED
      BY <1>5, <2>1, <2>5, <3>1, <3>2 DEF RunJob, RunResume
  <2>6. ASSUME RunBlock PROVE TypeOK'
    <3>1. m_Playing' \in BOOLEAN /\ m_Paused' \in BOOLEAN /\ m_Blocked' \in BOOLEAN
      BY <2>6 DEF RunBlock
    <3>2. QED
      BY <1>5, <2>1, <2>6, <3>1 DEF RunJob, RunBlock
  <2>7. ASSUME RunStartPlaying PROVE TypeOK'
    <3>1. m_Playing' \in BOOLEAN /\ m_Paused' \in BOOLEAN
      BY <2>7 DEF RunStartPlaying
    <3>2. CASE workerAt = "job"
      BY <1>5, <2>1, <2>7, <3>1, <3>2 DEF RunJob, RunStartPlaying
    <3>3. CASE workerAt = "load"
      BY <1>5, <2>1, <2>2, <2>7, <3>1, <3>3 DEF RunJob, RunStartPlaying
    <3>4. QED
      BY <2>7, <3>2, <3>3 DEF RunStartPlaying
  <2>8. QED
    BY <1>5, <2>3, <2>4, <2>5, <2>6, <2>7 DEF RunJob
<1>6. ASSUME LoadFails PROVE TypeOK'
  <2>1. m_Playing' \in BOOLEAN /\ m_Paused' \in BOOLEAN
    BY <1>6 DEF LoadFails
  <2>2. QED
    BY <1>0, <1>6, <2>1 DEF LoadFails
<1>7. ASSUME Update PROVE TypeOK'
  <2>1. CASE m_Enabled
    BY <1>7, <2>1 DEF Update
  <2>2. CASE ~m_Enabled
    BY <1>7, <2>2 DEF Update
  <2>3. QED
    BY <2>1, <2>2
<1>8. ASSUME SongEnds PROVE TypeOK'
  BY <1>8 DEF SongEnds
<1>9. ASSUME UpdateVolume PROVE TypeOK'
  <2>1. m_Playing' \in BOOLEAN /\ m_Paused' \in BOOLEAN
    BY <1>9 DEF UpdateVolume
  <2>2. QED
    BY <1>9, <2>1 DEF UpdateVolume
<1> HIDE DEF TypeOK
<1>10. QED
  BY <1>1, <1>2, <1>3, <1>4, <1>5, <1>6, <1>7, <1>8, <1>9 DEF WorkerStep

(* Every step keeps the types.                                             *)
LEMMA NextTypeOK == ASSUME TypeOK, [Next]_vars PROVE TypeOK'
<1>1. CASE UNCHANGED vars
  BY <1>1 DEF vars, TypeOK, workerLeaves, mainVars, queueVars, workerVars, playVars, songVars, runVars
<1>2. QED
  BY <1>1, MainCallTypeOK, MainGoesOnTypeOK, WorkerStepTypeOK DEF Next

(* Type correctness, the mutex and the worker's empty vector included.     *)
THEOREM TypeCorrect == Spec => []TypeOK
<1>1. Init => TypeOK
  BY InitTypeOK
<1>2. TypeOK /\ [Next]_vars => TypeOK'
  BY NextTypeOK
<1>3. QED
  BY <1>1, <1>2, PTL DEF Spec

-----------------------------------------------------------------------------
(* Queueing behind a concatenation is queueing behind its second part.     *)
LEMMA AppendConcat ==
  ASSUME NEW S, NEW s \in Seq(S), NEW t \in Seq(S), NEW e \in S
  PROVE  s \o Append(t, e) = Append(s \o t, e)
<1>1. Append(t, e) = t \o <<e>> /\ <<e>> \in Seq(S)
  BY AppendIsConcat
<1>2. s \o t \in Seq(S)
  BY ConcatProperties
<1>3. Append(s \o t, e) = (s \o t) \o <<e>>
  BY <1>2, AppendIsConcat
<1>4. QED
  BY <1>1, <1>3, ConcatAssociative

(* Taking from a concatenation is taking from its first part.              *)
LEMMA TailConcat ==
  ASSUME NEW S, NEW s \in Seq(S), NEW t \in Seq(S), s # <<>>
  PROVE  s \o t # <<>> /\ Tail(s \o t) = Tail(s) \o t
<1> DEFINE c == s \o t
           d == Tail(s) \o t
<1>1. c \in Seq(S) /\ c # <<>>
  BY ConcatProperties, ConcatEqualIffEmpty
<1>2. Tail(s) \in Seq(S) /\ Len(Tail(s)) = Len(s) - 1
  BY HeadTailProperties
<1>3. \A i \in 1..Len(Tail(s)) : Tail(s)[i] = s[i + 1]
  BY HeadTailProperties
<1>4. Tail(c) \in Seq(S) /\ Len(Tail(c)) = Len(c) - 1
  BY <1>1, HeadTailProperties
<1>5. \A i \in 1..Len(Tail(c)) : Tail(c)[i] = c[i + 1]
  BY <1>1, HeadTailProperties
<1>6. Len(c) = Len(s) + Len(t)
  BY ConcatProperties
<1>7. \A i \in 1..Len(s) + Len(t) : c[i] = IF i <= Len(s) THEN s[i] ELSE t[i - Len(s)]
  BY ConcatProperties
<1>8. d \in Seq(S) /\ Len(d) = Len(Tail(s)) + Len(t)
  BY <1>2, ConcatProperties
<1>9. \A i \in 1..Len(Tail(s)) + Len(t) :
         d[i] = IF i <= Len(Tail(s)) THEN Tail(s)[i] ELSE t[i - Len(Tail(s))]
  BY <1>2, ConcatProperties
<1>10. Len(s) \in Nat /\ Len(t) \in Nat
  BY LenProperties
<1> HIDE DEF c, d
<1>11. Len(Tail(c)) = Len(d)
  BY <1>2, <1>4, <1>6, <1>8, <1>10
<1>12. ASSUME NEW i \in 1..Len(d) PROVE Tail(c)[i] = d[i]
  <2>1. Tail(c)[i] = c[i + 1]
    BY <1>5, <1>11
  <2>2. i \in Nat /\ i >= 1 /\ i + 1 \in 1..Len(s) + Len(t) /\ i \in 1..Len(Tail(s)) + Len(t)
    BY <1>2, <1>8, <1>10
  <2>3. CASE i + 1 <= Len(s)
    <3>1. i \in 1..Len(Tail(s)) /\ i <= Len(Tail(s))
      BY <1>2, <1>10, <2>2, <2>3
    <3>2. d[i] = s[i + 1]
      BY <1>3, <1>9, <2>2, <3>1
    <3>3. c[i + 1] = s[i + 1]
      BY <1>7, <2>2, <2>3
    <3>4. QED
      BY <2>1, <3>2, <3>3
  <2>4. CASE ~(i + 1 <= Len(s))
    <3>1. ~(i <= Len(Tail(s))) /\ i - Len(Tail(s)) = i + 1 - Len(s)
      BY <1>2, <1>10, <2>2, <2>4
    <3>2. d[i] = t[i - Len(Tail(s))]
      BY <1>9, <2>2, <3>1
    <3>3. c[i + 1] = t[i + 1 - Len(s)]
      BY <1>7, <2>2, <2>4
    <3>4. QED
      BY <2>1, <3>1, <3>2, <3>3
  <2>5. QED
    BY <2>3, <2>4
<1>13. Tail(c) = d
  BY <1>4, <1>8, <1>11, <1>12, SeqEqual
<1>14. QED
  BY <1>1, <1>13 DEF c, d

(* Every step of the two threads sends a job, begins one, or does neither: *)
(* a swap finds the worker's vector empty.                                 *)
LEMMA NextQueue == ASSUME TypeOK, [Next]_vars PROVE [Calls!QueueNext]_(m_JobsToExecute \o m_Jobs)
<1> USE DEF queueVars, workerVars, playVars, songVars, runVars, mainVars, workerLeaves
<1>1. m_Jobs \in Seq(Jobs) /\ m_JobsToExecute \in Seq(Jobs) /\ calling \in Jobs
  BY DEF TypeOK
<1>2. workerAt = "loop" => m_JobsToExecute = <<>>
  BY DEF TypeOK
<1>3. ASSUME UNCHANGED <<m_Jobs, m_JobsToExecute>>
      PROVE  UNCHANGED (m_JobsToExecute \o m_Jobs)
  BY <1>3
<1>4. CASE UNCHANGED vars
  BY <1>3, <1>4 DEF vars
<1>5. CASE MainCall
  BY <1>3, <1>5
     DEF MainCall, Play, Control, BlockSound, MusicOn, MusicOff, MusicReset, FadeOut
<1>6. CASE QueueJob
  <2>1. m_Jobs' = Append(m_Jobs, calling) /\ m_JobsToExecute' = m_JobsToExecute
    BY <1>6 DEF QueueJob
  <2>2. Calls!Send(calling)
    BY <1>1, <2>1, AppendConcat DEF Calls!Send
  <2>3. QED
    BY <1>1, <2>2 DEF Calls!QueueNext
<1>7. CASE LockJobs \/ Disable
  BY <1>3, <1>7 DEF LockJobs, Disable
<1>8. CASE Quit \/ FadeEnds
  BY <1>3, <1>8 DEF Quit, FadeEnds
<1>9. CASE TakeJobs
  <2>1. m_JobsToExecute = <<>>
    BY <1>2, <1>9 DEF TakeJobs, Worker
  <2>2. \/ m_Jobs' = m_Jobs /\ m_JobsToExecute' = m_JobsToExecute
        \/ m_Jobs' = <<>> /\ m_JobsToExecute' = m_Jobs
    BY <1>9, <2>1 DEF TakeJobs
  <2>3. QED
    BY <1>1, <2>1, <2>2, ConcatEmptySeq
<1>10. CASE BeginJob
  <2>1. m_JobsToExecute # <<>> /\ m_JobsToExecute' = Tail(m_JobsToExecute) /\ m_Jobs' = m_Jobs
    BY <1>10 DEF BeginJob
  <2>2. Calls!Begin
    BY <1>1, <2>1, TailConcat DEF Calls!Begin
  <2>3. QED
    BY <2>2 DEF Calls!QueueNext
<1>11. CASE LeaveLoop \/ JobsDone \/ RunJob \/ LoadFails \/ Update \/ SongEnds \/ UpdateVolume
  BY <1>3, <1>11 DEF LeaveLoop, JobsDone, RunJob, LoadFails, Update, SongEnds, UpdateVolume
<1>12. QED
  BY <1>4, <1>5, <1>6, <1>7, <1>8, <1>9, <1>10, <1>11 DEF Next, MainGoesOn, WorkerStep

(* The jobs run in the order in which they were sent, each once: the two   *)
(* threads' vectors implement JobQueue.                                    *)
THEOREM CallsInOrderAlways == Spec => CallsInOrder
<1>1. Init => Calls!QueueInit
  <2>1. <<>> \in Seq(Jobs) /\ <<>> \o <<>> = <<>>
    BY EmptySeq, ConcatEmptySeq
  <2>2. QED
    BY <2>1 DEF Init, Calls!QueueInit
<1>2. TypeOK /\ [Next]_vars => [Calls!QueueNext]_(m_JobsToExecute \o m_Jobs)
  BY NextQueue
<1>3. QED
  BY <1>1, <1>2, TypeCorrect, PTL DEF Spec, CallsInOrder, Calls!QueueSpec

-----------------------------------------------------------------------------
(* The file that is named.  On its way from the main thread to the source  *)
(* a name is in the call, in one of the vectors, in the job that runs, and *)
(* at last in what plays: the last one on the way is always m_FileName.    *)

NoStart(s) == \A i \in 1..Len(s) : s[i].op # "StartPlaying"

LastIsNamed(s) ==
    \A i \in 1..Len(s) :
        s[i].op = "StartPlaying" /\ (\A j \in 1..Len(s) : j > i => s[j].op # "StartPlaying")
            => s[i].file = m_FileName

Sent == mainAt \notin {"queue", "locked"} \/ calling.op # "StartPlaying"

Starting == doing.op = "StartPlaying" /\ workerAt \in {"job", "load"}

MayPlay ==
    \/ m_Playing \/ m_Paused
    \/ doing.op \in {"Pause", "Resume"} /\ workerAt \in {"job", "resume"}

LastStartNamed ==
    /\ ~Sent => calling.file = m_FileName
    /\ Sent => LastIsNamed(m_Jobs)
    /\ Sent /\ NoStart(m_Jobs) => LastIsNamed(m_JobsToExecute)
    /\ Sent /\ NoStart(m_Jobs) /\ NoStart(m_JobsToExecute) =>
         /\ Starting => doing.file = m_FileName
         /\ ~Starting /\ MayPlay => current = m_FileName

NamedInv == ~wasOff => m_Enabled /\ LastStartNamed

(* Queueing another job than a start changes neither.                      *)
LEMMA AppendNamed ==
    ASSUME NEW s \in Seq(Jobs), NEW job \in Jobs
    PROVE  /\ job.op # "StartPlaying" /\ LastIsNamed(s) => LastIsNamed(Append(s, job))
           /\ job.op # "StartPlaying" /\ NoStart(Append(s, job)) => NoStart(s)
           /\ job.op = "StartPlaying" => ~NoStart(Append(s, job))
           /\ job.op = "StartPlaying" /\ job.file = m_FileName => LastIsNamed(Append(s, job))
<1> DEFINE t == Append(s, job)
<1>1. Len(s) \in Nat /\ Len(t) = Len(s) + 1
  BY AppendProperties
<1>2. (\A i \in 1..Len(s) : t[i] = s[i]) /\ t[Len(s) + 1] = job
  BY AppendProperties
<1> HIDE DEF t
<1>3. job.op # "StartPlaying" /\ LastIsNamed(s) => LastIsNamed(t)
  <2> SUFFICES ASSUME job.op # "StartPlaying", LastIsNamed(s),
                      NEW i \in 1..Len(t), t[i].op = "StartPlaying",
                      \A j \in 1..Len(t) : j > i => t[j].op # "StartPlaying"
               PROVE  t[i].file = m_FileName
    BY DEF LastIsNamed
  <2>1. i \in 1..Len(s)
    BY <1>1, <1>2
  <2>2. \A j \in 1..Len(s) : j > i => s[j].op # "StartPlaying"
    BY <1>1, <1>2
  <2>3. QED
    BY <1>2, <2>1, <2>2 DEF LastIsNamed
<1>4. job.op # "StartPlaying" /\ NoStart(t) => NoStart(s)
  BY <1>1, <1>2 DEF NoStart
<1>5. job.op = "StartPlaying" => ~NoStart(t)
  BY <1>1, <1>2 DEF NoStart
<1>6. job.op = "StartPlaying" /\ job.file = m_FileName => LastIsNamed(t)
  <2> SUFFICES ASSUME job.op = "StartPlaying", job.file = m_FileName,
                      NEW i \in 1..Len(t), t[i].op = "StartPlaying",
                      \A j \in 1..Len(t) : j > i => t[j].op # "StartPlaying"
               PROVE  t[i].file = m_FileName
    BY DEF LastIsNamed
  <2>1. i = Len(s) + 1
    BY <1>1, <1>2
  <2>2. QED
    BY <1>2, <2>1
<1> QED
  BY <1>3, <1>4, <1>5, <1>6 DEF t

(* Taking the first job leaves the last start where it is, unless it is    *)
(* the one that was taken.                                                 *)
LEMMA TailNamed ==
    ASSUME NEW s \in Seq(Jobs), s # <<>>
    PROVE  /\ LastIsNamed(s) => LastIsNamed(Tail(s))
           /\ Head(s).op # "StartPlaying" /\ NoStart(Tail(s)) => NoStart(s)
           /\ Head(s).op = "StartPlaying" /\ NoStart(Tail(s)) /\ LastIsNamed(s)
                  => Head(s).file = m_FileName
<1> DEFINE t == Tail(s)
<1>1. Len(s) \in Nat \ {0} /\ Len(t) = Len(s) - 1
  BY HeadTailProperties, EmptySeq
<1>2. \A i \in 1..Len(t) : t[i] = s[i + 1]
  BY HeadTailProperties
<1>3. Head(s) = s[1]
  BY HeadTailProperties
<1> HIDE DEF t
<1>4. \A i \in 1..Len(s) : i = 1 \/ (i - 1 \in 1..Len(t) /\ t[i - 1] = s[i])
  BY <1>1, <1>2
<1>5. LastIsNamed(s) => LastIsNamed(t)
  <2> SUFFICES ASSUME LastIsNamed(s), NEW i \in 1..Len(t), t[i].op = "StartPlaying",
                      \A j \in 1..Len(t) : j > i => t[j].op # "StartPlaying"
               PROVE  t[i].file = m_FileName
    BY DEF LastIsNamed
  <2>1. i + 1 \in 1..Len(s) /\ t[i] = s[i + 1]
    BY <1>1, <1>2
  <2>2. ASSUME NEW j \in 1..Len(s), j > i + 1
        PROVE  s[j].op # "StartPlaying"
    <3>1. j - 1 \in 1..Len(t) /\ j - 1 > i /\ t[j - 1] = s[j]
      BY <1>1, <1>4, <2>2
    <3>2. QED
      BY <3>1
  <2>3. QED
    BY <2>1, <2>2 DEF LastIsNamed
<1>6. Head(s).op # "StartPlaying" /\ NoStart(t) => NoStart(s)
  BY <1>3, <1>4 DEF NoStart
<1>7. Head(s).op = "StartPlaying" /\ NoStart(t) /\ LastIsNamed(s) => Head(s).file = m_FileName
  <2> SUFFICES ASSUME s[1].op = "StartPlaying", NoStart(t), LastIsNamed(s)
               PROVE  s[1].file = m_FileName
    BY <1>3
  <2>1. 1 \in 1..Len(s)
    BY <1>1
  <2>2. \A j \in 1..Len(s) : j > 1 => s[j].op # "StartPlaying"
    BY <1>4 DEF NoStart
  <2>3. QED
    BY <2>1, <2>2 DEF LastIsNamed
<1> QED
  BY <1>5, <1>6, <1>7 DEF t

(* No job is the last.                                                     *)
LEMMA EmptyNamed == NoStart(<<>>) /\ LastIsNamed(<<>>)
  BY DEF NoStart, LastIsNamed

(* Nothing of what the invariant speaks of changes.                        *)
LEMMA NamedFrame ==
    ASSUME LastStartNamed,
           UNCHANGED <<mainAt, calling, m_FileName, m_Jobs, m_JobsToExecute, current>>,
           Starting' <=> Starting, Starting' => doing' = doing,
           MayPlay' => MayPlay
    PROVE  LastStartNamed'
  BY DEF LastStartNamed, Sent, NoStart, LastIsNamed, Starting

(* The main thread's calls: a start is queued with the name it sets.       *)
LEMMA MainCallNamed ==
    ASSUME TypeOK, ~wasOff, m_Enabled, LastStartNamed, MainCall
    PROVE  ~wasOff' /\ m_Enabled' /\ LastStartNamed'
<1> USE DEF queueVars, workerVars, playVars, songVars, runVars
<1>1. mainAt = "idle"
  BY DEF MainCall, Play, Control, BlockSound, MusicOn, MusicOff, MusicReset, FadeOut, Call
<1>2. UNCHANGED <<m_Jobs, m_JobsToExecute, doing, workerAt, m_Playing, m_Paused, current, wasOff>>
  BY DEF MainCall, Play, Control, BlockSound, MusicOn, MusicOff, MusicReset, FadeOut
<1>3. m_Enabled'
  BY DEF MainCall, Play, Control, BlockSound, MusicOn, MusicOff, MusicReset, FadeOut
<1>4. Starting' = Starting /\ MayPlay' = MayPlay
  BY <1>2 DEF Starting, MayPlay
<1>5. CASE UNCHANGED <<mainAt, calling, m_FileName>>
  BY <1>2, <1>3, <1>4, <1>5, NamedFrame
<1>6. CASE UNCHANGED m_FileName /\ \E op \in Ops \ {"StartPlaying"} : Queueing(Job(op))
  <2>1. Sent /\ Sent'
    BY <1>1, <1>6 DEF Sent, Queueing, Job
  <2>2. QED
    BY <1>2, <1>3, <1>4, <1>6, <2>1 DEF LastStartNamed, NoStart, LastIsNamed, Starting
<1>7. CASE \E file \in Files : m_FileName' = file /\ Queueing([op |-> "StartPlaying", file |-> file])
  <2>1. ~Sent' /\ calling'.file = m_FileName'
    BY <1>7 DEF Sent, Queueing
  <2>2. QED
    BY <1>2, <1>3, <2>1 DEF LastStartNamed
<1>8. QED
  BY <1>5, <1>6, <1>7
     DEF MainCall, Play, Control, BlockSound, MusicOn, MusicOff, MusicReset, FadeOut,
         NotQueueing, Ops

(* The main thread's other steps: a start reaches the vector as the last.  *)
LEMMA MainGoesOnNamed ==
    ASSUME TypeOK, NamedInv, MainGoesOn \/ Quit \/ FadeEnds
    PROVE  NamedInv'
<1> USE DEF queueVars, workerVars, playVars, songVars, runVars, mainVars
<1>1. CASE Disable
  BY <1>1 DEF Disable, NamedInv
<1>2. CASE LockJobs \/ QueueJob \/ Quit \/ FadeEnds
  <2> SUFFICES ASSUME ~wasOff'
               PROVE  m_Enabled' /\ LastStartNamed'
    BY DEF NamedInv
  <2>1. UNCHANGED <<m_FileName, m_JobsToExecute, doing, workerAt, m_Playing, m_Paused, current,
                    wasOff, m_Enabled>>
    BY <1>2 DEF LockJobs, QueueJob, Quit, FadeEnds
  <2>2. m_Enabled /\ LastStartNamed
    BY <2>1 DEF NamedInv
  <2>3. Starting' = Starting /\ MayPlay' = MayPlay
    BY <2>1 DEF Starting, MayPlay
  <2>4. CASE Quit \/ FadeEnds
    BY <2>1, <2>2, <2>3, <2>4, NamedFrame DEF Quit, FadeEnds
  <2>5. CASE LockJobs
    <3>1. Sent' = Sent /\ UNCHANGED <<calling, m_Jobs>>
      BY <2>5 DEF LockJobs, Sent
    <3>2. QED
      BY <2>1, <2>2, <2>3, <3>1 DEF LastStartNamed, NoStart, LastIsNamed, Starting
  <2>6. CASE QueueJob
    <3>1. m_Jobs \in Seq(Jobs) /\ calling \in Jobs
      BY DEF TypeOK
    <3>2. Sent' /\ m_Jobs' = Append(m_Jobs, calling) /\ mainAt = "locked"
      BY <2>6 DEF QueueJob, Sent
    <3>3. LastIsNamed(m_Jobs')
      BY <2>2, <3>1, <3>2, AppendNamed DEF LastStartNamed, Sent
    <3>4. LastIsNamed(m_Jobs)' = LastIsNamed(m_Jobs') /\ NoStart(m_Jobs)' = NoStart(m_Jobs')
      BY <2>1 DEF LastIsNamed, NoStart
    <3>5. NoStart(m_Jobs') => Sent /\ NoStart(m_Jobs)
      BY <3>1, <3>2, AppendNamed DEF Sent
    <3>6. QED
      BY <2>1, <2>2, <2>3, <3>2, <3>3, <3>4, <3>5 DEF LastStartNamed, NoStart, LastIsNamed, Starting
  <2> QED
    BY <1>2, <2>4, <2>5, <2>6
<1> QED
  BY <1>1, <1>2 DEF MainGoesOn

(* The worker takes the vector: what was the last start in it still is.    *)
LEMMA TakeJobsNamed ==
    ASSUME TypeOK, ~wasOff, m_Enabled, LastStartNamed, TakeJobs
    PROVE  LastStartNamed'
<1> USE DEF Worker, workerLeaves, mainVars, playVars, songVars
<1>1. UNCHANGED <<mainAt, calling, m_FileName, doing, m_Playing, m_Paused, current>>
  BY DEF TakeJobs
<1>2. ~Starting /\ ~Starting' /\ (MayPlay' => MayPlay)
  BY <1>1 DEF TakeJobs, Starting, MayPlay
<1>3. CASE UNCHANGED <<m_Jobs, m_JobsToExecute>>
  BY <1>1, <1>2, <1>3, NamedFrame
<1>4. CASE m_Jobs' = m_JobsToExecute /\ m_JobsToExecute' = m_Jobs
  <2>1. m_JobsToExecute = <<>>
    BY DEF TypeOK, TakeJobs
  <2>2. m_Jobs' = <<>> /\ m_JobsToExecute' = m_Jobs
    BY <1>4, <2>1
  <2>3. /\ LastIsNamed(m_Jobs)' /\ NoStart(m_Jobs)'
        /\ LastIsNamed(m_JobsToExecute)' = LastIsNamed(m_Jobs)
        /\ NoStart(m_JobsToExecute)' = NoStart(m_Jobs)
    BY <1>1, <2>2, EmptyNamed DEF LastIsNamed, NoStart
  <2>4. LastIsNamed(m_JobsToExecute) /\ NoStart(m_JobsToExecute)
    BY <2>1, EmptyNamed
  <2>5. Sent' = Sent
    BY <1>1 DEF Sent
  <2>6. QED
    BY <1>1, <1>2, <2>3, <2>4, <2>5 DEF LastStartNamed, Sent
<1>5. QED
  BY <1>3, <1>4 DEF TakeJobs

(* It takes a job: an enabled player admits every start.                   *)
LEMMA BeginJobNamed ==
    ASSUME TypeOK, ~wasOff, m_Enabled, LastStartNamed, BeginJob
    PROVE  LastStartNamed'
<1> USE DEF workerLeaves, mainVars, queueVars, playVars, songVars
<1> DEFINE job == Head(m_JobsToExecute)
<1>1. UNCHANGED <<mainAt, calling, m_FileName, m_Jobs, m_Playing, m_Paused, current>>
  BY DEF BeginJob
<1>2. m_JobsToExecute \in Seq(Jobs) /\ m_JobsToExecute # <<>>
  BY DEF TypeOK, BeginJob
<1>3. m_JobsToExecute' = Tail(m_JobsToExecute) /\ workerAt = "jobs" /\ ~Starting
  BY DEF BeginJob, Starting
<1>4. /\ LastIsNamed(m_JobsToExecute)' = LastIsNamed(Tail(m_JobsToExecute))
      /\ NoStart(m_JobsToExecute)' = NoStart(Tail(m_JobsToExecute))
      /\ LastIsNamed(m_Jobs)' = LastIsNamed(m_Jobs)
      /\ NoStart(m_Jobs)' = NoStart(m_Jobs)
      /\ Sent' = Sent
  BY <1>1, <1>3 DEF LastIsNamed, NoStart, Sent
<1>5. /\ LastIsNamed(m_JobsToExecute) => LastIsNamed(Tail(m_JobsToExecute))
      /\ job.op # "StartPlaying" /\ NoStart(Tail(m_JobsToExecute)) => NoStart(m_JobsToExecute)
      /\ job.op = "StartPlaying" /\ NoStart(Tail(m_JobsToExecute)) /\ LastIsNamed(m_JobsToExecute)
             => job.file = m_FileName
  BY <1>2, TailNamed
<1>6. CASE job.op = "StartPlaying"
  <2>1. Starting' /\ doing' = job
    BY <1>6 DEF BeginJob, Admitted, Starting
  <2> HIDE DEF job
  <2>2. QED
    BY <1>1, <1>4, <1>5, <1>6, <2>1 DEF LastStartNamed, Sent
<1>7. CASE job.op # "StartPlaying"
  <2>1. ~Starting'
    BY <1>3, <1>7 DEF BeginJob, Starting
  <2>2. MayPlay' => MayPlay
    <3>1. CASE Admitted(job)
      <4>1. doing' = job /\ workerAt' = "job"
        BY <3>1 DEF BeginJob
      <4>2. job.op \in {"Pause", "Resume"} => m_Playing \/ m_Paused
        BY <3>1 DEF Admitted
      <4>3. QED
        BY <1>1, <4>1, <4>2 DEF MayPlay
    <3>2. CASE ~Admitted(job)
      BY <1>1, <3>2 DEF BeginJob, MayPlay
    <3>3. QED
      BY <3>1, <3>2
  <2> HIDE DEF job
  <2>3. QED
    BY <1>1, <1>3, <1>4, <1>5, <1>7, <2>1, <2>2 DEF LastStartNamed, Sent
<1>8. QED
  BY <1>6, <1>7

(* It runs one: only a start that has come to its end changes what plays.  *)
LEMMA RunJobNamed ==
    ASSUME TypeOK, ~wasOff, m_Enabled, LastStartNamed, RunJob
    PROVE  LastStartNamed'
<1> USE DEF Worker, workerLeaves, mainVars, queueVars, playVars, songVars, StopSource
<1>1. UNCHANGED <<mainAt, calling, m_FileName, m_Jobs, m_JobsToExecute>>
  BY DEF RunJob
<1>2. doing' = IF workerAt' = "jobs" THEN NoJob ELSE doing
  BY DEF RunJob
<1>3. NoJob.op = "Stop"
  BY DEF NoJob, Job
<1>4. CASE RunStop \/ RunPause \/ RunResume \/ RunBlock
  <2>1. UNCHANGED current
    BY <1>4 DEF RunStop, RunPause, RunResume, RunBlock
  <2>2. ~Starting /\ ~Starting'
    BY <1>2, <1>3, <1>4 DEF RunStop, RunPause, RunResume, RunBlock, Starting
  <2>3. MayPlay' => MayPlay
    BY <1>2, <1>3, <1>4 DEF RunStop, RunPause, RunResume, RunBlock, MayPlay
  <2>4. QED
    BY <1>1, <2>1, <2>2, <2>3, NamedFrame
<1>5. CASE RunStartPlaying /\ Worker("job", "load")
  <2>1. Starting /\ Starting' /\ doing' = doing
    BY <1>2, <1>5 DEF RunStartPlaying, Starting
  <2>2. QED
    BY <1>1, <2>1 DEF LastStartNamed, Sent, NoStart, LastIsNamed
<1>6. CASE RunStartPlaying /\ Worker("load", "jobs")
  <2>1. Starting /\ ~Starting' /\ current' = doing.file
    BY <1>2, <1>3, <1>6 DEF RunStartPlaying, Starting
  <2>2. QED
    BY <1>1, <2>1 DEF LastStartNamed, Sent, NoStart, LastIsNamed
<1>7. QED
  BY <1>4, <1>5, <1>6 DEF RunJob, RunStartPlaying

(* The worker: its other steps stop the music or leave it alone.           *)
LEMMA WorkerStepNamed ==
    ASSUME TypeOK, NamedInv, WorkerStep
    PROVE  NamedInv'
<1> USE DEF Worker, workerLeaves, mainVars, queueVars, playVars, songVars, StopSource
<1> SUFFICES ASSUME ~wasOff'
             PROVE  m_Enabled' /\ LastStartNamed'
  BY DEF NamedInv
<1>1. UNCHANGED <<wasOff, m_Enabled>>
  BY DEF WorkerStep, TakeJobs, LeaveLoop, BeginJob, JobsDone, RunJob, LoadFails, Update, SongEnds,
         UpdateVolume
<1>2. ~wasOff /\ m_Enabled /\ LastStartNamed
  BY <1>1 DEF NamedInv
<1>3. CASE LeaveLoop \/ JobsDone \/ Update \/ SongEnds \/ UpdateVolume
  <2>1. UNCHANGED <<mainAt, calling, m_FileName, m_Jobs, m_JobsToExecute, current, doing>>
    BY <1>3 DEF LeaveLoop, JobsDone, Update, SongEnds, UpdateVolume
  <2>2. ~Starting /\ ~Starting'
    BY <1>3 DEF LeaveLoop, JobsDone, Update, SongEnds, UpdateVolume, Starting
  <2>3. MayPlay' => MayPlay
    BY <1>3 DEF LeaveLoop, JobsDone, Update, SongEnds, UpdateVolume, MayPlay
  <2>4. QED
    BY <1>1, <1>2, <2>1, <2>2, <2>3, NamedFrame
<1>4. CASE LoadFails
  <2>1. UNCHANGED <<mainAt, calling, m_FileName, m_Jobs, m_JobsToExecute>>
    BY <1>4 DEF LoadFails
  <2>2. ~Starting' /\ ~MayPlay'
    BY <1>2, <1>4 DEF LoadFails, Starting, MayPlay
  <2>3. QED
    BY <1>1, <1>2, <2>1, <2>2 DEF LastStartNamed, Sent, NoStart, LastIsNamed
<1>5. QED
  BY <1>1, <1>2, <1>3, <1>4, TakeJobsNamed, BeginJobNamed, RunJobNamed DEF WorkerStep

LEMMA NextNamed == ASSUME TypeOK, NamedInv, [Next]_vars PROVE NamedInv'
<1>1. CASE MainCall
  <2>1. wasOff' = wasOff
    BY <1>1 DEF MainCall, Play, Control, BlockSound, MusicOn, MusicOff, MusicReset, FadeOut
  <2>2. QED
    BY <1>1, <2>1, MainCallNamed DEF NamedInv
<1>2. CASE UNCHANGED vars
  BY <1>2 DEF NamedInv, LastStartNamed, Sent, NoStart, LastIsNamed, Starting, MayPlay, vars,
     workerLeaves, mainVars, queueVars, workerVars, playVars, songVars, runVars
<1>3. QED
  BY <1>1, <1>2, MainGoesOnNamed, WorkerStepNamed DEF Next

(* Once both threads are at rest, what plays is the file "music info"      *)
(* names, as long as "music off" was not used: of the names on their way   *)
(* the last one is always m_FileName, whatever the two threads' order.     *)
THEOREM NamedFilePlaysAlways == Spec => []NamedFilePlays
<1>1. Init => NamedInv
  <2> SUFFICES ASSUME Init PROVE m_Enabled /\ LastStartNamed
    BY DEF NamedInv
  <2>1. Sent /\ ~Starting /\ ~MayPlay
    BY DEF Init, Sent, Starting, MayPlay
  <2>2. QED
    BY <2>1, EmptyNamed DEF Init, LastStartNamed
<1>2. TypeOK /\ NamedInv /\ [Next]_vars => NamedInv'
  BY NextNamed
<1>3. TypeOK /\ NamedInv => NamedFilePlays
  <2> SUFFICES ASSUME TypeOK, NamedInv, Quiet, ~wasOff, m_Playing \/ m_Paused
               PROVE  current = m_FileName
    BY DEF NamedFilePlays
  <2>1. Sent /\ ~Starting /\ MayPlay
    BY DEF Quiet, Sent, Starting, MayPlay
  <2>2. NoStart(m_Jobs) /\ NoStart(m_JobsToExecute)
    BY EmptyNamed DEF Quiet
  <2>3. QED
    BY <2>1, <2>2 DEF NamedInv, LastStartNamed
<1>4. QED
  BY <1>1, <1>2, <1>3, TypeCorrect, PTL DEF Spec
=============================================================================
