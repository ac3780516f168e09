---------------------------- MODULE MusicSystem ----------------------------
(***************************************************************************)
(* The client's music player (MusicSystem.cpp): the main thread queues     *)
(* jobs under m_JobMutex, a worker thread takes them with a try_lock, runs *)
(* them, feeds the OpenAL source and fades the volume.  Both threads read  *)
(* and write the flags, which are atomics.                                 *)
(*                                                                         *)
(* A step is what a thread does between two accesses the other thread can  *)
(* tell apart.  Left out: the samples, the volume itself, formats, the     *)
(* "info" command (which only prints), the moment a fade ends, and looping *)
(* (a song may end either way: the source may fail).                       *)
(***************************************************************************)
EXTENDS Naturals, Sequences

CONSTANTS
    Files,      \* names of music files
    NoFile,     \* no name
    Commands,   \* the calls the main thread makes, a subset of AllCommands
    MaxCalls    \* bound of the model on their number

AllCommands == {"on", "off", "reset", "play", "stop", "fadeout", "pause", "resume",
                "block", "unblock"}

ASSUME FilesAssumption == NoFile \notin Files
ASSUME CallsAssumption == Commands \subseteq AllCommands /\ MaxCalls \in Nat

Ops == {"StartPlaying", "Stop", "Pause", "Resume", "Block", "Unblock"}
Jobs == [op : Ops, file : Files \cup {NoFile}]
Job(op) == [op |-> op, file |-> NoFile]
NoJob == Job("Stop")   \* fills "calling" while there is no call

VARIABLES
    (* main thread *)
    mainAt,     \* "idle", or where in a call it is
    calling,    \* the job the call queues
    disables,   \* "music off": the call ends by clearing m_Enabled
    calls,      \* how many calls were made
    m_FileName,
    soundBlocked,  \* SoundSystem::m_Blocked
    (* shared *)
    m_Enabled, m_Playing, m_Paused,
    fade,       \* m_FadeStartTime: "none", "running" (to come) or "over"
    m_Quit,
    locked,     \* the main thread holds m_JobMutex
    m_Jobs,
    (* worker thread *)
    workerAt,   \* where in Run it is
    m_JobsToExecute,
    doing,      \* the job it is in
    current,    \* the file m_Info was loaded from
    m_Blocked,
    (* history *)
    wasOff      \* "music off" was called

mainVars == <<mainAt, calling, disables, calls, m_FileName, soundBlocked>>
queueVars == <<locked, m_Jobs>>
playVars == <<m_Playing, m_Paused>>
songVars == <<current, m_Blocked>>
runVars == <<workerAt, m_JobsToExecute, doing>>
(* what a step of the worker leaves alone *)
workerLeaves == <<mainVars, m_Enabled, m_Quit>>
workerVars == <<playVars, songVars, runVars>>
vars == <<workerLeaves, fade, queueVars, workerVars, wasOff>>

TypeOK ==
    /\ mainAt \in {"idle", "queue", "locked", "disable"}
    /\ calling \in Jobs
    /\ disables \in BOOLEAN
    /\ calls \in 0..MaxCalls
    /\ m_FileName \in Files \cup {NoFile}
    /\ soundBlocked \in BOOLEAN
    /\ m_Enabled \in BOOLEAN /\ m_Playing \in BOOLEAN /\ m_Paused \in BOOLEAN
    /\ fade \in {"none", "running", "over"}
    /\ m_Quit \in BOOLEAN
    /\ locked = (mainAt = "locked")
    /\ m_Jobs \in Seq(Jobs)
    /\ workerAt \in {"loop", "jobs", "job", "load", "resume", "update", "volume", "exited"}
    /\ m_JobsToExecute \in Seq(Jobs)
    /\ workerAt \in {"loop", "update", "volume", "exited"} => m_JobsToExecute = <<>>
    /\ doing \in Jobs
    /\ current \in Files \cup {NoFile}
    /\ m_Blocked \in BOOLEAN
    /\ wasOff \in BOOLEAN

(* Create has started the thread, which ends at once if it cannot have the *)
(* OpenAL context.                                                         *)
Init ==
    /\ mainAt = "idle"
    /\ calling = NoJob
    /\ disables = FALSE
    /\ calls = 0
    /\ m_FileName = NoFile
    /\ soundBlocked = FALSE
    /\ m_Enabled = TRUE
    /\ m_Playing = FALSE
    /\ m_Paused = FALSE
    /\ fade = "none"
    /\ m_Quit = FALSE
    /\ locked = FALSE
    /\ m_Jobs = <<>>
    /\ workerAt \in {"loop", "exited"}
    /\ m_JobsToExecute = <<>>
    /\ doing = NoJob
    /\ current = NoFile
    /\ m_Blocked = FALSE
    /\ wasOff = FALSE

-----------------------------------------------------------------------------
(* The main thread.                                                        *)

Call(command) ==
    /\ command \in Commands
    /\ mainAt = "idle" /\ ~m_Quit
    /\ calls < MaxCalls
    /\ calls' = calls + 1

(* RunOnWorkerThread will queue the job.                                   *)
Queueing(job) ==
    /\ mainAt' = "queue"
    /\ calling' = job

NotQueueing == UNCHANGED <<mainAt, calling>>

(* Mutant: the file is named before it is opened.                          *)
PlayNamingFirst(file) ==
    /\ Call("play")
    /\ ~((m_Playing \/ m_Paused) /\ m_FileName = file)
    /\ m_FileName' = file
    /\ \/ Queueing([op |-> "StartPlaying", file |-> file])
       \/ NotQueueing
    /\ UNCHANGED <<disables, soundBlocked, m_Enabled, m_Quit, fade, queueVars, workerVars, wasOff>>

(* Play: the file that plays is not started again, and a file that cannot  *)
(* be opened is no file.                                                   *)
Play(file) ==
    /\ Call("play")
    /\ \/ /\ (m_Playing \/ m_Paused) /\ m_FileName = file
          /\ NotQueueing /\ UNCHANGED m_FileName
       \/ /\ ~((m_Playing \/ m_Paused) /\ m_FileName = file)
          /\ m_FileName' = file
          /\ Queueing([op |-> "StartPlaying", file |-> file])
       \/ /\ ~((m_Playing \/ m_Paused) /\ m_FileName = file)
          /\ NotQueueing /\ UNCHANGED m_FileName
    /\ UNCHANGED <<disables, soundBlocked, m_Enabled, m_Quit, fade, queueVars, workerVars, wasOff>>

(* The jobs without arguments; Block and Unblock come from SoundSystem,    *)
(* which remembers which came last.                                        *)
Control(command, op) ==
    /\ Call(command)
    /\ Queueing(Job(op))
    /\ UNCHANGED <<disables, m_FileName, soundBlocked, m_Enabled, m_Quit, fade, queueVars,
                   workerVars, wasOff>>

BlockSound(command, op, blocks) ==
    /\ Call(command)
    /\ soundBlocked # blocks
    /\ soundBlocked' = blocks
    /\ Queueing(Job(op))
    /\ UNCHANGED <<disables, m_FileName, m_Enabled, m_Quit, fade, queueVars, workerVars, wasOff>>

MusicOn ==
    /\ Call("on")
    /\ m_Enabled' = TRUE
    /\ NotQueueing
    /\ UNCHANGED <<disables, m_FileName, soundBlocked, m_Quit, fade, queueVars, workerVars, wasOff>>

(* Stop(), then m_Enabled = false.                                         *)
MusicOff ==
    /\ Call("off")
    /\ Queueing(Job("Stop"))
    /\ disables' = TRUE
    /\ UNCHANGED <<m_FileName, soundBlocked, m_Enabled, m_Quit, fade, queueVars, workerVars, wasOff>>

MusicReset ==
    /\ Call("reset")
    /\ m_Enabled' = TRUE
    /\ Queueing(Job("Stop"))
    /\ UNCHANGED <<disables, m_FileName, soundBlocked, m_Quit, fade, queueVars, workerVars, wasOff>>

(* Not a job: the fade's end is stored at once.                            *)
FadeOut ==
    /\ Call("fadeout")
    /\ fade' = "running"
    /\ NotQueueing
    /\ UNCHANGED <<disables, m_FileName, soundBlocked, m_Enabled, m_Quit, queueVars, workerVars, wasOff>>

(* RunOnWorkerThread: the lock_guard's two ends.                           *)
LockJobs ==
    /\ mainAt = "queue"
    /\ mainAt' = "locked"
    /\ locked' = TRUE
    /\ UNCHANGED <<calling, disables, calls, m_FileName, soundBlocked, m_Enabled, m_Quit, fade,
                   m_Jobs, workerVars, wasOff>>

QueueJob ==
    /\ mainAt = "locked"
    /\ m_Jobs' = Append(m_Jobs, calling)
    /\ locked' = FALSE
    /\ mainAt' = IF disables THEN "disable" ELSE "idle"
    /\ calling' = NoJob
    /\ UNCHANGED <<disables, calls, m_FileName, soundBlocked, m_Enabled, m_Quit, fade, workerVars, wasOff>>

Disable ==
    /\ mainAt = "disable"
    /\ m_Enabled' = FALSE
    /\ disables' = FALSE
    /\ mainAt' = "idle"
    /\ wasOff' = TRUE
    /\ UNCHANGED <<calling, calls, m_FileName, soundBlocked, m_Quit, fade, queueVars, workerVars>>

(* ~MusicSystem; then it waits for the worker.                             *)
Quit ==
    /\ mainAt = "idle" /\ ~m_Quit
    /\ m_Quit' = TRUE
    /\ UNCHANGED <<mainVars, m_Enabled, fade, queueVars, workerVars, wasOff>>

(* Time passes.                                                            *)
FadeEnds ==
    /\ fade = "running"
    /\ fade' = "over"
    /\ UNCHANGED <<mainVars, m_Enabled, m_Quit, queueVars, workerVars, wasOff>>

-----------------------------------------------------------------------------
(* The worker thread: one turn of the loop in Run takes the queued jobs,   *)
(* runs them, and updates the source and the volume.                       *)

Worker(from, to) == workerAt = from /\ workerAt' = to

(* Mutant: the jobs are copied, not swapped.                               *)
TakeJobsCopying ==
    /\ ~m_Quit
    /\ Worker("loop", "jobs")
    /\ m_JobsToExecute' = IF locked THEN m_JobsToExecute ELSE m_Jobs
    /\ UNCHANGED <<workerLeaves, fade, queueVars, playVars, songVars, doing, wasOff>>

(* Mutant: a disabled player does not take jobs.                           *)
TakeJobsEnabled ==
    /\ ~m_Quit
    /\ Worker("loop", "jobs")
    /\ IF locked \/ ~m_Enabled
         THEN UNCHANGED <<m_Jobs, m_JobsToExecute>>
         ELSE m_Jobs' = m_JobsToExecute /\ m_JobsToExecute' = m_Jobs
    /\ UNCHANGED <<workerLeaves, fade, locked, playVars, songVars, doing, wasOff>>

(* try_lock, and the swap if it succeeds.                                  *)
TakeJobs ==
    /\ ~m_Quit
    /\ Worker("loop", "jobs")
    /\ IF locked
         THEN UNCHANGED <<m_Jobs, m_JobsToExecute>>
         ELSE m_Jobs' = m_JobsToExecute /\ m_JobsToExecute' = m_Jobs
    /\ UNCHANGED <<workerLeaves, fade, locked, playVars, songVars, doing, wasOff>>

(* Mutant: the worker leaves only between songs.                           *)
LeaveLoopBetweenSongs ==
    /\ m_Quit /\ ~m_Playing
    /\ Worker("loop", "exited")
    /\ UNCHANGED <<workerLeaves, fade, queueVars, playVars, songVars, m_JobsToExecute, doing, wasOff>>

LeaveLoop ==
    /\ m_Quit
    /\ Worker("loop", "exited")
    /\ UNCHANGED <<workerLeaves, fade, queueVars, playVars, songVars, m_JobsToExecute, doing, wasOff>>

(* The conditions with which a job's function begins.                      *)
Admitted(job) ==
    CASE job.op = "StartPlaying" -> m_Enabled
      [] job.op = "Stop" -> m_Enabled /\ (m_Playing \/ m_Paused)
      [] job.op = "Pause" -> m_Enabled /\ m_Playing
      [] job.op = "Resume" -> m_Enabled /\ m_Paused
      [] OTHER -> TRUE

BeginJob ==
    /\ workerAt = "jobs"
    /\ m_JobsToExecute # <<>>
    /\ m_JobsToExecute' = Tail(m_JobsToExecute)
    /\ IF Admitted(Head(m_JobsToExecute))
         THEN workerAt' = "job" /\ doing' = Head(m_JobsToExecute)
         ELSE UNCHANGED <<workerAt, doing>>
    /\ UNCHANGED <<workerLeaves, fade, queueVars, playVars, songVars, wasOff>>

JobsDone ==
    /\ m_JobsToExecute = <<>>
    /\ Worker("jobs", "update")
    /\ UNCHANGED <<workerLeaves, fade, queueVars, playVars, songVars, m_JobsToExecute, doing, wasOff>>

(* The body of Stop.                                                       *)
StopSource == m_Playing' = FALSE /\ m_Paused' = FALSE

RunStop ==
    /\ doing.op = "Stop"
    /\ Worker("job", "jobs")
    /\ StopSource
    /\ UNCHANGED <<fade, songVars>>

RunPause ==
    /\ doing.op = "Pause"
    /\ Worker("job", "jobs")
    /\ m_Paused' = TRUE /\ m_Playing' = FALSE
    /\ UNCHANGED <<fade, songVars>>

(* m_Paused is cleared before m_Playing is set.                            *)
RunResume ==
    /\ doing.op = "Resume"
    /\ \/ Worker("job", "resume") /\ m_Paused' = FALSE /\ UNCHANGED m_Playing
       \/ Worker("resume", "jobs") /\ m_Playing' = TRUE /\ UNCHANGED m_Paused
    /\ UNCHANGED <<fade, songVars>>

(* Unblock also updates the volume, whatever the fade.                     *)
RunBlock ==
    /\ doing.op \in {"Block", "Unblock"}
    /\ Worker("job", "jobs")
    /\ m_Blocked' = (doing.op = "Block")
    /\ IF doing.op = "Unblock" /\ fade = "over" /\ m_Enabled
         THEN StopSource
         ELSE UNCHANGED playVars
    /\ UNCHANGED <<fade, current>>

(* StartPlaying stops what plays, unless the player was disabled since,    *)
(* ends the fade, and loads the file, which may fail.                      *)
RunStartPlaying ==
    /\ doing.op = "StartPlaying"
    /\ \/ /\ Worker("job", "load")
          /\ IF m_Enabled THEN StopSource ELSE UNCHANGED playVars
          /\ fade' = "none"
          /\ UNCHANGED songVars
       \/ /\ Worker("load", "jobs")
          /\ m_Playing' = TRUE
          /\ current' = doing.file
          /\ UNCHANGED <<m_Paused, m_Blocked, fade>>

(* The file cannot be read, or the source cannot play it.                  *)
LoadFails ==
    /\ doing.op = "StartPlaying"
    /\ Worker("load", "jobs")
    /\ doing' = NoJob
    /\ IF m_Enabled THEN StopSource ELSE UNCHANGED playVars
    /\ UNCHANGED <<workerLeaves, fade, queueVars, songVars, m_JobsToExecute, wasOff>>

RunJob ==
    /\ RunStop \/ RunPause \/ RunResume \/ RunBlock \/ RunStartPlaying
    /\ doing' = IF workerAt' = "jobs" THEN NoJob ELSE doing
    /\ UNCHANGED <<workerLeaves, queueVars, m_JobsToExecute, wasOff>>

(* Update: a disabled player skips it all.  The source runs out of data    *)
(* and, unless it loops, stops; or OpenAL fails.                           *)
Update ==
    /\ Worker("update", IF m_Enabled THEN "volume" ELSE "loop")
    /\ UNCHANGED <<workerLeaves, fade, queueVars, playVars, songVars, m_JobsToExecute, doing, wasOff>>

SongEnds ==
    /\ m_Enabled /\ m_Playing
    /\ Worker("update", "loop")
    /\ StopSource
    /\ UNCHANGED <<workerLeaves, fade, queueVars, songVars, m_JobsToExecute, doing, wasOff>>

(* Mutant: paused music does not fade.                                     *)
UpdateVolumePlaying ==
    /\ Worker("volume", "loop")
    /\ IF ~m_Blocked /\ fade = "over" /\ m_Enabled /\ m_Playing
         THEN StopSource
         ELSE UNCHANGED playVars
    /\ UNCHANGED <<workerLeaves, fade, queueVars, songVars, m_JobsToExecute, doing, wasOff>>

(* UpdateVolume, unless the player is blocked: a fade that is over stops   *)
(* the music.                                                              *)
UpdateVolume ==
    /\ Worker("volume", "loop")
    /\ IF ~m_Blocked /\ fade = "over" /\ m_Enabled
         THEN StopSource
         ELSE UNCHANGED playVars
    /\ UNCHANGED <<workerLeaves, fade, queueVars, songVars, m_JobsToExecute, doing, wasOff>>

-----------------------------------------------------------------------------
MainCall ==
    \/ \E file \in Files : Play(file)
    \/ Control("stop", "Stop")
    \/ Control("pause", "Pause")
    \/ Control("resume", "Resume")
    \/ BlockSound("block", "Block", TRUE)
    \/ BlockSound("unblock", "Unblock", FALSE)
    \/ MusicOn
    \/ MusicOff
    \/ MusicReset
    \/ FadeOut

MainGoesOn == LockJobs \/ QueueJob \/ Disable

WorkerStep ==
    \/ TakeJobs
    \/ LeaveLoop
    \/ BeginJob
    \/ JobsDone
    \/ RunJob
    \/ LoadFails
    \/ Update
    \/ SongEnds
    \/ UpdateVolume

Next == MainCall \/ MainGoesOn \/ Quit \/ FadeEnds \/ WorkerStep

Spec == Init /\ [][Next]_vars

(* Both threads go on; the main thread may cease to call.                  *)
FairSpec == Spec /\ WF_vars(MainGoesOn) /\ WF_vars(WorkerStep)
-----------------------------------------------------------------------------
(* Safety.                                                                 *)

(* Neither thread has anything to do for the other.                        *)
Quiet ==
    /\ mainAt = "idle" /\ m_Jobs = <<>>
    /\ m_JobsToExecute = <<>> /\ workerAt \in {"update", "volume", "loop"}

(* The jobs of RunOnWorkerThread run in the order of the calls, each once, *)
(* though the queue changes hands by a swap that often fails.              *)
Calls == INSTANCE JobQueue WITH pending <- m_JobsToExecute \o m_Jobs

CallsInOrder == Calls!QueueSpec

(* When all calls are done, the file "music info" names is the one that    *)
(* plays (m_FileName is the main thread's, m_Info the worker's), unless    *)
(* "music off" was used: a disabled player refuses jobs for a file that is  *)
(* named already.                                                          *)
NamedFilePlays ==
    Quiet /\ ~wasOff /\ (m_Playing \/ m_Paused) => current = m_FileName

(* docs/features/sound-system.md:56: "music off" "Disables music playback  *)
(* and stops any music that is currently playing".                         *)
OffStops == Quiet /\ ~m_Enabled => ~m_Playing /\ ~m_Paused

-----------------------------------------------------------------------------
(* Liveness, under FairSpec.                                               *)

(* Every queued job is run, or dropped when the player is destroyed.       *)
JobsRun == m_Jobs # <<>> ~> (m_Jobs = <<>> /\ m_JobsToExecute = <<>>) \/ workerAt = "exited"

(* docs/features/sound-system.md:61: once its time is over, a fade stops   *)
(* the music, paused or not, unless the player is disabled or blocked.     *)
FadeStops ==
    fade = "over" ~>
        \/ ~m_Playing /\ ~m_Paused
        \/ fade # "over" \/ ~m_Enabled \/ m_Blocked \/ workerAt = "exited"

(* The destructor's join returns, whatever plays and whatever is queued.   *)
WorkerLeaves == m_Quit ~> workerAt = "exited"
=============================================================================
