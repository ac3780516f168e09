------------------------------ MODULE JobQueue ------------------------------
(***************************************************************************)
(* What MusicSystem::RunOnWorkerThread promises its callers, without locks *)
(* or threads: jobs are run one at a time, in the order they were sent.    *)
(***************************************************************************)
EXTENDS Sequences

CONSTANT Jobs

VARIABLE pending   \* the jobs sent and not yet begun

QueueInit == pending = <<>>

Send(job) == pending' = Append(pending, job)

Begin == pending # <<>> /\ pending' = Tail(pending)

QueueNext == Begin \/ \E job \in Jobs : Send(job)

QueueSpec == QueueInit /\ [][QueueNext]_pending
=============================================================================
