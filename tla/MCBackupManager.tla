---------------------------- MODULE MCBackupManager ----------------------------
(***************************************************************************)
(* Instances of BackupManager for TLC: three operations over two jobs, so  *)
(* that one job is submitted twice (refused, or run after the first one)   *)
(* while the other competes for the queue, the semaphore and executeMu.    *)
(***************************************************************************)
EXTENDS BackupManager, TLC

CONSTANTS o1, o2, o3, agentJob, localJob, g1, g2

MCJobs == {agentJob, localJob}
MCOps == {o1, o2, o3}
MCJobOf == (o1 :> agentJob) @@ (o2 :> agentJob) @@ (o3 :> localJob)

\* One backup group per job
MCGroups == {g1, g2}
MCGroupOf == (agentJob :> g1) @@ (localJob :> g2)

\* The two operations of the agent job are interchangeable.
OpSymmetry == Permutations({o1, o2})
=============================================================================
