----------------------------- MODULE BackupManager -----------------------------
(***************************************************************************)
(* internal/backend/backup: the Manager that queues backup operations and  *)
(* the life of one BackupOperation, from the RPC that submits it to the    *)
(* goroutine that finishes it.                                             *)
(*                                                                         *)
(* Every operation runs in three places: the RPC goroutine that calls      *)
(* Enqueue, the goroutine the worker starts for it (pc), and the goroutine *)
(* Execute leaves behind to wait for proxmox-backup-client (bg).  They     *)
(* share one mutex per job, the queue, a semaphore, executeMu, the mount   *)
(* point of the job and the owner file of the backup group.  The retries   *)
(* they arm and drop are the subject of RetryTimers.                       *)
(***************************************************************************)
EXTENDS Integers, Sequences, FiniteSets

CONSTANTS
  Jobs,           \* job IDs
  Ops,            \* backup operations, each submitted at most once
  NoOp,           \* no operation: a free mutex
  JobOf,          \* the job of an operation
  AgentJobs,      \* jobs whose target is an agent (path agent://...): they mount
  Groups,         \* backup groups: (datastore, namespace, host)
  GroupOf,        \* the group a job writes to
  NewGroups,      \* groups with no owner file yet
  QueueSize,      \* capacity of the jobs channel
  MaxConcurrent,  \* capacity of the semaphore channel
  MayFail         \* steps that may fail although the code goes on: "status" (updateJobStatus
                  \* of a running client), "owner" (the owner file), "umount" (AgentMount.Unmount)

ASSUME OpsAssumption ==
  /\ NoOp \notin Ops
  /\ JobOf \in [Ops -> Jobs]
  /\ AgentJobs \subseteq Jobs
  /\ GroupOf \in [Jobs -> Groups]
  /\ NewGroups \subseteq Groups
  /\ QueueSize \in Nat
  /\ MaxConcurrent \in Nat \ {0}
  /\ MayFail \subseteq {"status", "owner", "umount"}

VARIABLES
  pc,         \* where the operation stands: Enqueue, then its worker goroutine
  bg,         \* where the goroutine left by Execute stands
  seenClosed, \* the job mutex was looked up after Close had cleared the map
  locked,     \* job mutexes that are locked: <<job, seenClosed>>
  mu,         \* holder of Manager.mu
  queue,      \* the jobs channel
  slots,      \* tokens in the semaphore channel
  executeMu,  \* holder of Manager.executeMu
  mounted,    \* FUSE mounts on the mount path of a job, the one the path shows first
  agentMount, \* operations with a mount of their own to undo (agentMount # nil)
  client,     \* proxmox-backup-client of the operation
  saved,      \* currOwner: the group owner to put back, "none" if there is none
  owner,      \* content of the owner file of the group
  worker,     \* the worker goroutine is running
  closed,     \* Close has been called: locks cleared, ctx cancelled
  (* History, for the properties only *)
  stuck,      \* operations whose unmount failed: their mount may still be there
  ownerFailed \* groups whose owner file some operation failed to read or to write

vars == <<pc, bg, seenClosed, locked, mu, queue, slots, executeMu, mounted,
          agentMount, stuck, client, saved, owner, ownerFailed, worker, closed>>

sysVars   == <<mu, queue, slots, executeMu, worker, closed>>
lockVars  == <<locked, seenClosed>>
ownerVars == <<owner, saved, ownerFailed>>
mountVars == <<mounted, agentMount, stuck>>

-----------------------------------------------------------------------------
(* Stages of an operation. *)

EnqueueStages == {"new", "announce", "admit", "rejectClosed", "rejectFull"}
WaitStages    == {"queued", "semaphore", "executeMu"}
\* Inside Execute; executeMu is held throughout.
ExecuteStages == {"target", "mount", "prepare", "getOwner", "fixOwner", "start",
                  "restoreFirst", "detect", "status", "returnOk",
                  "unlock", "unmount", "restoreLast", "returnErr"}
AfterStages   == {"createError", "wait", "release"}
FinalStages   == {"refused", "stranded", "rejected", "aborted", "done"}
Stages == {"idle"} \cup EnqueueStages \cup WaitStages \cup ExecuteStages
            \cup AfterStages \cup FinalStages

BgStages == {"none", "client", "finish", "owner", "unmount", "unlock", "done"}

Owners  == {"none", "user", "plus"}
Clients == {"none", "running", "ended"}

\* The mutex an operation got from LoadOrStore.
Mutex(o) == <<JobOf[o], seenClosed[o]>>

IsAgent(o) == JobOf[o] \in AgentJobs

GroupOfOp(o) == GroupOf[JobOf[o]]

\* Stages in which the job mutex is locked for the goroutine pc describes.
LockStages == {"announce", "admit", "rejectClosed", "rejectFull", "stranded"}
                \cup WaitStages
                \cup (ExecuteStages \ {"unmount", "restoreLast", "returnErr", "returnOk"})

HoldsLock(o) == pc[o] \in LockStages \/ bg[o] \notin {"none", "done"}

\* Nothing will unlock it any more: Enqueue returned with the mutex locked, or the worker
\* went away with the operation in the channel.
LeftLocked(o) == pc[o] = "stranded" \/ (pc[o] = "queued" /\ ~worker)

\* Stages in which the operation owns a token of the semaphore.
SlotStages == {"executeMu"} \cup ExecuteStages \cup AfterStages

-----------------------------------------------------------------------------
Init ==
  /\ pc = [o \in Ops |-> "idle"]
  /\ bg = [o \in Ops |-> "none"]
  /\ seenClosed = [o \in Ops |-> FALSE]
  /\ locked = {}
  /\ mu = NoOp
  /\ queue = <<>>
  /\ slots = 0
  /\ executeMu = NoOp
  /\ mounted = [j \in Jobs |-> <<>>]
  /\ agentMount = {}
  /\ stuck = {}
  /\ client = [o \in Ops |-> "none"]
  /\ saved = [o \in Ops |-> "none"]
  /\ owner = [g \in Groups |-> IF g \in NewGroups THEN "none" ELSE "user"]
  /\ ownerFailed = {}
  /\ worker = TRUE
  /\ closed = FALSE

Goto(o, from, to) ==
  /\ pc[o] = from
  /\ pc' = [pc EXCEPT ![o] = to]

BgGoto(o, from, to) ==
  /\ bg[o] = from
  /\ bg' = [bg EXCEPT ![o] = to]

Unlock(o) == locked' = locked \ {Mutex(o)}

\* Nobody looks at the error: the file is then as it was, or empty if it had been truncated.
SetDatastoreOwner(o, who) ==
  \/ /\ owner' = [owner EXCEPT ![GroupOfOp(o)] = who]
     /\ UNCHANGED ownerFailed
  \/ /\ "owner" \in MayFail
     /\ \/ UNCHANGED owner
        \/ owner' = [owner EXCEPT ![GroupOfOp(o)] = "none"]
     /\ ownerFailed' = ownerFailed \cup {GroupOfOp(o)}

\* Give the group its owner back, where one was read; currOwner is not used again.
RestoreGroupOwner(o) ==
  /\ \/ saved[o] # "none" /\ SetDatastoreOwner(o, saved[o])
     \/ saved[o] = "none" /\ UNCHANGED <<owner, ownerFailed>>
  /\ saved' = [saved EXCEPT ![o] = "none"]

\* fusermount and umount take the mount the path shows, whoever made it, or none.
Unmounted(mounts) == IF mounts = <<>> THEN <<>> ELSE Tail(mounts)

\* agentMount.Unmount, where there is an agentMount: when both commands fail it returns.
UnmountOwn(o) ==
  /\ \/ /\ o \in agentMount
        /\ mounted' = [mounted EXCEPT ![JobOf[o]] = Unmounted(@)]
        /\ UNCHANGED stuck
     \/ /\ o \in agentMount
        /\ "umount" \in MayFail
        /\ stuck' = stuck \cup {o}
        /\ UNCHANGED mounted
     \/ /\ o \notin agentMount
        /\ UNCHANGED <<mounted, stuck>>
  /\ agentMount' = agentMount \ {o}

-----------------------------------------------------------------------------
(* Submission: `pbs-plus -job=X`, from the schedule, the web UI or a retry   *)
(* timer, calls JobRPCService.Queue, which calls Enqueue.                    *)

Submit(o) ==
  /\ Goto(o, "idle", "new")
  /\ UNCHANGED <<bg, sysVars, lockVars, ownerVars, mountVars, client>>

-----------------------------------------------------------------------------
(* Manager.Enqueue *)

\* locks.LoadOrStore and TryLock
TryLock(o) ==
  /\ \/ /\ <<JobOf[o], closed>> \in locked
        /\ Goto(o, "new", "refused")
        /\ UNCHANGED locked
     \/ /\ <<JobOf[o], closed>> \notin locked
        /\ Goto(o, "new", "announce")
        /\ locked' = locked \cup {<<JobOf[o], closed>>}
  /\ seenClosed' = [seenClosed EXCEPT ![o] = closed]
  /\ UNCHANGED <<bg, sysVars, ownerVars, mountVars, client>>

\* GenerateQueuedTask and the "queued" status of the row (see JobStore): neither is fatal.
Announce(o) ==
  /\ Goto(o, "announce", "admit")
  /\ UNCHANGED <<bg, sysVars, lockVars, ownerVars, mountVars, client>>

\* Under Manager.mu: the context, then the channel.  A refusal keeps mu over CreateError.
Admit(o) ==
  /\ mu = NoOp
  /\ \/ /\ closed
        /\ Goto(o, "admit", "rejectClosed")
        /\ mu' = o
        /\ UNCHANGED queue
     \/ /\ ~closed /\ Len(queue) < QueueSize
        /\ Goto(o, "admit", "queued")
        /\ queue' = Append(queue, o)
        /\ UNCHANGED mu
     \/ /\ ~closed /\ Len(queue) >= QueueSize
        /\ Goto(o, "admit", "rejectFull")
        /\ mu' = o
        /\ UNCHANGED queue
  /\ UNCHANGED <<bg, slots, executeMu, worker, closed, lockVars, ownerVars, mountVars,
                 client>>

\* CreateError, then return: nothing unlocks the job.
RejectClosed(o) ==
  /\ Goto(o, "rejectClosed", "stranded")
  /\ mu' = NoOp
  /\ UNCHANGED <<bg, queue, slots, executeMu, worker, closed, lockVars, ownerVars,
                 mountVars, client>>

\* Mutant: the operation the channel had no room for keeps its job.
RejectFullStranded(o) ==
  /\ Goto(o, "rejectFull", "rejected")
  /\ mu' = NoOp
  /\ UNCHANGED <<bg, queue, slots, executeMu, worker, closed, lockVars, ownerVars,
                 mountVars, client>>

\* CreateError, then job.lock.Unlock
RejectFull(o) ==
  /\ Goto(o, "rejectFull", "rejected")
  /\ Unlock(o)
  /\ mu' = NoOp
  /\ UNCHANGED <<bg, queue, slots, executeMu, worker, closed, seenClosed, ownerVars,
                 mountVars, client>>

Close ==
  /\ ~closed
  /\ mu = NoOp
  /\ closed' = TRUE
  /\ UNCHANGED <<pc, bg, mu, queue, slots, executeMu, worker, lockVars, ownerVars,
                 mountVars, client>>

-----------------------------------------------------------------------------
(* Manager.worker and the goroutine it starts for each operation *)

\* The worker does not look at the context first: with both ready, select may take the job.
WorkerTake ==
  /\ worker
  /\ queue # <<>>
  /\ Goto(Head(queue), "queued", "semaphore")
  /\ queue' = Tail(queue)
  /\ UNCHANGED <<bg, mu, slots, executeMu, worker, closed, lockVars, ownerVars, mountVars,
                 client>>

WorkerExit ==
  /\ worker
  /\ closed
  /\ worker' = FALSE
  /\ UNCHANGED <<pc, bg, mu, queue, slots, executeMu, closed, lockVars, ownerVars,
                 mountVars, client>>

AcquireSlot(o) ==
  /\ slots < MaxConcurrent
  /\ Goto(o, "semaphore", "executeMu")
  /\ slots' = slots + 1
  /\ UNCHANGED <<bg, mu, queue, executeMu, worker, closed, lockVars, ownerVars, mountVars,
                 client>>

Abort(o) ==
  /\ closed
  /\ Goto(o, "semaphore", "aborted")
  /\ Unlock(o)
  /\ UNCHANGED <<bg, sysVars, seenClosed, ownerVars, mountVars, client>>

\* Mutant: Execute does not wait for executeMu.
BeginExecuteAtOnce(o) ==
  /\ Goto(o, "executeMu", "target")
  /\ executeMu' = o
  /\ UNCHANGED <<bg, mu, queue, slots, worker, closed, lockVars, ownerVars, mountVars,
                 client>>

BeginExecute(o) ==
  /\ executeMu = NoOp
  /\ Goto(o, "executeMu", "target")
  /\ executeMu' = o
  /\ UNCHANGED <<bg, mu, queue, slots, worker, closed, lockVars, ownerVars, mountVars,
                 client>>

-----------------------------------------------------------------------------
(* BackupOperation.Execute *)

\* GetTarget, the mount script, the reachability check of a run without SkipCheck
GetTarget(o) ==
  /\ \/ Goto(o, "target", IF IsAgent(o) THEN "mount" ELSE "prepare")
     \/ Goto(o, "target", "unlock")
  /\ UNCHANGED <<bg, sysVars, lockVars, ownerVars, mountVars, client>>

\* mount.Mount unmounts what it finds on the path of the job, mounts over what it could
\* not unmount, and unmounts again when the mount fails or cannot be read in time.
Mount(o) ==
  LET j == JobOf[o]
      Found == {Unmounted(mounted[j])} \cup (IF "umount" \in MayFail THEN {mounted[j]} ELSE {})
  IN
  /\ \E below \in Found :
       \/ /\ Goto(o, "mount", "prepare")
          /\ mounted' = [mounted EXCEPT ![j] = <<o>> \o below]
          /\ agentMount' = agentMount \cup {o}
          /\ UNCHANGED stuck
       \/ /\ Goto(o, "mount", "unlock")
          /\ \E left \in {below, Unmounted(below)} : mounted' = [mounted EXCEPT ![j] = left]
          /\ UNCHANGED <<agentMount, stuck>>
       \/ /\ "umount" \in MayFail
          /\ Goto(o, "mount", "unlock")
          /\ mounted' = [mounted EXCEPT ![j] = <<o>> \o below]
          /\ stuck' = stuck \cup {o}
          /\ UNCHANGED agentMount
  /\ UNCHANGED <<bg, sysVars, lockVars, ownerVars, client>>

\* prepareBackupCommand, then the wait for GetJobTask to be watching the task directory
Prepare(o) ==
  /\ \/ Goto(o, "prepare", "getOwner")
     \/ Goto(o, "prepare", "unlock")
  /\ UNCHANGED <<bg, sysVars, lockVars, ownerVars, mountVars, client>>

\* When the owner cannot be read, currOwner stays empty and Execute goes on.
GetCurrentOwner(o) ==
  /\ Goto(o, "getOwner", "fixOwner")
  /\ \/ /\ saved' = [saved EXCEPT ![o] = owner[GroupOfOp(o)]]
        /\ UNCHANGED ownerFailed
     \/ /\ "owner" \in MayFail
        /\ ownerFailed' = ownerFailed \cup {GroupOfOp(o)}
        /\ UNCHANGED saved
  /\ UNCHANGED <<bg, sysVars, lockVars, owner, mountVars, client>>

FixDatastore(o) ==
  /\ Goto(o, "fixOwner", "start")
  /\ SetDatastoreOwner(o, "plus")
  /\ UNCHANGED <<bg, sysVars, lockVars, saved, mountVars, client>>

StartClient(o) ==
  /\ \/ /\ Goto(o, "start", "detect")
        /\ client' = [client EXCEPT ![o] = "running"]
     \/ /\ Goto(o, "start", "restoreFirst")
        /\ UNCHANGED client
  /\ UNCHANGED <<bg, sysVars, lockVars, ownerVars, mountVars>>

\* cmd.Start failed: the owner goes back before errCleanUp.
RestoreFirst(o) ==
  /\ Goto(o, "restoreFirst", "unlock")
  /\ RestoreGroupOwner(o)
  /\ UNCHANGED <<bg, sysVars, lockVars, mountVars, client>>

\* Mutant: a client whose task never showed up is left running.
DetectTaskWithoutKill(o) ==
  /\ \/ Goto(o, "detect", "status")
     \/ Goto(o, "detect", "unlock")
  /\ UNCHANGED <<bg, sysVars, lockVars, ownerVars, mountVars, client>>

\* A task, an error or the 20 s timeout; the last two kill the client.
DetectTask(o) ==
  /\ \/ /\ Goto(o, "detect", "status")
        /\ UNCHANGED client
     \/ /\ Goto(o, "detect", "unlock")
        /\ client' = [client EXCEPT ![o] = "ended"]
  /\ UNCHANGED <<bg, sysVars, lockVars, ownerVars, mountVars>>

\* updateJobStatus: when it fails nothing stops the client; when it succeeds the job's
\* mutex passes to the goroutine that waits for the client.
RecordStart(o) ==
  /\ \/ /\ Goto(o, "status", "returnOk")
        /\ BgGoto(o, "none", "client")
     \/ /\ "status" \in MayFail
        /\ Goto(o, "status", "unlock")
        /\ UNCHANGED bg
  /\ UNCHANGED <<sysVars, lockVars, ownerVars, mountVars, client>>

\* errCleanUp gives the mutex back first ...
CleanUpUnlock(o) ==
  /\ Goto(o, "unlock", "unmount")
  /\ Unlock(o)
  /\ UNCHANGED <<bg, sysVars, seenClosed, ownerVars, mountVars, client>>

\* ... then unmounts what Mount returned, by path, and runs the post-backup script.
CleanUpUnmount(o) ==
  /\ Goto(o, "unmount", "restoreLast")
  /\ UnmountOwn(o)
  /\ UNCHANGED <<bg, sysVars, lockVars, ownerVars, client>>

\* Mutant: a failure after the client started leaves the group to PBS Plus.
RestoreLastForgotten(o) ==
  /\ Goto(o, "restoreLast", "returnErr")
  /\ UNCHANGED <<bg, sysVars, lockVars, ownerVars, mountVars, client>>

RestoreLast(o) ==
  /\ Goto(o, "restoreLast", "returnErr")
  /\ RestoreGroupOwner(o)
  /\ UNCHANGED <<bg, sysVars, lockVars, mountVars, client>>

\* executeMu is released as soon as Execute is back.
ReturnFromExecute(o) ==
  /\ \/ Goto(o, "returnOk", "wait")
     \/ Goto(o, "returnErr", "createError")
  /\ executeMu' = NoOp
  /\ UNCHANGED <<bg, mu, queue, slots, worker, closed, lockVars, ownerVars, mountVars,
                 client>>

-----------------------------------------------------------------------------
(* After Execute *)

\* Manager.CreateError of a failed Execute: neither the job mutex nor executeMu is held.
CreateError(o) ==
  /\ Goto(o, "createError", "release")
  /\ UNCHANGED <<bg, sysVars, lockVars, ownerVars, mountVars, client>>

Wait(o) ==
  /\ bg[o] = "done"
  /\ Goto(o, "wait", "release")
  /\ UNCHANGED <<bg, sysVars, lockVars, ownerVars, mountVars, client>>

\* Mutant: the token of a finished operation is not given back.
ReleaseNothing(o) ==
  /\ Goto(o, "release", "done")
  /\ UNCHANGED <<bg, sysVars, lockVars, ownerVars, mountVars, client>>

\* The deferred function: the token, then the log of the queue task.
Release(o) ==
  /\ Goto(o, "release", "done")
  /\ slots' = slots - 1
  /\ UNCHANGED <<bg, mu, queue, executeMu, worker, closed, lockVars, ownerVars, mountVars, client>>

-----------------------------------------------------------------------------
(* The client, and the goroutine that waits for it *)

\* It ends by itself, by "connection failed" in its log, or with the context.
ClientExit(o) ==
  /\ client[o] = "running"
  /\ client' = [client EXCEPT ![o] = "ended"]
  /\ UNCHANGED <<pc, bg, sysVars, lockVars, ownerVars, mountVars>>

ClientWait(o) ==
  /\ client[o] # "running"
  /\ BgGoto(o, "client", "finish")
  /\ UNCHANGED <<pc, sysVars, lockVars, ownerVars, mountVars, client>>

\* Mutant: the job is unlocked before the mount is gone.
FinishUnlocks(o) ==
  /\ BgGoto(o, "finish", "owner")
  /\ Unlock(o)
  /\ UNCHANGED <<pc, sysVars, seenClosed, ownerVars, mountVars, client>>

\* processPBSProxyLogs decides; succeeded or cancelled ends the retries.
Finish(o) ==
  /\ BgGoto(o, "finish", "owner")
  /\ UNCHANGED <<pc, sysVars, lockVars, ownerVars, mountVars, client>>

RestoreOwner(o) ==
  /\ BgGoto(o, "owner", "unmount")
  /\ RestoreGroupOwner(o)
  /\ UNCHANGED <<pc, sysVars, lockVars, mountVars, client>>

Unmount(o) ==
  /\ BgGoto(o, "unmount", "unlock")
  /\ UnmountOwn(o)
  /\ UNCHANGED <<pc, sysVars, lockVars, ownerVars, client>>

\* After the post-backup script: the deferred Unlock, then wg.Done.
BgUnlock(o) ==
  /\ BgGoto(o, "unlock", "done")
  /\ Unlock(o)
  /\ UNCHANGED <<pc, sysVars, seenClosed, ownerVars, mountVars, client>>

-----------------------------------------------------------------------------
\* What the goroutines of one operation do once it has been submitted
Step(o) ==
  \/ TryLock(o) \/ Announce(o) \/ Admit(o) \/ RejectClosed(o) \/ RejectFull(o)
  \/ AcquireSlot(o) \/ Abort(o) \/ BeginExecute(o)
  \/ GetTarget(o) \/ Mount(o) \/ Prepare(o) \/ GetCurrentOwner(o) \/ FixDatastore(o)
  \/ StartClient(o) \/ RestoreFirst(o) \/ DetectTask(o) \/ RecordStart(o)
  \/ CleanUpUnlock(o) \/ CleanUpUnmount(o) \/ RestoreLast(o) \/ ReturnFromExecute(o)
  \/ CreateError(o) \/ Wait(o) \/ Release(o)

BgStep(o) ==
  ClientWait(o) \/ Finish(o) \/ RestoreOwner(o) \/ Unmount(o) \/ BgUnlock(o)

\* Every operation is over, or will stay in a queue nobody reads.
Terminated ==
  /\ \A o \in Ops : \/ pc[o] \in FinalStages
                    \/ pc[o] = "queued" /\ ~worker
  /\ \A o \in Ops : client[o] # "running"

Next ==
  \/ \E o \in Ops : Submit(o) \/ Step(o) \/ BgStep(o) \/ ClientExit(o)
  \/ WorkerTake \/ WorkerExit \/ Close
  \/ Terminated /\ UNCHANGED vars

Spec == Init /\ [][Next]_vars

(***************************************************************************)
(* Fairness.  The goroutines run, Go's mutexes and channels serve their    *)
(* waiters in order, the scripts end, GetJobTask gives up after 20 s, and  *)
(* proxmox-backup-client ends.  Nobody has to submit or to close anything. *)
(***************************************************************************)
Fairness ==
  /\ \A o \in Ops : WF_vars(Step(o)) /\ WF_vars(BgStep(o)) /\ WF_vars(ClientExit(o))
  /\ WF_vars(WorkerTake) /\ WF_vars(WorkerExit)

FairSpec == Spec /\ Fairness
-----------------------------------------------------------------------------
(* Properties *)

TypeOK ==
  /\ pc \in [Ops -> Stages]
  /\ bg \in [Ops -> BgStages]
  /\ seenClosed \in [Ops -> BOOLEAN]
  /\ locked \subseteq (Jobs \X BOOLEAN)
  /\ mu \in Ops \cup {NoOp}
  /\ queue \in Seq(Ops)
  /\ slots \in Int
  /\ executeMu \in Ops \cup {NoOp}
  /\ mounted \in [Jobs -> Seq(Ops)]
  /\ agentMount \subseteq Ops
  /\ stuck \subseteq Ops
  /\ client \in [Ops -> Clients]
  /\ saved \in [Ops -> Owners]
  /\ owner \in [Groups -> Owners]
  /\ worker \in BOOLEAN
  /\ closed \in BOOLEAN
  /\ ownerFailed \subseteq Groups

\* A locked job mutex has one operation that is still to unlock it: none is unlocked twice,
\* unlocked for somebody else or left locked on one of the dozen ways an operation can end
\* (manager.go 55-85 and 101-104, jobrun.go 159-161 and 362-366).  Two of them do leave it
\* locked, both only after Close: Enqueue on a closed manager (manager.go 76-79) returns
\* without the Unlock of its sibling, and the worker goes away with operations in the
\* channel (91-92).
LockAccount ==
  /\ \A o \in Ops : HoldsLock(o) => Mutex(o) \in locked
  /\ \A m \in locked : \E o \in Ops :
       HoldsLock(o) /\ Mutex(o) = m /\ (LeftLocked(o) => closed)
  /\ \A o, p \in Ops : HoldsLock(o) /\ HoldsLock(p) /\ Mutex(o) = Mutex(p) => o = p

\* Execute runs for one operation at a time, the one executeMu belongs to
\* (manager.go 116-120).
ExecuteExclusive ==
  \A o \in Ops : pc[o] \in ExecuteStages <=> executeMu = o

\* The mount an operation made is what the path of its job shows until that operation takes
\* it down, although the error path unlocks the job first and every Mount and Unmount works
\* on the path and not on a mount; what else is on the path, below, was left there by an
\* unmount that failed (jobrun.go 155-172 and 428-431, mount.go 43-45 and 133-151).
MountIntact ==
  /\ \A o \in agentMount : mounted[JobOf[o]] # <<>> /\ Head(mounted[JobOf[o]]) = o
  /\ \A j \in Jobs : \A i \in 1..Len(mounted[j]) :
       mounted[j][i] \in stuck \/ (i = 1 /\ mounted[j][i] \in agentMount)

\* The tokens in the semaphore are those of the operations that took one and have not
\* given it back, and there are never more than maxConcurrentJobs (manager.go 101-115).
SlotAccount ==
  /\ slots = Cardinality({o \in Ops : pc[o] \in SlotStages})
  /\ slots <= MaxConcurrent

\* The channel holds each operation that waits in it once and nothing else, and never
\* blocks an Enqueue (manager.go 81-86).
QueueSound ==
  /\ \A o \in Ops : pc[o] = "queued" <=> \E i \in 1..Len(queue) : queue[i] = o
  /\ \A i, k \in 1..Len(queue) : queue[i] = queue[k] => i = k
  /\ Len(queue) <= QueueSize

\* A running client belongs to an operation that owns its job, and reads from that
\* operation's mount (jobrun.go 301-366).  It does not survive a failure of
\* updateJobStatus: see OneClientPerJob.
ClientCovered ==
  \A o \in Ops : client[o] = "running" =>
    HoldsLock(o) /\ (IsAgent(o) => mounted[JobOf[o]] # <<>> /\ Head(mounted[JobOf[o]]) = o)

\* "a job is still running; only one instance allowed" (jobrun.go 28): two
\* proxmox-backup-clients never run for one job.  True while updateJobStatus works: when it
\* fails (jobrun.go 345) nothing stops the client, and the job is unlocked.
OneClientPerJob ==
  \A o, p \in Ops :
    client[o] = "running" /\ client[p] = "running" /\ JobOf[o] = JobOf[p] => o = p

\* What an operation can do by itself, or have done by the goroutine it waits for: a wait
\* for Manager.mu, the worker, the semaphore, executeMu or the wait group is over.
Blocking == {"admit", "queued", "semaphore", "executeMu", "wait"}

CanStep(o) ==
  \/ pc[o] \notin {"idle"} \cup Blocking \cup FinalStages
  \/ pc[o] = "admit" /\ mu = NoOp
  \/ pc[o] = "queued" /\ worker /\ Head(queue) = o
  \/ pc[o] = "semaphore" /\ (slots < MaxConcurrent \/ closed)
  \/ pc[o] = "executeMu" /\ executeMu = NoOp
  \/ pc[o] = "wait" /\ bg[o] = "done"
  \/ bg[o] \notin {"none", "done"}

\* p keeps o where it is.
WaitsFor(o, p) ==
  \/ pc[o] = "admit" /\ p = mu
  \/ pc[o] = "queued" /\ p = Head(queue)
  \/ pc[o] = "semaphore" /\ pc[p] \in SlotStages
  \/ pc[o] = "executeMu" /\ p = executeMu

\* No operation waits in vain: one that has been submitted and is not over can go on, or
\* waits for another that can, whatever the three locks, the channel and the semaphore
\* are held by (manager.go 69-86, 101-120, 131).  Only a worker that Close stopped leaves
\* operations behind, in the channel.
NobodyStuck ==
  \A o \in Ops : pc[o] \notin {"idle"} \cup FinalStages =>
    \/ CanStep(o)
    \/ \E p \in Ops : WaitsFor(o, p) /\ CanStep(p)
    \/ pc[o] = "queued" /\ ~worker

\* Operations that hold the owner they read and have not come to give it back
OwesOwner(o) ==
  /\ saved[o] = "user"
  /\ \/ pc[o] \in {"fixOwner", "start", "restoreFirst", "detect", "status", "unlock",
                   "unmount", "restoreLast"}
     \/ bg[o] \in {"client", "finish", "owner"}

\* One job writes to the group: jobs that share a host, a store and a namespace share it.
OneWriter(g) == \A j, k \in Jobs : GroupOf[j] = g /\ GroupOf[k] = g => j = k

\* While a group belongs to PBS Plus, an operation knows whom it belonged to and is still
\* to give it back: two runs of the job never read each other's owner, on no error path,
\* although errCleanUp unlocks the job before the owner is restored (jobrun.go 159-161,
\* 286-304, 327-351 and 424-426).  The one way to lose an owner is an owner file that could
\* not be read (286-289) or written (291, 304, 328, 340, 348, 425): Execute ignores that.
OwnerOwed ==
  \A g \in Groups \ (NewGroups \cup ownerFailed) : OneWriter(g) /\ owner[g] = "plus" =>
    \E o \in Ops : GroupOfOp(o) = g /\ OwesOwner(o)

-----------------------------------------------------------------------------
(* What makes the invariants above inductive *)

\* The goroutine Execute leaves behind exists from its return to the end of Wait.
BgInv ==
  \A o \in Ops :
    /\ bg[o] # "none" => pc[o] \in {"returnOk", "wait", "release", "done"}
    /\ pc[o] \in {"returnOk", "wait"} => bg[o] # "none"
    /\ pc[o] \in {"release", "done"} => bg[o] \in {"none", "done"}

\* An operation that got past Enqueue has its mutex from the map Close has not cleared; what
\* leaves a mutex locked happens after Close.
MutexInv ==
  /\ ~worker => closed
  /\ \A o \in Ops :
    /\ seenClosed[o] => closed
    /\ pc[o] \in {"rejectClosed", "stranded"} => closed
    /\ pc[o] \in {"idle"} \cup WaitStages \cup ExecuteStages \cup AfterStages => ~seenClosed[o]

\* Every owner of a mutex counted, those that will never unlock it as well
LockOwned ==
  /\ \A o \in Ops : HoldsLock(o) => Mutex(o) \in locked
  /\ \A m \in locked : \E o \in Ops : HoldsLock(o) /\ Mutex(o) = m
  /\ \A o, p \in Ops : HoldsLock(o) /\ HoldsLock(p) /\ Mutex(o) = Mutex(p) => o = p

\* Stages between Mount and the unmount of an operation
MountedStages == {"prepare", "getOwner", "fixOwner", "start", "restoreFirst", "detect",
                  "status", "unlock", "unmount"}
MountedBgStages == {"client", "finish", "owner", "unmount"}

\* Whoever has a mount is inside Execute, and holds executeMu, or has left it, and holds
\* the mutex of its job: whoever comes to Mount holds both.
MountInv ==
  /\ MountIntact
  /\ \A j \in Jobs : \A i \in 1..Len(mounted[j]) : JobOf[mounted[j][i]] = j
  /\ \A o \in agentMount : pc[o] \in MountedStages \/ bg[o] \in MountedBgStages

\* Where a client may run when no status update fails, and where an operation of an agent
\* job still has its mount
ClientInv ==
  \A o \in Ops :
    /\ client[o] = "running" => pc[o] \in {"detect", "status"} \/ bg[o] = "client"
    /\ IsAgent(o) /\ (\/ pc[o] \in {"prepare", "getOwner", "fixOwner", "start", "detect",
                                   "status"}
                    \/ bg[o] \in MountedBgStages)
       => o \in agentMount

\* Manager.mu is held beyond one step by a refusal only.
MuInv == \A o \in Ops : pc[o] \in {"rejectClosed", "rejectFull"} <=> mu = o

\* Nobody reads "plus" for the owner of a group that had one before, while its owner file
\* can be read and written.
OwnerInv ==
  /\ OwnerOwed
  /\ \A g \in Groups \ (NewGroups \cup ownerFailed) : owner[g] # "none"
  /\ \A o \in Ops : GroupOfOp(o) \notin NewGroups \cup ownerFailed /\ OneWriter(GroupOfOp(o)) =>
       /\ saved[o] # "plus"
       /\ pc[o] = "fixOwner" => saved[o] = "user"

IInv ==
  TypeOK /\ ExecuteExclusive /\ BgInv /\ MutexInv /\ LockOwned /\ MountInv

-----------------------------------------------------------------------------
(* The manager implements JobExclusion. *)

Phase(o) ==
  CASE HoldsLock(o)                -> "admitted"
    [] pc[o] \in {"idle", "new"}   -> "new"
    [] pc[o] = "refused"           -> "refused"
    [] OTHER                       -> "gone"

Abstract == INSTANCE JobExclusion WITH
  phase <- [o \in Ops |-> Phase(o)],
  using <- agentMount,
  open  <- ~closed

\* Every step of the manager is a step of JobExclusion or none: a job is refused only
\* while another operation of it is admitted, and only an admitted one mounts.
ImplementsJobExclusion == Abstract!Spec

-----------------------------------------------------------------------------
(* Liveness, under Fairness *)

\* An operation the channel accepted comes to its end, unless the worker left it behind:
\* no wait for the semaphore, for executeMu, for the client or for the wait group is for
\* ever (manager.go 88-132).
Completes ==
  \A o \in Ops : pc[o] = "queued" ~> \/ pc[o] \in {"done", "aborted"}
                                     \/ pc[o] = "queued" /\ ~worker
=============================================================================
