------------------------------ MODULE AgentBackups ------------------------------
(***************************************************************************)
(* The backups of one Windows host, from the mount client of a backup      *)
(* operation to the child process that serves the files.                   *)
(*                                                                         *)
(* The operation asks the server's mount service, which calls the agent's  *)
(* main process over the session of the host; the agent forks a child that *)
(* connects for itself (key "host|job"), takes a snapshot and prints its   *)
(* mode; the service mounts the file system of whatever session the key    *)
(* has.  Cleanup asks the agent to end the child and then closes the       *)
(* session of the host.  Any connection can fail at any time, any call can *)
(* time out, the agent's main process can restart and leave its children.  *)
(***************************************************************************)
EXTENDS Naturals

CONSTANTS
  Jobs, Procs,   \* jobs of the host; child processes
  NoJob, NoProc,
  MaxFaults      \* bound: lost connections, calls that time out, restarts of the agent

ASSUME BackupsAssumption == NoJob \notin Jobs /\ NoProc \notin Procs /\ MaxFaults \in Nat

VARIABLES
  op,        \* stage of the job's backup operation
  own,       \* the child the operation called for; in "quit", the one Cleanup ends
  exec,      \* the job that holds executeMu
  sess,      \* ARPCSessionManager at "host|job"
  conns,     \* activeConns at "host|job": the session a mounted file system uses
  mnt,       \* the session the operation's mount reads from
  host,      \* the session of the host is up
  pids,      \* activePids
  child,     \* the child processes
  snapshot,  \* the process that made the snapshot at the path of the job
  store,     \* the file of the BackupStore
  abandoned, \* history: jobs with a cause for a child to be left behind
  cut,       \* history: children killed, or disconnected before they could serve
  faults     \* faults so far

serverVars == <<op, own, exec, sess, conns, mnt>>
mainVars == <<host, pids>>
diskVars == <<snapshot, store>>
history == <<abandoned, cut, faults>>
backupVars == <<serverVars, mainVars, child, diskVars, history>>

OpStages == {"idle", "call", "answered", "mounted", "running", "cleanup", "quit"}
ChildStages == {"none", "start", "joined", "snap", "made", "ready", "gone", "failed"}
NoChild == [job |-> NoJob, stage |-> "none", mode |-> "none", conn |-> "none",
            serves |-> NoProc, serving |-> TRUE, torn |-> FALSE, waits |-> FALSE]
Started(j) == [NoChild EXCEPT !.job = j, !.stage = "start", !.waits = TRUE]

BackupsInit ==
  /\ op = [j \in Jobs |-> "idle"] /\ own = [j \in Jobs |-> NoProc] /\ exec = NoJob
  /\ sess = [j \in Jobs |-> NoProc] /\ conns = [j \in Jobs |-> NoProc]
  /\ mnt = [j \in Jobs |-> NoProc]
  /\ host = TRUE /\ pids = [j \in Jobs |-> NoProc]
  /\ child = [p \in Procs |-> NoChild]
  /\ snapshot = [j \in Jobs |-> NoProc] /\ store = {}
  /\ abandoned = {} /\ cut = {} /\ faults = 0

Live(p) == child[p].stage \notin {"none", "gone", "failed"}
ChildrenOf(j) == {p \in Procs : Live(p) /\ child[p].job = j}
Calls(j) == ChildrenOf(j) \cup {p \in Procs : child[p].waits /\ child[p].job = j}
Goto(j, from, to) == op[j] = from /\ op' = [op EXCEPT ![j] = to]
Release(j) == exec' = IF exec = j THEN NoJob ELSE exec
Fault == faults < MaxFaults /\ faults' = faults + 1
Abandon(j) == abandoned' = abandoned \cup {j}

-----------------------------------------------------------------------------
(* The operation and the mount service *)

\* Mount: "backup" is called on the session of the host, which forks a child.  executeMu
\* serialises the operations of all jobs up to the start of their clients.
Backup(j, p) ==
  /\ exec = NoJob /\ host /\ child[p].stage = "none"
  /\ Goto(j, "idle", "call")
  /\ exec' = j
  /\ own' = [own EXCEPT ![j] = p]
  /\ child' = [child EXCEPT ![p] = Started(j)]
  /\ abandoned' = IF Calls(j) = {} THEN abandoned \ {j} ELSE abandoned
  /\ UNCHANGED <<sess, conns, mnt, mainVars, diskVars, cut, faults>>

\* CallContext gives up after five minutes, or with the connection: the agent goes on.
CallFails(j) ==
  /\ Fault /\ Goto(j, "call", "cleanup")
  /\ Abandon(j)
  /\ UNCHANGED <<own, exec, sess, conns, mnt, mainVars, child, diskVars, cut>>

\* Mutant: the file system is made for the child that was called for, connected or not.
CreateARPCFSUnchecked(j) ==
  /\ Goto(j, "answered", "mounted")
  /\ conns' = [conns EXCEPT ![j] = sess[j]]
  /\ mnt' = [mnt EXCEPT ![j] = sess[j]]
  /\ UNCHANGED <<own, exec, sess, mainVars, child, diskVars, history>>

\* The session of the child is looked up, registered with its file system and mounted; the
\* mount itself may fail.
CreateARPCFS(j) ==
  /\ \/ Goto(j, "answered", "mounted") /\ sess[j] # NoProc
     \/ Goto(j, "answered", "cleanup")
  /\ conns' = [conns EXCEPT ![j] = IF sess[j] = NoProc THEN @ ELSE sess[j]]
  /\ mnt' = [mnt EXCEPT ![j] = sess[j]]
  /\ UNCHANGED <<own, exec, sess, mainVars, child, diskVars, history>>

\* The rest of Execute: the client is started, or something fails.
StartClient(j) ==
  /\ Goto(j, "mounted", "running")
  /\ Release(j)
  /\ UNCHANGED <<own, sess, conns, mnt, mainVars, child, diskVars, history>>

ExecuteFails(j) ==
  /\ Goto(j, "mounted", "cleanup")
  /\ UNCHANGED <<own, exec, sess, conns, mnt, mainVars, child, diskVars, history>>

\* Mutant: Status asks for the session of the host alone.
StatusOfHost(j) == host

\* MountRPCService.Status asks for the session of the host and for that of the child.
Status(j) == host /\ sess[j] # NoProc

\* The answers IsConnected can give: that of Status, and FALSE when the call itself fails.
IsConnected(j) == {Status(j), FALSE}

\* The client has ended: IsConnected decides here whether the backup may count as a success.
ClientEnds(j) ==
  /\ Goto(j, "running", "cleanup")
  /\ UNCHANGED <<own, exec, sess, conns, mnt, mainVars, child, diskVars, history>>

OpDone(j) ==
  /\ op' = [op EXCEPT ![j] = "idle"]
  /\ own' = [own EXCEPT ![j] = NoProc]
  /\ mnt' = [mnt EXCEPT ![j] = NoProc]
  /\ Release(j)

\* Unmount, then Cleanup: the host cannot be reached ...
CleanupUnreachable(j) ==
  /\ op[j] = "cleanup" /\ ~host
  /\ OpDone(j)
  /\ Abandon(j)
  /\ UNCHANGED <<sess, conns, mainVars, child, diskVars, cut, faults>>

\* ... or the call fails: the agent has not heard of it, the session of the host stays ...
CleanupFails(j) ==
  /\ op[j] = "cleanup" /\ host /\ Fault
  /\ OpDone(j)
  /\ Abandon(j)
  /\ UNCHANGED <<sess, conns, mainVars, child, diskVars, cut>>

\* ... the agent knows of no child: it answers at once, and the session of the host is closed ...
CleanupNothing(j) ==
  /\ op[j] = "cleanup" /\ host /\ pids[j] = NoProc
  /\ OpDone(j)
  /\ host' = FALSE
  /\ UNCHANGED <<sess, conns, pids, child, diskVars, history>>

\* Mutant: the agent forgets its child and does not end it.
BackupCloseForgets(j) ==
  /\ op[j] = "cleanup" /\ host /\ pids[j] # NoProc
  /\ OpDone(j)
  /\ pids' = [pids EXCEPT ![j] = NoProc]
  /\ host' = FALSE
  /\ UNCHANGED <<sess, conns, child, diskVars, history>>

\* ... or it asks its child to quit and waits for it (BackupCloseHandler).
BackupClose(j) ==
  /\ host /\ pids[j] # NoProc
  /\ Goto(j, "cleanup", "quit")
  /\ own' = [own EXCEPT ![j] = pids[j]]
  /\ pids' = [pids EXCEPT ![j] = NoProc]
  /\ UNCHANGED <<exec, sess, conns, mnt, host, child, diskVars, history>>

\* Mutant: the agent answers without waiting for its child.
CleanupAnsweredAtOnce(j) ==
  /\ op[j] = "quit"
  /\ OpDone(j)
  /\ host' = FALSE
  /\ UNCHANGED <<sess, conns, pids, child, diskVars, history>>

\* The answer, after which the session of the host is closed; it stays when the answer does
\* not arrive or is an error.
CleanupAnswered(j) ==
  /\ op[j] = "quit" /\ ~Live(own[j])
  /\ OpDone(j)
  /\ \/ host' = FALSE /\ UNCHANGED faults
     \/ Fault /\ UNCHANGED host
  /\ UNCHANGED <<sess, conns, pids, child, diskVars, abandoned, cut>>

OpStep(j) ==
  \/ CreateARPCFS(j) \/ StartClient(j) \/ ExecuteFails(j) \/ ClientEnds(j)
  \/ CleanupUnreachable(j) \/ CleanupFails(j) \/ CleanupNothing(j) \/ BackupClose(j)
  \/ CleanupAnswered(j)

-----------------------------------------------------------------------------
(* The handlers of the children's connections (detailed in SessionManager) *)

Starting(p) == child[p].stage \in {"joined", "snap", "made"} /\ child[p].conn = "open"
Hang(ps) == [p \in Procs |-> IF p \in ps /\ child[p].conn = "open"
                             THEN [child[p] EXCEPT !.conn = "lost"] ELSE child[p]]

\* GetOrCreateSession: a session that is still there is served in place of the new one.
Register(p) ==
  LET j == child[p].job
      s == IF sess[j] = NoProc THEN p ELSE sess[j]
  IN /\ child[p].conn # "none" /\ child[p].serves = NoProc
     /\ sess' = [sess EXCEPT ![j] = s]
     /\ child' = [child EXCEPT ![p].serves = s]
     /\ UNCHANGED <<op, own, exec, conns, mnt, mainVars, diskVars, history>>

\* Serve has ended: CloseSession and DisconnectSession close what the key has by now.
HandlerEnds(p) ==
  LET j == child[p].job
  IN /\ child[p].serves \in Procs /\ child[child[p].serves].conn = "lost"
     /\ sess' = [sess EXCEPT ![j] = NoProc]
     /\ conns' = [conns EXCEPT ![j] = NoProc]
     /\ child' = [Hang({sess[j], conns[j]}) EXCEPT ![p].serves = NoJob]
     /\ cut' = cut \cup {q \in {sess[j], conns[j]} \ {NoProc} : Starting(q)}
     /\ UNCHANGED <<op, own, exec, mnt, mainVars, diskVars, abandoned, faults>>

-----------------------------------------------------------------------------
(* The child *)

At(p, from) == child[p].stage = from
Step(p, to) == child' = [child EXCEPT ![p].stage = to]

ConnectToServer(p) ==
  /\ At(p, "start")
  /\ \/ child' = [child EXCEPT ![p].stage = "joined", ![p].conn = "open"]
     \/ Step(p, "failed")
  /\ UNCHANGED <<serverVars, mainVars, diskVars, history>>

\* Backup: the job is noted in the store, over an entry left there; in snapshot mode
\* CreateSnapshot begins with the removal of what is at the path.
StartBackup(p) ==
  LET j == child[p].job
  IN /\ At(p, "joined")
     /\ store' = store \cup {j}
     /\ \/ /\ child' = [child EXCEPT ![p].stage = "made", ![p].mode = "direct"]
           /\ UNCHANGED snapshot
        \/ /\ child' = [child EXCEPT ![p].stage = "snap", ![p].mode = "snapshot"]
           /\ snapshot' = [snapshot EXCEPT ![j] = NoProc]
     /\ UNCHANGED <<serverVars, mainVars, history>>

\* The store or the file system cannot be made: the child exits.
BackupFails(p) ==
  /\ At(p, "joined")
  /\ child' = [child EXCEPT ![p].stage = "failed", ![p].conn = "lost", ![p].serving = FALSE]
  /\ store' \in {store, store \ {child[p].job}}
  /\ UNCHANGED <<serverVars, mainVars, snapshot, history>>

\* The shadow copy is made, or fails and what is at the path is removed: direct mode then.
CreateSnapshot(p) ==
  LET j == child[p].job
  IN /\ At(p, "snap")
     /\ \/ /\ snapshot[j] = NoProc
           /\ snapshot' = [snapshot EXCEPT ![j] = p]
           /\ Step(p, "made")
        \/ /\ snapshot' = [snapshot EXCEPT ![j] = NoProc]
           /\ child' = [child EXCEPT ![p].stage = "made", ![p].mode = "direct"]
     /\ UNCHANGED <<serverVars, mainVars, store, history>>

\* The session knows its snapshot and its file system, the mode is printed.
RegisterHandlers(p) ==
  /\ At(p, "made")
  /\ Step(p, "ready")
  /\ UNCHANGED <<serverVars, mainVars, diskVars, history>>

\* backupSession.Close, once: what the session knows of is removed.
Close(p, keepSnapshot) ==
  LET j == child[p].job
      first == ~child[p].torn
  IN /\ store' = IF first THEN store \ {j} ELSE store
     /\ snapshot' = [snapshot EXCEPT ![j] =
          IF first /\ ~keepSnapshot /\ child[p].mode = "snapshot" THEN NoProc ELSE @]

\* Mutant: the end of the connection does not end the session.
ServeEndsQuietly(p) ==
  /\ Live(p) /\ child[p].conn = "lost" /\ child[p].serving
  /\ child' = [child EXCEPT ![p].serving = FALSE]
  /\ UNCHANGED <<serverVars, mainVars, diskVars, history>>

\* The goroutine of Serve: the connection is gone, the session is closed if there is one
\* by now.  A snapshot that is being made is not known to it.
ServeEnds(p) ==
  /\ Live(p) /\ child[p].conn = "lost" /\ child[p].serving
  /\ IF At(p, "joined")
     THEN /\ child' = [child EXCEPT ![p].serving = FALSE]
          /\ UNCHANGED diskVars
     ELSE /\ Close(p, child[p].stage # "ready")
          /\ child' = [child EXCEPT ![p].serving = FALSE, ![p].torn = TRUE]
  /\ UNCHANGED <<serverVars, mainVars, history>>

\* wg.Wait returns.
MainReturns(p) ==
  /\ At(p, "ready") /\ ~child[p].serving
  /\ Step(p, "gone")
  /\ UNCHANGED <<serverVars, mainVars, diskVars, history>>

\* The agent's QuitProcess: the child closes its connection and its session and exits ...
Quit(p) ==
  /\ At(p, "ready")
  /\ \E j \in Jobs : op[j] = "quit" /\ own[j] = p
  /\ Close(p, FALSE)
  /\ child' = [child EXCEPT ![p].stage = "gone", ![p].torn = TRUE,
                            ![p].conn = "lost", ![p].serving = FALSE]
  /\ UNCHANGED <<serverVars, mainVars, history>>

\* ... or is killed after five seconds.
Kill(p) ==
  /\ At(p, "ready")
  /\ \E j \in Jobs : op[j] = "quit" /\ own[j] = p
  /\ child' = [child EXCEPT ![p].stage = "gone", ![p].conn = "lost", ![p].serving = FALSE]
  /\ cut' = cut \cup {p}
  /\ UNCHANGED <<serverVars, mainVars, diskVars, abandoned, faults>>

\* The connection is lost, or was one the server does not serve.
Lose(p) ==
  /\ Fault /\ Live(p) /\ child[p].conn = "open"
  /\ child' = Hang({p})
  /\ cut' = cut \cup {q \in {p} : Starting(q)}
  /\ UNCHANGED <<serverVars, mainVars, diskVars, abandoned>>

ChildStep(p) ==
  \/ ConnectToServer(p) \/ StartBackup(p) \/ BackupFails(p) \/ CreateSnapshot(p)
  \/ RegisterHandlers(p) \/ ServeEnds(p) \/ MainReturns(p) \/ Quit(p) \/ Kill(p)

-----------------------------------------------------------------------------
(* The agent's main process *)

\* BackupStartHandler: the child has printed its mode, its process is noted over that of an
\* earlier one, and the caller, if it still waits, has its answer.
Answer(p) ==
  LET j == child[p].job
  IN /\ child[p].waits /\ child[p].stage \in {"ready", "gone"}
     /\ child' = [child EXCEPT ![p].waits = FALSE]
     /\ pids' = [pids EXCEPT ![j] = p]
     /\ op' = IF op[j] = "call" /\ own[j] = p /\ host THEN [op EXCEPT ![j] = "answered"] ELSE op
     /\ UNCHANGED <<own, exec, sess, conns, mnt, host, diskVars, history>>

\* The child has ended without a mode.
AnswerError(p) ==
  LET j == child[p].job
  IN /\ child[p].waits /\ child[p].stage = "failed"
     /\ child' = [child EXCEPT ![p].waits = FALSE]
     /\ op' = IF op[j] = "call" /\ own[j] = p /\ host THEN [op EXCEPT ![j] = "cleanup"] ELSE op
     /\ UNCHANGED <<own, exec, sess, conns, mnt, mainVars, diskVars, history>>

\* The session of the host ends ...
Disconnect ==
  /\ Fault /\ host
  /\ host' = FALSE
  /\ UNCHANGED <<serverVars, pids, child, diskVars, abandoned, cut>>

\* ... and whenever Serve gives up reconnecting, the store is emptied.
ClearAll ==
  /\ ~host /\ store # {}
  /\ store' = {}
  /\ UNCHANGED <<serverVars, mainVars, child, snapshot, history>>

Reconnect ==
  /\ ~host
  /\ host' = TRUE
  /\ UNCHANGED <<serverVars, pids, child, diskVars, history>>

\* The service is restarted: the children go on, nobody knows them any more.
Restart ==
  /\ Fault
  /\ host' = FALSE
  /\ pids' = [j \in Jobs |-> NoProc]
  /\ child' = [p \in Procs |-> [child[p] EXCEPT !.waits = FALSE]]
  /\ store' = {}
  /\ abandoned' = abandoned \cup {j \in Jobs : ChildrenOf(j) # {}}
  /\ UNCHANGED <<serverVars, snapshot, cut>>

\* Nothing refers to the process any more.
Recycle(p) ==
  /\ child[p].stage \in {"gone", "failed"} /\ ~child[p].waits
  /\ child[p].conn # "none" => child[p].serves = NoJob
  /\ \A j \in Jobs : p \notin {own[j], sess[j], conns[j], mnt[j], pids[j], snapshot[j]}
  /\ \A q \in Procs : child[q].serves # p
  /\ p \in cut => child[p].job \notin store
  /\ child' = [child EXCEPT ![p] = NoChild]
  /\ cut' = cut \ {p}
  /\ UNCHANGED <<serverVars, mainVars, diskVars, abandoned, faults>>

BackupsNext ==
  \/ \E j \in Jobs : OpStep(j) \/ CallFails(j)
  \/ \E j \in Jobs, p \in Procs : Backup(j, p)
  \/ \E p \in Procs : ChildStep(p) \/ Lose(p) \/ Register(p) \/ HandlerEnds(p)
  \/ \E p \in Procs : Answer(p) \/ AnswerError(p) \/ Recycle(p)
  \/ Disconnect \/ ClearAll \/ Reconnect \/ Restart

BackupsSpec == BackupsInit /\ [][BackupsNext]_backupVars

-----------------------------------------------------------------------------
(* Properties *)

\* Types; executeMu belongs to an operation that is inside Execute.
BackupsTypeOK ==
  /\ op \in [Jobs -> OpStages] /\ exec \in Jobs \cup {NoJob}
  /\ {own, sess, conns, mnt, pids, snapshot} \subseteq [Jobs -> Procs \cup {NoProc}]
  /\ host \in BOOLEAN /\ store \subseteq Jobs /\ abandoned \subseteq Jobs /\ cut \subseteq Procs
  /\ child \in [Procs -> [job : Jobs \cup {NoJob}, stage : ChildStages,
                          mode : {"none", "direct", "snapshot"}, conn : {"none", "open", "lost"},
                          serves : Procs \cup {NoProc, NoJob}, serving : BOOLEAN, torn : BOOLEAN,
                          waits : BOOLEAN]]
  /\ \A j \in Jobs : op[j] \in {"call", "answered", "mounted"} => exec = j

\* A child outlives its operation only for one of the causes the history names: a call that
\* was given up, a Cleanup that found the host disconnected, a restart of the agent.  Else
\* the only child of a job is the one its operation started (controllers/arpc.go 62-98).
NoStrayChild ==
  \A j \in Jobs \ abandoned : \A p \in ChildrenOf(j) : op[j] # "idle" /\ own[j] = p

\* The mount reads from the child the operation started.  When another child's session was
\* still in the map that one is dead, and the mount serves nothing (rpc/mount.go 131-146).
ReadsOwnChild ==
  \A j \in Jobs \ abandoned :
    op[j] \in {"mounted", "running"} =>
      mnt[j] = own[j] \/ (mnt[j] \in Procs /\ child[mnt[j]].conn = "lost")

\* While a child serves a snapshot nobody removes it: all children of a job work on the one
\* path of its snapshot (ntfs_windows.go 36-49).
SnapshotKept ==
  \A p \in Procs :
    child[p].job \notin abandoned /\ At(p, "ready") /\ child[p].mode = "snapshot"
      /\ ~child[p].torn /\ child[p].conn = "open"
    => snapshot[child[p].job] = p

\* What is left on the agent's disk, snapshot or entry of the store, is that of a live
\* child, or of one that was killed or disconnected before it served (backup.go 48-62).
LeftBehind ==
  \A j \in Jobs \ abandoned :
    /\ snapshot[j] # NoProc => Live(snapshot[j]) \/ snapshot[j] \in cut
    /\ j \in store => ChildrenOf(j) # {} \/ \E p \in cut : child[p].job = j

\* A backup counts as graceful only if its key has a session, and never by the connection
\* of another live child: it is the session the mount reads from, that of the operation's
\* own child, or a dead one the server has yet to take out (jobrun.go 383-389).
VerdictSound ==
  [][\A j \in Jobs \ abandoned :
       op[j] = "running" /\ op'[j] = "cleanup" /\ TRUE \in IsConnected(j)
       => /\ sess[j] # NoProc
          /\ sess[j] \in {mnt[j], own[j]} \/ child[sess[j]].conn = "lost"]_backupVars

\* "Agent mount must still be connected after proxmox-backup-client terminates.  If not,
\* then the client side process crashed" (jobrun.go 380-381): no verdict of "crashed" for
\* lack of a session is given while the child is alive and connected.
CrashedMeansCrashed ==
  [][\A j \in Jobs :
       op[j] = "running" /\ op'[j] = "cleanup" /\ ~Status(j)
       => child[mnt[j]].conn = "lost" \/ ~Live(mnt[j])]_backupVars
=============================================================================
