# pbs-plus in TLA+

PBS Plus adds agents, schedules and retries to a Proxmox Backup Server. A server process
(`src/cmd/pbs_plus`) queues backup jobs; for each it asks an agent on the backed-up host to
export a drive, mounts the agent's file system through FUSE and runs
`proxmox-backup-client` over the mount. This directory holds a model of the parts of that
system that are hard to test: what they share, the order in which they touch it, and what
must hold whichever way they interleave or fail.

Contents: [1 inventory](#1-inventory) · [2 modules](#2-modules) ·
[3 runs](#3-what-the-runs-check) · [4 proofs](#4-what-is-proved) ·
[5 findings](#5-where-the-code-and-its-comments-disagree) ·
[6 limits](#6-abstractions-and-what-is-not-modelled) · [7 plan](#7-plan)

Running: `tlc -config MCBackupManager_safety.cfg MCBackupManager.tla` (and likewise for the
other configurations), `tlapm BackupManagerProofs.tla` (and the other modules that hold
theorems).

## 1 Inventory

All paths are below `src/`. "Properties" names what makes the part correct.

### Backup manager: `internal/backend/backup/{manager,jobrun,fix_datastore}.go`

- State: a map of job mutexes, the `jobs` channel, the `semaphore` channel, `executeMu`,
  `mu`, a context; per operation the mount, the client process, the owner to put back.
- Operations: `Enqueue`, `worker`, `Execute` (target, mount, command, task monitor, owner
  file, client start, task detection, status), the goroutine that waits for the client,
  `CreateError`, `Close`.
- Talks to: the job RPC (calls `Enqueue`), the mount client, retry timers, database,
  task files, scripts, `proxmox-backup-client`.
- Hard: one operation crosses three goroutines, and its job mutex is taken in one and
  released in another, on a dozen ways out. Resources are shared along different keys:
  mutex and mount path per job, owner file per backup group, `executeMu` and semaphore per
  process. The error path releases the mutex *before* it unmounts, and errors of the owner
file, of an unmount and of the last status update are logged and passed over.
- Properties: `LockAccount`, `ExecuteExclusive`, `MountIntact`, `SlotAccount`, `QueueSound`,
  `ClientCovered`, `OneClientPerJob`, `NobodyStuck`, `Completes`, `OwnerOwed`,
  `ImplementsJobExclusion`.

### Job RPC and command line: `internal/proxy/rpc/job`, `cmd/pbs_plus`

- `pbs-plus -job=X [-retry=N]` is what systemd timers and the web UI run; it drops pending
  retries unless it is a retry, and asks the server over a Unix socket to `Enqueue`.
- Hard: it removes timers while the manager may be setting them. In `BackupManager` as
  `Submit`; the timers it drops are a call of `RetryTimers`.

### Mount client and mount RPC: `internal/backend/mount`, `internal/proxy/rpc/mount.go`

- `Mount` unmounts whatever is on the job's path, asks the RPC server for a mount (retrying
  Status) and `Unmount` undoes it; the RPC server asks the agent to fork a child, looks the
  child's session up, registers a file system for it and mounts it.
- Hard: everything works by path and by key, never on the object; sessions are looked up
  and used later; `Cleanup` of one job closes the session of the whole host.
- Properties: `MountIntact`, `ReadsOwnChild`, `VerdictSound`; `CrashedMeansCrashed` is what a
  comment says.

### Session manager: `internal/arpc/{session_manager,helpers}.go`, `internal/proxy/controllers/arpc`, `internal/store/connections.go`

- State: map of sessions by client, map of mounted file systems by client, one handler
  goroutine per connection.
- Hard: check-then-set in `GetOrCreateSession`, get-then-delete in `CloseSession`; handlers
  of one client race at every reconnection.
- Properties: `SessionServed`, `DeadLeaves`.

### Arpc session: `internal/arpc/{arpc,call,connection_manager}.go`

- State: the smux session, a connection state, a circuit breaker, a channel on which
  waiters are told that a reconnection is over.
- Operations: `Serve`, the connection monitor, `attemptReconnect`, calls that wait.
- Hard: three kinds of goroutine may start the same reconnection; one token wakes one of
  several waiters, and a stale token wakes one too early; backoff and circuit breaker.
- Properties: `ReconnectOwned`, `Reconnects`.

### Backups of an agent: `internal/agent/{controllers,forks,snapshots}`, `cmd/windows_agent`

- State: active child processes by job, the session of the host and those of its children,
  a snapshot by job, a file of active backups.
- Hard: Backup kills the child of an earlier run and forks another, which has to connect
  before the parent answers; calls are given up while the agent goes on with them; the main
  process restarts and leaves its children; Cleanup may never reach the agent.
- Properties: `NoStrayChild`, `SnapshotKept`, `LeftBehind`, `ReadsOwnChild`, `VerdictSound`.

### Mounted source: `internal/backend/arpc` (server), `internal/agent/agentfs` (agent), `internal/arpc/{call,router,errors}.go`, `binary`

- State: the agent's handle table, the file pointer of a Windows handle, directory readers;
  the server's directory streams and FUSE nodes; chunks of an answer on their stream.
- Hard: the kernel reads one file many times at once; a call is given up and served all the
  same; every error becomes an end of file, an end of a directory or a missing object; the
  encoding changes what it carries.
- Properties: `DataRight`, `ShortExplained`, `ReadsGoOn`, `SeekLands`, `ListingWhole`,
  `HandlesLeft`, `RequestsAnswered`; `AclsSeen` says what becomes of an ACL.

### Database and web handlers: `internal/store/database`, `internal/proxy/controllers/{jobs,exclusions}`, `status.go`

- State: the tables of jobs and exclusions, one write connection, the systemd units of jobs.
- Hard: a job is read, changed and written back as a whole row by the mount RPC, the
  manager and the web interface; units are changed inside a transaction that may not
  commit, and that commits when they could not be changed; a server that stops leaves jobs
  that say they are queued.
- Properties: `ExclusionsOwned`, `UnitsAgree`, `QueuedIsRunning`, `ImplementsJobTables`.

### Identity of an agent: `controllers/{agents,targets}`, `middlewares/auth.go`, `internal/agent/{bootstrap,tls_config,http}.go`

- State: the certificate the server has pinned to each target; CA, certificate and key in
  the agent's registry; the certificate its process presents; the enrolment token.
- Hard: enrolment, renewal, the report of drives, edits and the middleware each find the
  targets in their own way, by name or by address; answers are lost, or are errors that are
  stored like certificates; entries are stored and deleted one by one; the HTTP client is
  made once per process.
- Properties: `PairUsable`, `StaysKnown`, `ReportsOwnTargets`, `ConnectionKept`.

### Updaters: `cmd/{unix,windows}_updater`, `controllers/plus`

- State: the agent's binary, its backup and a download; the service, or an agent that the
  updater has started itself; a version file; a lock.
- Hard: the updater can die between any two steps, and what it has started dies with it under
  systemd; a package's scripts stop it in the middle of the installation it does; binary and
  checksum are two requests; few service managers start it again.
- Properties: `InstalledWhole`, `SomeBinaryLeft`, `DownExplained`, `RolledBack`, `CatchesUp`.

### Timers: `internal/store/system`

- State: systemd unit files, one pair per scheduled job and one per retry and attempt.
- Hard: written and removed in several steps by several processes and goroutines, which list
  each other's files and return when one of them is gone.
- Properties: `SomeRetryLeft` (the timers of the retries), `UnitsAgree` (the units of a
  schedule, as transactions leave them).

### Not state machines, or out of reach

Task files and log classification (`internal/store/proxmox`, `backup/*_logging.go`), legacy
databases and migration, web views, certificate generation, ESXi backup, Unix snapshots
(LVM, ZFS, btrfs), service wrappers, packaging: text, I/O or libraries called in sequence.

## 2 Modules

```
JobExclusion                     what the backup manager promises           (abstract)
  ^ implemented by
BackupManager                    internal/backend/backup                    (detailed)
  MCBackupManager                instances for TLC
  BackupManagerProofs            invariants, and BackupManager => JobExclusion: proved

RetryTimers                      internal/store/system/retry_scheduler.go, for one job
  MCRetryTimers

JobTables                        what the database promises its users        (abstract)
  ^ implemented by
JobStore                         tables of jobs and exclusions, their writers
  MCJobStore   JobStoreProofs    invariants, and JobStore => JobTables: proved

AgentBackups                     mount client, mount RPC and agent: the backups of one host
  MCAgentBackups   AgentBackupsProofs

SessionManager                   the server's session map and its handlers, for one key
  MCSessionManager   SessionManagerProofs

ArpcSession                      a session that reconnects (client)
  MCArpcSession   ArpcSessionProofs

RemoteFS                         the mounted source: composes the three below
  RemoteFile                     open, read, seek and close of one file
  RemoteDir                      one listing of a directory
  RemoteAttrs                    the attributes of one object
    RemoteCalls                  their messages, and what the encoding does to them
  MCRemoteFS   RemoteFSProofs

AgentIdentity                    certificates, targets, enrolment, renewal, report of drives
  MCAgentIdentity   AgentIdentityProofs

AgentUpdater                     the updaters of Windows and Unix
  MCAgentUpdater   AgentUpdaterProofs
```

The modules meet where the code does. An operation of `BackupManager` takes its mount in one
step; `AgentBackups` is what happens behind that step, and its `ClientEnds` and `exec` are
`Finish` and `executeMu` of the manager. A child's connection is two steps in `AgentBackups`
(`Register`, `HandlerEnds`); `SessionManager` has all of theirs. The files a child serves are
`RemoteFS`. What a run writes to the row of its job is `JobStore`, the retries it arms and
drops are calls in `RetryTimers`; who may connect at all is `AgentIdentity`. They are not one
specification, because their products are beyond TLC and no property of ours needs two of them at
once.

Definitions named `X` preceded by a variant (`ReleaseNothing`, `ServeForgets`, ...,
commented "Mutant:") are faulty versions of the definition that follows. They are part of no
specification: replacing `X` by one must make a property fail, which shows that the property
depends on the code. `PROJECT.json` pairs them.

### BackupManager

| state | code |
|---|---|
| `pc[o]` | where the RPC goroutine, then the worker's goroutine for `o` stands |
| `bg[o]` | where the goroutine left behind by `Execute` stands |
| `locked`, `seenClosed` | mutexes in `Manager.locks`; after `Close` has replaced the map, jobs get new ones |
| `mu`, `executeMu` | the two process-wide mutexes, by holder |
| `queue`, `slots` | the `jobs` and `semaphore` channels |
| `mounted` | whose FUSE mounts are on the path of the job, the one it shows first (by path: an unmount takes off the first, whosever it is) |
| `agentMount` | `Execute`'s variable of that name is not nil |
| `client` | `proxmox-backup-client` of the operation |
| `saved`, `owner` | `currOwner`; the owner file of the backup group |
| `worker`, `closed` | the worker goroutine runs; the context is cancelled |
| `stuck`, `ownerFailed` | history: operations whose unmount failed; groups whose owner file could not be read or written |

Actions, in the order of an operation's life: `Submit`; `TryLock`,
`Announce`, `Admit` or `RejectClosed`/`RejectFull` (Enqueue); `WorkerTake`, `AcquireSlot` or
`Abort`, `BeginExecute` (worker); `GetTarget`, `Mount`, `Prepare`, `GetCurrentOwner`,
`FixDatastore`, `StartClient`, `DetectTask`, `RecordStart` (Execute); `CleanUpUnlock`,
`CleanUpUnmount`, `RestoreFirst`/`RestoreLast` (its error path; `StartClient` restores the
owner before `errCleanUp`, later failures after it); `ReturnFromExecute`, `CreateError`,
`Wait`, `Release`; and beside them `ClientExit`, `ClientWait`, `Finish`, `RestoreOwner`,
`Unmount`, `BgUnlock`. A step is what happens between two points at which another goroutine
could notice: a failure that may come out of any of several calls is one disjunct. `MayFail`
names the failures the code goes on after: of `updateJobStatus` with the client running
("status"), of reading and writing the owner file ("owner": `GetCurrentOwner` fails and
`FixDatastore` is run all the same, or a write fails and is ignored), of the unmount
("umount": the mount stays and a later one covers it). `Close` is an action although nothing
in the repository calls it today (`main` only cancels the context it gave the manager, with
the process ending).

### RetryTimers

`timers` and `services` are the files `pbs-plus-job-X-retry-N.timer` and `.service` of one job,
`armed` the timers systemd runs. Each call in `Calls` is one execution of `SetRetrySchedule` or
of `RemoveAllRetrySchedules` by some goroutine or process (a run that ends, a refused
submission, a late `CreateError`, `pbs-plus -job`, the web interface): it lists the timers
(`Glob`, into `todo[c]`) and reads the attempt back from their names, disables and removes
them one by one (`Disable`, `RemoveTimer`), lists and removes the services, and writes,
reloads and enables its own (`GenerateRetryService`, `GenerateRetryTimer`, `Enable`). Any two
calls interleave at every one of these steps. `GiveUp` is every error return and the end of
the process, `LeaveFile` the errors that `RemoveAllRetrySchedules` goes past, `Retry` the timer
that fires. A behaviour begins with any timers that earlier calls have left, armed or fired:
two of them if those calls overlapped. `owed` and `removed` are history.

Not modelled: a job ID that contains "retry-" itself, in which the attempt is looked for
behind the wrong "retry-" and always read as the first (section 5).

### JobStore

`rows` and `excl` are what has been committed: a row is its schedule (what users configure)
and whether its last run is a queued task (what runs record); an exclusion is a path with its
owner, a job or everybody. `conn` is the one write connection with the transaction that has
it and the tables that one works on. `units` are the jobs with systemd units, which no
rollback undoes. `req[r]` is a request with its stage and its copy of the job; `stale` says
that somebody has committed since it was made.

The web handlers arrive with a copy (`ExtJsJobHandler`, `ExtJsJobSinglePut`, ...), a run is
queued with one (`Queue`) and reads it again (`Read`) before each of its writes: queued,
namespace asked for by a script, by the agent, task started, error, end. A run that cannot make
its error file writes no row (`NoErrorFile`). `CreateJob`, `UpdateJob`, `DeleteJob` and the
three of exclusions begin a transaction and do all of its work, or as much of it as there is
before a statement fails (`Refuse`, with the exclusions `Inserted` so far); `Commit`,
`CommitFails` and `Stop` end it. Two transactions cannot overlap, so what happens inside one is
one step; that the units are changed before it ends is not. `SetSchedule` and `DeleteSchedule`
may fail, and the transaction commits all the same (`unset`). `Start` is the loop over
`GetAllQueuedJobs` in `main`: its transaction may not begin or not commit, each job's error
file and update may fail, and half of a failed update is committed with the rest. `untold` are
the jobs that a run or the start could not write.

`JobTables` is what a caller may rely on: a request asks (`Ask`), and what it asks is done to
both tables in one step (`Serve`) or not at all (`Refuse`). `AskOf` says what a request of
`JobStore` asks: the whole row and all exclusions of an edit or of a stage of a run, the
owner that was read for an exclusion that is renamed. Connection, transactions, failed
commits and units are not in it; a stop forgets what was asked, and `Recover` is the start: it
clears some of the queued jobs, and may lose exclusions of those.

### AgentBackups

`op[j]` is the stage of the job's operation and `own[j]` the child it called for. `sess` and
`conns` are the server's two maps at the keys "host|job", `host` the session of the agent's
main process, `mnt[j]` what the operation's mount reads from. `pids` is the agent's
`activePids`; `child[p]` a process: its stage from its start to `ready` (its mode is
printed), its connection, which session the server's handler for it serves, and whether its
backup session is closed (`torn`). `snapshot[j]` and `store` are on the agent's disk.
`abandoned` and `cut` are history: jobs, and children, with a cause for something to be left.

`Backup`, `CallFails`, `CreateARPCFS`, `StartClient`, `ExecuteFails`, `ClientEnds` and the
five ways of Cleanup (unreachable, failed call, no child, child asked to quit, answered) are the
server's; `IsConnected` is what `ClientEnds` decides by, the answer of `Status` or FALSE when
the call itself fails; `Register` and `HandlerEnds` its handlers;
`ConnectToServer` to `Kill` the child's; `Answer`, `AnswerError`, `ClearAll`, `Reconnect` the
main process's. `Lose`, `Disconnect`, `Restart` and `CallFails` are faults. `Recycle` lets a
process nobody refers to stand for a later one: it bounds names, not the number of processes.

### SessionManager

One client key; keys do not interact. `handler[c]` is the goroutine of connection `c`, which
goes Lookup, (Create,) Serve, Find, Remove, CloseFound, Disconnect: `GetOrCreateSession`,
`Session.Serve`, the three steps of `CloseSession`, `DisconnectSession`. `sessions` and
`conns` are the two maps at the key, `mux[c]` the server's and `agentEnd[c]` the client's end
of the connection. `GetSession` followed by `CreateFSConnection`, `CleanupClose` or `RpcFail`
is what the mount RPC does. `Recycle` is as above.

### ArpcSession

`at[t]` is where a goroutine stands: `Serve` (the agent's loop around `Session.Serve`), the
`Attempts` (goroutines the monitor and calls start) and the `Callers`
(`openStreamWithReconnect`). `Reconnect(t)` is `attemptReconnect`, shared by the first two:
CompareAndSwap, Check, then Told or WaitCancelled for the one that lost; Probe, Dial, Store,
Connect, Announce for the one that won. `mux`, `state`, `token`, `cancelled` are `muxSess`,
`state`, `reconnectChan` and `ctx`; `circuit` is `circuitOpen` with `circuitResetAt`
("expired": open, and its time is past); `stopping` is the context of the program;
`held[t]` is the connection a goroutine has loaded or made; `agentEnd` is shared in name and
meaning with `SessionManager`. `MonitorTick`, `MonitorReset` and `PreProbe` are the monitor;
the loads of one tick are one step, because whatever changes after them could as well change
before the goroutine they start has run. The agent itself makes no calls on its session
(the server does, on sessions without auto-reconnect, where a failed call is `Close`), so the
agent is the instance with `Callers = {}`; the instance with a caller is the package as its
tests use it.

### RemoteFS: RemoteFile, RemoteDir, RemoteAttrs

A behaviour is about a file, a directory or an object's attributes: the three share only the
session, and each models its loss.

`RemoteFile`: a byte is its offset, so a reply is where its bytes come from (`from`) and how
many there are (`n`). `handle` is the agent's `FileHandle` with the size noted at the open
and the one file pointer, `lock` its mutex where a read keeps it from one step to the next.
`rd[r]` is a read, from the kernel's request (`ReadAt`) through the agent's (`SetFilePointer`
and `ReadFile`, `MapView`, or `ReadSection` on Unix), the chunks and the sentinel to the
reply (`Receive`). `Lseek` goes through the ranges of a sparse file. `asked` are the calls
the agent has yet to handle, which it does even when nobody waits for them any more.

`RemoteDir`: `lastResp`, `total` and `closed` are the client's `DirStream`, `reader` the
agent's directory reader (`bulk`: that of Unix), `got` and `over` what go-fuse keeps of a
READDIR. `hidden` are the entries the agent leaves out.

`RemoteAttrs`: `known` is what the kernel has in its cache, from `Lookup` or `Getattr`;
`HandleAttr` and the two `HandleXattr` fill different fields of `AgentFileInfo`, which
`RemoteCalls` sends over the wire (lists that were never made arrive as empty ones).

### AgentIdentity

`targets` is the table, by host and by which of the names it can have there: the one the
middleware asks for ("host - C", "host - Root") or another one (drive D, or the bare host
name). A certificate is its number, `Blank` what an error answer decodes to. `ca`, `cert` and
`key` are the agent's registry; `client` is the certificate the HTTP client of its process
presents, chosen when that client is made and kept until the process ends; `up` says that the
agent has come past `waitForBootstrap`. `doing` and `reply` are the request it is about and the
answer, which is stored entry by entry (`StoreCA`, `StoreCert`, `StoreKey`) without a look at
its status; an expired pair is deleted in two steps (`ExpireCert`, `ExpireKey`). `seen` is
what a report of drives has read and not yet acted on, found by a prefix of the address
(`GetAllTargetsByIP` is a LIKE), `edit` the same for the web interface, `conn` who keeps the
write connection. Each handler that writes is one step, since it has that connection from its
first write on; reading before it is a step of its own. An address is a sequence, so that one
can begin like another; hosts `Move`. `EditWrite` writes the certificate it has read under any
name and address, `AddTarget` an empty one over anything.

`torn` are the hosts with half of an answer or half of a deletion, or with an error, in the
registry; `disturbed` those something interfered with since their certificate was signed: the
answer was lost, a report read other hosts' targets or not its own as they are, the target was
deleted, made anew or written from another copy. `MaxEvents` bounds what happens besides
enrolments, renewals and reports.

### AgentUpdater

One module for both updaters: `kind` is the host's ("windows", "package", "binary"), `manager`
its service manager (systemd, another one, none). `main`, `backup`, `temp` are the files, each
with a version and the system it is for, or the error page of a server; `agent` is the agent the
service manager runs, `stray` one the updater has started itself, `version` what either wrote
down; `at`, `tries` the progress of `checkAndUpdate`; `stopping`, `lock`, `due` the updater's
process, its lock file and whether something is to start it; `known` that the server accepts
the certificate it presents.

The steps are the calls of `tryUpdate` and `applyUpdate`; `TryFails` is the return with an
error, after which `performUpdate` tries again. `InstallPackage` runs the package's scripts
(`Scripts`: they restart the agent, and on systemd order the updater to restart), and falls back
to `StartDirectly` where the code does. Whenever the updater's process ends (`Exit`, `Die`),
`Reap` ends what it has started if systemd runs it: its unit sets no KillMode. `Die`,
`Terminate`, `Renew` (the pinned certificate changes), `Reboot` and `Upgrade` (of the server)
come at any moment. `was`, `bent`, `hurt`, `taken` are history.

## 3 What the runs check

| run | instance | properties |
|---|---|---|
| `safety` | 3 operations, 2 jobs (one submitted twice), channel of 1, 2 slots, Close; every failure but that of recording a start | `LockAccount MountIntact NobodyStuck OwnerOwed OneClientPerJob ImplementsJobExclusion` |
| `drain` | the same operations, channel of 1, 1 slot, that failure too, fair | `Completes` |
| `retries` | 4 calls for one job, 2 retries, one step that fails, any timers before | `SomeRetryLeft` |
| `jobs` | one job, one path, one request and one run, again and again | `ExclusionsOwned UnitsAgree QueuedIsRunning ImplementsJobTables` |
| `backups` | 2 jobs of one host, 2 processes, 2 faults | `NoStrayChild ReadsOwnChild SnapshotKept LeftBehind VerdictSound` |
| `sessions` | connections of one client, two at a time, fair | `SessionServed DeadLeaves` |
| `arpc` | Serve, one goroutine of the monitor, one call | `ReconnectOwned` |
| `arpc_liveness` | Serve, one goroutine of the monitor, fair | `Reconnects` |
| `files` | a file of 4, 2 reads of 2; a directory of 5 in batches of 2; every ACL; fair | `DataRight ShortExplained ReadsGoOn SeekLands HandlesLeft ListingWhole RequestsAnswered` |
| `identity` | a Windows and a Unix host, 2 addresses and a bad one, 2 certificates, 2 events | `PairUsable StaysKnown ReportsOwnTargets ConnectionKept` |
| `updater` | every kind of host and service manager, 3 versions, 5 faults, 3 crashes, fair | `InstalledWhole SomeBinaryLeft DownExplained RolledBack CatchesUp` |
| `blamed` | 2 jobs of one host, no fault | `CrashedMeansCrashed` is violated |

### Bounds, and why they are enough

- `safety`, `drain`. The code's resources are keyed by job, by group or by process, so two
  operations of one job plus one of another meet at each kind of key; a third of one job
  would only be refused as the second is. One group has an owner and one is new. An operation
  is submitted once: more submissions are more operations. In `safety` the channel holds one
  and the semaphore two: "full" and "busy" both occur, and with two tokens one operation is
  admitted and waits for `executeMu` while the first of its job fails and gives its mutex
  back. `updateJobStatus` does not fail there ("status" is not in `MayFail`) because
  `OneClientPerJob` is false with it (section 5); the theorems about the other properties have
  any `MayFail`. `drain` has one token and one place: the worker waits for the token with an
  operation in hand, a second one waits in the channel, the third is refused or comes later.
- `retries`. Three calls that overlap over two timers left by earlier ones reach every named
  excuse; the fourth lets an old timer fire among them. `MaxRetry` 2 makes "first", "next" and
  "exhausted" differ. `MaxFaults` 1 is one call that gives up or leaves a file; two would only
  do that twice. Calls are interchangeable (`CallSymmetry`).
- `jobs`. A request or a run is followed by any number of others under the same name. With
  one job a run and a request are always about the same row, which is where they interfere;
  a second job only waits for the connection. One path is taken or free; requests for it
  conflict whichever job they are for. The theorems have any number of each.
- `backups`. Two jobs share the session of the host and `executeMu`; two processes are a
  child and its successor, or one child of each job. `MaxFaults` counts lost connections,
  calls given up or failed and restarts: two of them suffice for a call that is given up and a
  child that then loses its connection.
- `sessions`, `arpc`, `arpc_liveness`. Two connections are alive at a time, a dying one and
  its successor; names recur. In `ArpcSession` there are as many connections as goroutines
  can hold, and the one in use, so that no dial waits for a name. `arpc_liveness` allows the
  monitor one goroutine at a time: its ticks are five seconds apart, and the goroutine of one
  has long passed its compare-and-swap at the next. With two that both wait beside Serve one
  token is not enough (section 6).
- `files`. `Size` 4 and `Want` 2 give reads inside the file, across its end and of its last
  byte; `Layouts` a file without data, and one with two ranges and a hole between them.
  `MaxUnderWay` 2 is two reads, or a read and a seek, at the one file pointer. The directory
  has 5 `Entries`, so that batches of 2 (`Batch`) and a `Buffer` of 2 fall together in every
  way, with `MaxDirEntries` 4 below and any set of entries left out; two `DirFaults` are an
  open given up and a call that fails. `MaxLost` 1: each call of `RemoteAttrs` stands alone.
- `identity`. Two hosts suffice for one to be mistaken for the other, two addresses of which
  one begins like the other for the prefix, and one that `CreateTarget` refuses. `MaxCert` 2
  is an enrolment and a renewal, or two enrolments; `MaxEvents` 2 is any pair of expiry,
  restart, error answer, lost answer, move, edit, addition, deletion and revocation on top.
  The theorems have any number.
- `updater`. `MaxTries` is the code's `maxUpdateRetries`. `MaxFaults` 5 lets a whole update
  fail and another one go wrong while it puts things back; `MaxCrashes` 3 (deaths,
  terminations, renewals and reboots) includes dying again after a restart; with three
  versions the server can move on in mid-update twice.

Deadlock is checked for the manager (`Terminated` names the states in which it may rest), the
sessions and the job store. The others may stop: calls are bounded, bounds on faults, events
and certificates run out, an object is released, a stuck updater waits for a person.

### Fairness, and why the code justifies it

- `BackupManager`: weak fairness of each goroutine's step, because Go schedules goroutines,
  `sync.Mutex` (starvation mode) and channels serve waiters in order, scripts end,
  `GetJobTask` gives up after 20 s; and of `ClientExit`, because a client ends or loses its
  connection. Nobody is obliged to submit or to close. No operation can overtake for ever
  because each is submitted once.
- `SessionManager`: handlers and the RPC run, and smux ends a session whose peer is gone
  because its keep-alive times out. Clients are not obliged to anything.
- `ArpcSession`: goroutines run, the monitor ticks, time passes; the network owes nothing,
  `Reconnects` is conditional on a server that stays reachable from some time on. While it is
  reachable no connection is lost; losses at other times are the interludes of `Vanish`,
  `Lose` and `Reappear`.
- `RemoteFile`: the steps of a read are strongly fair, because they may have to wait for the
  handle's mutex, which Go hands to a waiter after a millisecond. That a connection is lost,
  or a call given up, is not fair: a read must be answered without.
- `RemoteDir`: go-fuse and the agent go on with what they have begun (`DirStep`); calls fail
  without fairness, but for those on a lost session.
- `AgentUpdater`: the ticker ticks, every command and request has a time limit
  (`UpdaterStep`); an updater told to stop does, although a `select` with two ready cases may
  take the tick some times (`Exit`, strongly). It starts again by itself only when it is `due`:
  systemd has been asked to restart it, or sees that it died, or the host boots. No service
  manager starts it after a clean exit, and none does on Windows or under OpenRC: such hosts
  are in the exceptions of `CatchesUp`, not in the fairness.

### What the properties mean, beyond their comments

- `LockAccount` says who is still to unlock each locked mutex. An operation that returns
  without unlocking is not such a one. The code has two ways to leave a mutex locked for good,
  and both need a closed manager: `Enqueue` finds the context cancelled (`manager.go:76`) and
  returns with the mutex, and operations stay in the channel when the worker has left
  (`manager.go:86`). `LeftLocked` names them, and the property asks for `closed` with them.
- `MountIntact` and the refinement are about one design: paths are cleaned by name, so an
  operation that has given its mutex back and unmounts later could remove its successor's
  mount. It cannot, because that one unmount happens under `executeMu`. An unmount that fails
  leaves its mount below the next one, which an operation still sees as its own.
- `OwnerOwed` claims nothing of a group that two jobs share (`OneWriter`, section 6), nor of
  one whose owner file a call failed to read or write (`ownerFailed`): the code goes on, and
  nobody has the owner any more. For all others it says that the operation that has the owner
  to put back has not passed the place where it does; with `Completes` the file gets it back.
- `NobodyStuck` is the absence of deadlock of some operations while others run, which TLC's
  own check does not see: who waits for `mu`, the channel, the semaphore or `executeMu` waits
  for an operation that can take its next step. `ReadsGoOn` is the same for the reads of a
  file and the mutex of its handle. That those steps are taken is fairness (`Completes`,
  `RequestsAnswered`).
- `Completes` covers the waits on the channel, the semaphore, `executeMu`, client and wait
  group. What `Close` leaves in the channel is the exception it names.
- `SomeRetryLeft` is what is left of "one retry timer per job" when calls overlap: not which
  attempt is armed, nor that there is only one, but that somebody's retry is, unless the limit
  was reached, a call failed, `RemoveAllRetrySchedules` was called, or two calls removed each
  other's files in the way the property names.
- `ImplementsJobTables` ties what is committed to what was asked: no commit mixes the work of
  two requests, leaves half of one, or is computed from tables that have changed since. It
  does not say that what is asked is up to date. It is not: the updates of hazard 9 are lost
  (section 6), and no property claims otherwise.
- `ReconnectOwned` is what the compare-and-swap still gives although `Serve` stores
  "disconnected" over it: two reconnections may overlap, but a state that makes the others
  keep away always has somebody behind it. `Reconnects` adds that Serve ends up accepting on
  a live connection, which need not be the connection in `muxSess`.
- `SessionServed` is what remains true of the session map although its operations are not
  atomic: whatever it holds, someone has yet to remove it.
- `ExclusionsOwned`, `UnitsAgree` and `QueuedIsRunning` except jobs by cause: `clobbered`,
  that a request wrote from a copy somebody had changed since; `torn`, whose transaction had
  set the units before it failed; `unset`, whose units could not be set or removed while the
  row was committed; `untold`, whose row a run or the start could not write. All of them happen
  in the code; the properties say that nothing else does, however requests, runs, failing
  commits and restarts interleave. Jobs leave the sets when a request with a true copy has
  written them.
- The properties of `AgentBackups` except, in the same way, jobs in `abandoned`. `cut` is
  milder: such a child is found and removed by the next backup's `CreateSnapshot`.
- `PairUsable` and `StaysKnown` except hosts in `torn` and `disturbed` (section 2): half of an
  answer or of a deletion, and an error stored as if it were a certificate, are in the code.
- `ListingWhole`, `ShortExplained` and `CatchesUp` are lists of causes: the kernel takes each
  for the end of a directory or of a file, and the operator sees an agent that is not
  updated. The value is in the list being complete. `CatchesUp` lists: the updater is gone and
  not due, or its lock file is left; its certificate is no longer the pinned one; systemd has
  ended the agent it started with the version written down, or the agent failed to start after
  that; Windows cannot stop the agent; and the binary kind, which is served the wrong system.

## 4 What is proved

All for any sets of jobs, operations, hosts, connections, any bounds, under the assumptions
named in the modules: `OpsAssumption` (functions map where they should, the semaphore has
room for one), `NoConnAssumption`, `ThreadsAssumption` (goroutines are distinct),
`JobStoreAssumption`, `BackupsAssumption`, `IdentityAssumption`, `UpdaterAssumption`,
`FileAssumption`, `DirAssumption`, `AttrAssumption` (null values are apart, bounds are
numbers).

| module | theorems |
|---|---|
| `BackupManagerProofs` | `TypeCorrect`, `ExecuteIsExclusive`, `StagesCorrect`, `LocksAccounted` (`LockAccount`), `Inductive` (`IInv`), `MountStaysIntact` (`MountIntact`), `SlotsAccounted` (`SlotAccount`), `QueueIsSound` (`QueueSound`); if recording the start of a backup cannot fail, `ClientsCovered`, `OneClient` (`OneClientPerJob`); `NoDeadlock` (`NobodyStuck`), `OwnersOwed` (`OwnerOwed`); `Refinement` (`ImplementsJobExclusion`), and with it `MountsExclusive` |
| `JobStoreProofs` | `JobTypeCorrect`, `ExclusionsHaveJobs` (`ExclusionsOwned`), `UnitsFollowRows` (`UnitsAgree`), `QueuedHaveRuns` (`QueuedIsRunning`), `StoreRefinesTables` (`ImplementsJobTables`) |
| `AgentBackupsProofs` | `BackupsTypeCorrect`, `NoChildStrays` (`NoStrayChild`), `MountReadsOwnChild` (`ReadsOwnChild`), `SnapshotIsKept` (`SnapshotKept`), `NothingLeftBehind` (`LeftBehind`), `VerdictIsSound` (`VerdictSound`) |
| `SessionManagerProofs` | `TypeCorrect`, `SessionsServed` (`SessionServed`) |
| `ArpcSessionProofs` | `TypeCorrect`, `ReconnectIsOwned` (`ReconnectOwned`) |
| `AgentIdentityProofs` | `IdTypeCorrect`, `PairIsUsable` (`PairUsable`), `ReportsStayHome` (`ReportsOwnTargets`), `ConnectionIsKept` (`ConnectionKept`), `AgentStaysKnown` (`StaysKnown`) |
| `AgentUpdaterProofs` | `UpdTypeCorrect`, `InstalledIsWhole` (`InstalledWhole`), `BinaryIsLeft` (`SomeBinaryLeft`), `DownIsExplained` (`DownExplained`), `AttemptRollsBack` (`RolledBack`) |
| `RemoteFSProofs` | `DataIsRight` (`DataRight`), `ShortRepliesExplained` (`ShortExplained`), `ReadsDoGoOn` (`ReadsGoOn`), `SeeksLand` (`SeekLands`), `HandlesAreLeft` (`HandlesLeft`), `ListingIsWhole` (`ListingWhole`), `AclsAreSeen` (`AclsSeen`), `RemoteTypesCorrect` (`RemoteTypeOK`) |

**The manager.** `IInv` is `TypeOK`, `ExecuteExclusive`, `BgInv`, `MutexInv`, `LockOwned`
and `MountInv`. None of the interesting three is inductive alone. A mutex moves from `pc` to
`bg` when `Execute` succeeds, so `LockOwned` needs `BgInv`, which says which stages of the
two goroutines go together. `LockOwned` counts with the operations that are to unlock a mutex
those that never will; `MutexInv` then says of the latter that the manager was closed, which
gives `LockAccount`. `Close` replaces the mutexes, so an operation that looked its mutex up
afterwards must never come to the mount: `MutexInv` again. Then `MountInv`: whoever has a mount
is either inside `Execute` and holds `executeMu`, or has left it and holds the job's mutex; who
comes to `Mount` holds both and so finds nobody but mounts that could not be removed
(`OnlyLeftovers`), which stay below its own (`UnmountTakesOwn`). That is the inductive reason
why releasing the mutex before the unmount is harmless. `ClientInv` adds where a client may run
when no status update fails, and `OneClient` follows because its owner holds the job's mutex.
`SlotInv` adds to `SlotAccount` that the operations holding a token are finitely many, which
the arithmetic of cardinalities needs since `Ops` may be infinite. For the refinement,
`Phase` is computed from `HoldsLock` and `using` is `agentMount`; every action is shown to be
one abstract step or a stutter with `IInv` at hand.

`NobodyStuck` needs `MuInv` (who holds `mu` is about to be rejected and gives it back) beside
`IInv`, `SlotInv` and `QueueSound`, and then no step of its own: in a state that satisfies
them, whoever waits for the semaphore has a holder of a token, that holder is in `Execute`
with `executeMu`, or waits for it, or runs, so no chain of waits is longer than what the
property says. `OwnerInv` is `OwnerOwed` with what makes it inductive: a group that had an
owner always has one, and an operation never reads "PBS Plus" for it. The second is the
step that matters: `GetCurrentOwner` runs under `executeMu` and the job's mutex, and a run of
the same job that has not restored the owner would hold one of them, the job's mutex in the
goroutine that waits for the client, `executeMu` in the error path. A group joins `ownerFailed`
in the step in which its file cannot be read or written, and nothing is claimed of it from then
on.

**The job store.** `JobInv` is `TypeInv`, `TxInv`, `SeenGone`, `Quiet`, `ExclusionsOwned` and
`UnitsInv`. A commit replaces the tables by ones computed earlier, so `TxInv` says of an open
transaction how its tables differ from the committed ones (`Changed`): in the row of its job
only, and in exclusions only by giving paths to it, to everybody or to nobody. The
dangerous case of `ExclusionsOwned` is a row that is updated after it was deleted;
`SeenGone` says that whoever still means to write such a row has a copy it knows to be old,
so that its job joins `clobbered`. `UnitsInv` is `UnitsAgree` with the transactions admitted
that do not touch units, and the jobs in `torn`, `clobbered` and `unset` taken out; `Quiet` says
that no request and no transaction outlives the server, so that `Start` finds the connection free
(`StartEffect`). `Begun` and `Changed` are shared by the six actions that begin one.

On top of `JobInv`, `CopyInv` says what the copies of the requests are worth: a copy that is
not stale has what is committed in all that its request does not mean to change (`FreshOK`),
a transaction has in its tables what the copy says (`Written`), and the later stages of a run
write a finished task (`KindOK`). `QueuedIsRunning` is a part of it: a row can only come to
say queued through a run that goes on, and a run that ends has either committed another word,
or has joined `clobbered` or, if a statement, a commit or the error file failed, `untold`; the
start clears what it can write and puts the rest into `untold`.

For `ImplementsJobTables`, `Worked` says of an open transaction that its tables are what its
request, as `AskOf` reads it, makes of the committed ones (`Does`). It is inductive with
`JobInv`: nobody else commits while a transaction is open, and its request neither changes
nor is answered before it ends. A commit is then `Serve`; a transaction that is begun changes
nothing that `JobTables` sees, unless it gives a job its ID (`Name`).

**The backups of a host.** `BackupsInv` is `TypeInv`, `Children` (which fields of a process
go together at each stage), `OwnChild`, `Keys`, `ReadsOwnChild`, `Snapshots`, `SnapshotLeft`
and `EntryLeft`. `NoStrayChild` is kept by `OwnChild`, its strengthening: the agent knows the
process (`pids`) from its answer until Cleanup asks for it, and between call and answer
nobody else's call for the job is under way; so Cleanup always finds the child. With it,
`ReadsOwnChild` and `VerdictSound` follow from `Keys`: what a key holds is a child of the
job, hence the operation's own one, or one that is no longer alive. `Snapshots` needs
`OwnChild` too, since two live children of a job would take each other's snapshot away.

**Identity.** `PairInv` says in each phase what is in the registry: `Phase` what an answer has
stored so far, whatever it was, and `Paired` that, unless the host is `torn`, what is there fits
together: enrolment begins without a key and stores it last, so that only a renewal has a moment
of mismatch, and a deletion one of a key without a certificate. `StaysKnown` needs two more
parts: `SeenInv` (a report has read one row a target) and `KnownInv` (what is pinned for an
undisturbed Windows host is what it has, or is about to store). `TemplateOwn` is the step that
matters: of the rows an undisturbed report has read, the one of drive C comes first and is its
own, because `ReadRight` finds nobody else's at its address. `ReportsOwnTargets` and
`ConnectionKept` are about single steps and need the types.

**The updater.** `WholeInv` carries the comparison of checksums to the exchange; `LeftInv`
says that main and backup are never both missing and what is at each stage in place;
`DownExplained` is inductive with it (a step takes the agent down only while an update is
applied, by a failure, `hurt`, or by systemd when the updater ends, `taken`), `RolledBack` with
`BackInv`, where the binary that an attempt found is during each of its stages.

**The mounted source.** `FileInv` is `FileShape` (the types it needs), `Handles`,
`SizesAgree`, `Placed`, `Bytes` and `HandleLeft`. `Placed` is the argument for the shared
pointer: whoever has placed it has the lock and finds it where it was put, so that a reply
begins at its offset; `HandleOpenFile` and `HandleClose` move or shut the handle too, but no
read is under way then (`Handles`). `Bytes` counts what has been sent and what is left, from
the clamp to the sentinel, against what an unchanged file has; `SizesAgree` gives the clamp
its size. `LockInv` adds to it that a handle's mutex is held only by a read that is placed,
and that this read can go on: `ReadsGoOn`. `SeekInv` carries a result of `Lseek` until it is
used; that it is right is `SparseSeekLands`, about the loop through the ranges: a nonempty set
of ranges has one that begins first, which `LeastNumber` gets from the well-foundedness of
the naturals. `AttrInv` is about what the kernel knows of an object, `DirInv` about the
handles of directories.

A listing is a sequence built by recursion (`Visible`), so its facts are proved for every
number by a least counterexample (`LeastNumber` again) instead of by induction: `OrderIs`
says that what the agent has read up to an entry is a prefix of the whole. `ListInv` is
`ListTypes`, `Stages` (where entries on their way can be), `AgentRead`, `NothingLost` and
`EndReasons`. `NothingLost` is the argument: what the kernel has been given, what go-fuse has
left over, what the stream holds and what an answer carries are together, in this order, all
that the agent has read; a batch only moves entries along. The end of a directory can then
be wrong only for one of the reasons `ListingWhole` lists.

**Sessions.** `SessionServed` is inductive with the types: the only step that fills the map
is `Create`, and its handler cannot pass `Find` without emptying the map. `ReconnectOwned` is
inductive too: a goroutine leaves the stages of a reconnection only by a step that stores
another state.

Only model-checked: what must eventually happen under fairness, `Completes`,
`RequestsAnswered`, `DeadLeaves`, `Reconnects` and `CatchesUp`, which the prover does not do, and
`SomeRetryLeft`, whose argument is about which of several loops over files comes last and has not
been cast into an inductive invariant. Every other property of a run that passes has a theorem. What the recursions of the models compute is
proved only in the form of the facts above (prefixes, least ranges).

## 5 Where the code and its comments disagree

- `blamed`: "Agent mount must still be connected after proxmox-backup-client terminates",
  "If not, then the client side process crashed" (`jobrun.go:380`). `Cleanup` of one job
  closes the session of the host (`rpc/mount.go:215`), which `Status` asks for on behalf of
  all jobs of the host: until the agent has connected again, a backup of another job that
  ends is recorded as failed, its child alive and connected.

The following are not runs: for each of them the step is in a model, or the line alone shows it.

- "Close waits for the worker to finish" (`manager.go:160`): it cancels the context and returns;
  operations go on beside it and after it (`Close` of `BackupManager`).
- "GetOrCreateSession ensures a single Session per client" (`session_manager.go:22`): two
  connections of one client that arrive together are both served, and the map keeps one (26, 55;
  `SessionManager`).
- "Now remove all existing retry timer files so that the new one is unique"
  (`retry_scheduler.go:163`): two overlapping calls leave two timers (`RetryTimers`).
- "Number of retries" (`job.js:161`): a job whose ID contains "retry-" is retried without end,
  because the attempt is looked for behind the first "retry-" of the file name
  (`retry_scheduler.go:143`) and always read as none.
- "Only add ACLs if available" (`fuse.go:322`): `user.acls` is listed for every object. Of a
  Windows object the value is an empty list, whatever ACL it has (`fuse.go:273`,
  `responses.go:246`): `AclsSeen` and its theorem state what the code does, not what is wanted.
- A renewed certificate is stored, and the HTTP client of the process goes on with the old one
  (`http.go:49`, `tls_config.go:57`), which the server no longer has pinned: the agent is refused
  until it is restarted (`MakeClient` of `AgentIdentity`).
- "Check if we should use Linux binary instead of Windows" (`plus.go:138`), "Fallback to binary if
  no package manager is detected" (`unix_updater/updater.go:78`): the updater of Unix asks for a
  binary without saying `os=linux` (179, 225) and is given the Windows one, with a checksum that
  fits (`Released` of `AgentUpdater`).

## 6 Abstractions, and what is not modelled

What the models show the code to do, where no line of the repository says otherwise, and
which is therefore no finding:

- When `updateJobStatus` fails at `jobrun.go:345`, the job is unlocked and unmounted, but the
  client that has been started is not killed: a second client of the job can run beside it.
  `OneClientPerJob` is checked and proved without that failure.
- A manager that is closed leaves mutexes locked for good (`LeftLocked`, section 3).
- Two jobs of one host share a backup group, and then the second reads "PBS Plus" as the
  owner to restore: `OwnerOwed` is claimed for groups with one job (`OneWriter`). When the owner
  cannot be read, `FixDatastore` is run all the same and nobody puts it back (`jobrun.go:286`).
- A read-modify-write of a row undoes what was committed between its two halves: an edit the
  result of a run, and a run an edit (hazard 9). An exclusion that is requested for one job is
  taken over from another one (hazard 15). No property denies either.
- An error answer to an enrolment or a renewal is stored as an empty certificate, over a good pair
  in the second case (`torn` of `AgentIdentity`).
- A token on `reconnectChan` that nobody waited for wakes the next waiter too early, and one
  token wakes one of several waiters (`connection_manager.go:263`, `274`): if that is a call,
  Serve can wait on a session that is connected.
- Renewal pins the certificate of a Unix agent to its bare host name
  (`controllers/agents/agents.go:265`), the middleware looks at "<host> - Root": the agent is
  refused after its first renewal. `StaysKnown` is claimed for Windows.

Small things left out of the hazards: the race of `linkJobLog`, the file pointer
that a seek moves by the low 32 bits of the offset, requests of at most 4096 bytes, the path cache of the FUSE
nodes, a mount script lost in a report, an update during a backup,
 a dial that finishes after it was given up
(`connection_manager.go:54`).

Abstractions, by module:

- `BackupManager`: contents of task files, the file of the queue task and the environment from a
  pre-backup script are left out; killing a client takes effect at once; only `Close` cancels the
  context; the retry timers are `RetryTimers`; `BgUnlock` stands for the deferred unlock and
  `wg.Done`, which nothing separates; `runningJobs` is never read and is left out. A refused,
  rejected or aborted operation never closes its queue task in the code, nor does it here.
- `RetryTimers`: one job, since file names of different jobs differ (spaces in an ID are the
  exception); contents of unit files are left out; a timer that fires starts one call.
- `JobStore`: of a row only the schedule and the kind of its last run, which are what
  handlers and runs change against each other; comments, retries and limits behave as the
  schedule does. `SetSchedule` and `DeleteSchedule` write or remove both units in one step, which
  may fail. A transaction is taken to end in the deferred function of its handler; that every
  request is answered is not checked.
- `AgentBackups`: a job is forked for once per operation; LVM, ZFS and btrfs snapshots are
  not modelled (one command each, named by the job as the shadow copies are); the log of Status retries is left out.
- `SessionManager`: routers, versions and streams are left out; smux and the agent are
  external, modelled by what they may do to a connection; the RPC is one at a time for the
  key (two of them for one job are excluded by the job mutex).
- `ArpcSession`: backoff, jitter and timeouts are the nondeterminism of when a step is taken;
  probes are their outcome; a dial that fails is retried and leaves no trace; `reconnectMu`
  guards one store and is left out.
- `RemoteFS`: symbolic links, `StatFS` and the counters of the interface are left out; what a
  system call returns is external; one file handle, one listing, one object at a time, since
  the tables are keyed by handle and do not interact otherwise.
- `AgentIdentity`: a certificate is its number and its checks always succeed for what was signed.
  Left out are an hourly renewal that overlaps the one at start-up, a handler that runs on after
  its client has given up, the validity period as TLS sees it, the data race on the agent's
  `httpClient`, and hosts without a drive C.
- `AgentUpdater`: a file is its version and its system; permissions and logs are left out.

Not modelled: task files and log classification (text, and one writer), the legacy databases
and their migration (run once, in sequence), the web views, the proxied pages and the
JavaScript compiler, ESXi backup (one shell after another), service wrappers and the tray,
codecs of the binary encoding byte by byte, Unix snapshot commands, utilities, packaging. See
the components with status `not_modelled` and `partly` in `PROJECT.json`.

## 7 Plan

Done: all modules above, and the proofs of section 4; all safety properties of the runs are
theorems. What would add most next:

1. `SessionManager` shown to implement the two steps it is in `AgentBackups` (`Register`,
   `HandlerEnds`), with the key's sessions as the mapping.
2. The eventual answer to every request in `JobStore`, as a run of its own with the connection as
   the scarce thing; an inductive invariant for `SomeRetryLeft`.
3. `BackupManager` with several jobs in one backup group: what the owner file can become.
4. The Unix snapshots, and the agent's reconnection loop composed with `SessionManager`: is a
   live agent eventually reachable?
