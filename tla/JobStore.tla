------------------------------- MODULE JobStore -------------------------------
(***************************************************************************)
(* internal/store/database: the tables of jobs and exclusions, and what    *)
(* writes them: the web handlers, and a backup, which reads and rewrites   *)
(* the row of its job at every stage.  All writers share one connection,   *)
(* readers see what has been committed.  Any statement of a transaction    *)
(* may fail, and its COMMIT.  The systemd units of a job are changed       *)
(* inside the transaction: they stay when it does not commit, and it       *)
(* commits when they could not be changed.                                 *)
(***************************************************************************)
EXTENDS Naturals, Sequences

CONSTANTS
  Ids,       \* the IDs generateUniqueJobID can give for the target, in the order it tries
  Paths,     \* paths that can be excluded
  Web,       \* requests of the web interface
  Runs,      \* backups
  Global,    \* owner of an exclusion of no job
  Free,      \* owner of a path that is not excluded
  None       \* no row, no job, no request

JobIds == {Ids[i] : i \in DOMAIN Ids}
Requests == Web \cup Runs

\* What the user configures of a job is whether it has a schedule; what its runs record is
\* whether the last one is a queued task.
Row == [sched : BOOLEAN, last : {"queued", "task"}]

ASSUME JobStoreAssumption ==
  /\ Ids \in Seq(JobIds) /\ \A i, k \in DOMAIN Ids : Ids[i] = Ids[k] => i = k
  /\ {Global, Free, None} \cap JobIds = {} /\ Global # Free
  /\ Web \cap Runs = {} /\ None \notin Requests \cup Row

VARIABLES
  rows,      \* table jobs
  excl,      \* table exclusions: the owner of every path, which is the primary key
  conn,      \* the write connection: whose transaction it carries, and its working tables
  units,     \* jobs that have a timer and a service
  req,       \* requests: what they do, to which job, with which copy of it
  up,        \* the server runs
  clobbered, \* history: jobs last written by a request whose copy was out of date
  torn,      \* history: jobs with a write that did not commit, and nothing of a run since
  unset,     \* history: jobs whose units could not be changed when that was last tried
  untold     \* history: jobs of which a run, or the start of the server, could not write
             \* what it had to say, and nothing of a run since

jobVars == <<rows, excl, conn, units, req, up, clobbered, torn, unset, untold>>
system == <<units, unset>>
history == <<clobbered, torn, untold>>

WebOps == {"create", "edit", "delete", "xcreate", "xedit", "xdelete"}
Stages == {"queue", "prescript", "namespace", "task", "error", "end"}
Namespacing == {"prescript", "namespace"}   \* stages that may change the namespace
Copies == [row : Row \cup {None}, paths : SUBSET Paths]
NoCopy == [row |-> None, paths |-> {}]
Idle == [op |-> "none", at |-> "idle", job |-> None, copy |-> NoCopy, stale |-> FALSE]
NoTx == [by |-> None, ok |-> FALSE, rows |-> <<>>, excl |-> <<>>]

\* What a run does after a write, or instead of it; Execute may also fail.
After(op) ==
  CASE op = "queue" -> {"prescript"}
    [] op = "prescript" -> {"namespace"}
    [] op = "namespace" -> {"task", "error"}
    [] op = "task" -> {"end"}
    [] OTHER -> {}

\* Initialize fills a new database with default exclusions.
JobInit ==
  /\ rows = [j \in JobIds |-> None]
  /\ excl \in [Paths -> {Global, Free}]
  /\ conn = NoTx
  /\ units = {}
  /\ req = [r \in Requests |-> Idle]
  /\ up = TRUE
  /\ clobbered = {} /\ torn = {} /\ unset = {} /\ untold = {}

-----------------------------------------------------------------------------
(* Tables and units *)

OwnedBy(e, j) == {p \in Paths : e[p] = j}
Assign(e, paths, owner) == [p \in Paths |-> IF p \in paths THEN owner ELSE e[p]]

\* GetJob: the row and the exclusions the job owns
GetJob(j) == [row |-> rows[j], paths |-> OwnedBy(excl, j)]

\* CreateExclusion inserts: no path can be there twice, whoever owns it.
CreateExclusion(e, paths) == \A p \in paths : e[p] = Free

\* generateUniqueJobID: the first that is free in what has been committed
generateUniqueJobID(t) ==
  LET free == {i \in DOMAIN Ids : t[Ids[i]] = None}
  IN  {Ids[i] : i \in {i \in free : \A k \in free : i <= k}}

\* GetAllQueuedJobs
GetAllQueuedJobs == {j \in JobIds : rows[j] # None /\ rows[j].last = "queued"}

\* system.SetSchedule, system.DeleteSchedule: a file cannot be written or systemctl fails.
\* The error is logged, and the transaction goes on to its COMMIT.
SetSchedule(j, sched) ==
  \/ units' = (IF sched THEN units \cup {j} ELSE units \ {j}) /\ unset' = unset \ {j}
  \/ unset' = unset \cup {j} /\ UNCHANGED units
DeleteSchedule(j) ==
  \/ units' = units \ {j} /\ unset' = unset \ {j}
  \/ unset' = unset \cup {j} /\ UNCHANGED units

-----------------------------------------------------------------------------
(* Transactions.  Each of these begins one and works in it. *)

Begin(r, ops) == conn.by = None /\ req[r].at = "begin" /\ req[r].op \in ops

Work(r, t, e) == conn' = [by |-> r, ok |-> TRUE, rows |-> t, excl |-> e]

\* A statement fails, or finds what it may not: the tables are as the statements before left them.
Refuse(r, t, e) ==
  conn' = [by |-> r, ok |-> FALSE, rows |-> t, excl |-> e] /\ UNCHANGED system

ToEnd(r) == req' = [req EXCEPT ![r].at = "end"]

\* The exclusions when some of the paths have been inserted.
Inserted(e, paths, owner) ==
  {Assign(e, done, owner) : done \in {d \in SUBSET paths : CreateExclusion(e, d)}}

\* CreateJob: with the ID of the form, or without one
CreateJob(r) ==
  /\ Begin(r, {"create"})
  /\ LET paths == req[r].copy.paths
         row == req[r].copy.row
         ids == IF req[r].job = None THEN generateUniqueJobID(rows) ELSE {req[r].job}
     IN  \/ \E j \in ids :
              /\ rows[j] = None
              /\ CreateExclusion(excl, paths)
              /\ Work(r, [rows EXCEPT ![j] = row], Assign(excl, paths, j))
              /\ SetSchedule(j, row.sched)
              /\ req' = [req EXCEPT ![r].at = "end", ![r].job = j]
         \/ \E j \in ids : \E e \in Inserted(excl, paths, j) :
              /\ rows[j] = None
              /\ Refuse(r, [rows EXCEPT ![j] = row], e) /\ ToEnd(r)
         \/ Refuse(r, rows, excl) /\ ToEnd(r)
  /\ UNCHANGED <<rows, excl, up, history>>

\* Mutant: the units are set before the exclusions are created.
UpdateJobEarly(r) ==
  /\ Begin(r, {"edit"} \cup Stages)
  /\ LET j == req[r].job
         row == req[r].copy.row
         cleared == Assign(excl, OwnedBy(excl, j), Free)
         ok == CreateExclusion(cleared, req[r].copy.paths)
     IN  /\ conn' = [by |-> r, ok |-> ok,
                     rows |-> [rows EXCEPT ![j] = IF @ = None THEN None ELSE row],
                     excl |-> Assign(cleared, req[r].copy.paths, j)]
         /\ SetSchedule(j, row.sched)
  /\ ToEnd(r)
  /\ UNCHANGED <<rows, excl, up, history>>

\* UpdateJob: UPDATE of the whole row, which does not mind when there is none; then the
\* exclusions of the job, deleted and created again; then the units.
UpdateJob(r) ==
  /\ Begin(r, {"edit"} \cup Stages)
  /\ LET j == req[r].job
         row == req[r].copy.row
         paths == req[r].copy.paths
         written == [rows EXCEPT ![j] = IF @ = None THEN None ELSE row]
         cleared == Assign(excl, OwnedBy(excl, j), Free)
     IN  \/ /\ CreateExclusion(cleared, paths)
            /\ Work(r, written, Assign(cleared, paths, j))
            /\ SetSchedule(j, row.sched)
         \/ \E e \in {excl} \cup Inserted(cleared, paths, j) : Refuse(r, written, e)
         \/ Refuse(r, rows, excl)
  /\ ToEnd(r)
  /\ UNCHANGED <<rows, excl, up, history>>

\* Mutant: the exclusions of the job stay.
DeleteJobOnly(r) ==
  /\ Begin(r, {"delete"})
  /\ LET j == req[r].job
     IN  IF rows[j] = None
         THEN Refuse(r, rows, excl)
         ELSE Work(r, [rows EXCEPT ![j] = None], excl) /\ DeleteSchedule(j)
  /\ ToEnd(r)
  /\ UNCHANGED <<rows, excl, up, history>>

\* DeleteJob: the exclusions first, then the row, which must be there.
DeleteJob(r) ==
  /\ Begin(r, {"delete"})
  /\ LET j == req[r].job
         cleared == Assign(excl, OwnedBy(excl, j), Free)
     IN  \/ /\ rows[j] # None
            /\ Work(r, [rows EXCEPT ![j] = None], cleared)
            /\ DeleteSchedule(j)
         \/ \E e \in {excl, cleared} : Refuse(r, rows, e)
  /\ ToEnd(r)
  /\ UNCHANGED <<rows, excl, up, history>>

\* The exclusions page.  UpdateExclusion looks for the new path, not the one that was read,
\* and gives it the owner of the one that was read.
WriteExclusion(r, op, ok, owner) ==
  /\ Begin(r, {op})
  /\ \/ ok /\ Work(r, rows, Assign(excl, req[r].copy.paths, owner)) /\ UNCHANGED system
     \/ Refuse(r, rows, excl)
  /\ ToEnd(r)
  /\ UNCHANGED <<rows, excl, up, history>>

InsertExclusion(r) ==
  WriteExclusion(r, "xcreate", CreateExclusion(excl, req[r].copy.paths), Global)
UpdateExclusion(r) ==
  WriteExclusion(r, "xedit", \A p \in req[r].copy.paths : excl[p] # Free,
                 IF req[r].job = None THEN Global ELSE req[r].job)
DeleteExclusion(r) ==
  WriteExclusion(r, "xdelete", \A p \in req[r].copy.paths : excl[p] # Free, Free)

-----------------------------------------------------------------------------
(* The end of a transaction, and what follows it *)

\* The handler answers, the run goes on; copies that others have of the job get old.
Goes(r, changed) ==
  LET nexts == IF req[r].op = "task" /\ ~ changed THEN {"error"} ELSE After(req[r].op)
      Mine(next) == [req[r] EXCEPT !.op = next, !.at = "read"]
  IN  \E mine \in IF nexts = {} THEN {Idle} ELSE {Mine(next) : next \in nexts} :
        req' = [q \in Requests |->
          IF q = r THEN mine
          ELSE IF changed /\ req[q].at # "idle" THEN [req[q] EXCEPT !.stale = TRUE] ELSE req[q]]

\* The history of a write.
Remember(r, committed) ==
  LET jobs == {req[r].job} \cap JobIds
      fresh == committed /\ req[r].op \in {"delete"} \cup Stages
  IN  /\ clobbered' = IF req[r].stale THEN clobbered \cup jobs
                      ELSE IF fresh THEN clobbered \ jobs ELSE clobbered
      /\ torn' = IF conn.ok /\ ~ committed THEN torn \cup jobs
                 ELSE IF fresh THEN torn \ jobs ELSE torn
      /\ untold' = IF req[r].op \in Stages /\ ~ committed THEN untold \cup jobs
                   ELSE IF fresh THEN untold \ jobs ELSE untold

\* Mutant: the deferred function does not look at the error.
CommitHalf(r) ==
  /\ conn.by = r
  /\ conn' = NoTx
  /\ rows' = conn.rows /\ excl' = conn.excl
  /\ Remember(r, TRUE)
  /\ Goes(r, TRUE)
  /\ UNCHANGED <<system, up>>

\* The deferred function: commit when there was no error, else roll back.
Commit(r) ==
  /\ conn.by = r
  /\ conn' = NoTx
  /\ IF conn.ok THEN rows' = conn.rows /\ excl' = conn.excl ELSE UNCHANGED <<rows, excl>>
  /\ Remember(r, conn.ok)
  /\ Goes(r, conn.ok)
  /\ UNCHANGED <<system, up>>

\* COMMIT fails: the disk is full, or the database busy.
CommitFails(r) ==
  /\ conn.by = r /\ conn.ok
  /\ conn' = NoTx
  /\ Remember(r, FALSE)
  /\ Goes(r, FALSE)
  /\ UNCHANGED <<rows, excl, system, up>>

-----------------------------------------------------------------------------
(* Requests *)

Arrive(r, op, job, row, paths) ==
  /\ up /\ req[r] = Idle
  /\ req' = [req EXCEPT ![r] = [op |-> op, at |-> "begin", job |-> job,
                                copy |-> [row |-> row, paths |-> paths], stale |-> FALSE]]
  /\ UNCHANGED <<rows, excl, conn, system, up, history>>

\* ExtJsJobHandler
ExtJsJobHandler(r) ==
  \E j \in JobIds \cup {None}, sched \in BOOLEAN, paths \in SUBSET Paths :
    Arrive(r, "create", j, [sched |-> sched, last |-> "task"], paths)

\* ExtJsJobSingleHandler, PUT: the row is read, the form is put into it.
ExtJsJobSinglePut(r) ==
  \E j \in JobIds, sched \in BOOLEAN, paths \in SUBSET Paths :
    /\ rows[j] # None
    /\ Arrive(r, "edit", j, [rows[j] EXCEPT !.sched = sched], paths)

ExtJsJobSingleDelete(r) == \E j \in JobIds : Arrive(r, "delete", j, None, {})

\* The exclusions page: create, rename or comment, delete.
ExtJsExclusionHandler(r) == \E p \in Paths : Arrive(r, "xcreate", None, None, {p})
ExtJsExclusionSingleHandler(r) ==
  \E p, q \in Paths :
    \/ Arrive(r, "xdelete", None, None, {p})
    \/ /\ excl[p] # Free
       /\ Arrive(r, "xedit", IF excl[p] = Global THEN None ELSE excl[p], None, {q})

\* pbs-plus -job: the row is read and sent to the server, where one run of a job at a time
\* gets past the queue; a run that reports an error has already let go of the job.
Queue(r) ==
  \E j \in JobIds :
    /\ up /\ req[r] = Idle /\ rows[j] # None
    /\ \A q \in Runs : req[q].job # j \/ req[q].op = "error"
    /\ req' = [req EXCEPT ![r] = [op |-> "queue", at |-> "read", job |-> j,
                                  copy |-> GetJob(j), stale |-> FALSE]]
    /\ UNCHANGED <<rows, excl, conn, system, up, history>>

\* What the run is about to write: updateJobStatus reads the row again and gives up when
\* there is none, PreScript, Execute and CreateError then go on with the copy they have.
Read(r) ==
  LET op == req[r].op
      latest == GetJob(req[r].job)
      last(row) == IF op = "queue" THEN "queued" ELSE IF op \in Namespacing THEN row.last ELSE "task"
  IN  /\ req[r].at = "read"
      /\ \/ /\ latest.row # None
            /\ req' = [req EXCEPT ![r].at = "begin", ![r].stale = FALSE,
                         ![r].copy = [latest EXCEPT !.row.last = last(latest.row)]]
         \/ /\ latest.row = None /\ op \in {"error"} \cup Namespacing
            /\ req' = [req EXCEPT ![r].at = "begin",
                         ![r].copy.row.last = last(req[r].copy.row)]
         \/ /\ latest.row = None /\ op = "queue"
            /\ req' = [req EXCEPT ![r].op = "prescript"]
         \/ /\ latest.row = None /\ op = "task"
            /\ req' = [req EXCEPT ![r].op = "error"]
         \/ /\ latest.row = None /\ op = "end"
            /\ req' = [req EXCEPT ![r] = Idle]
      /\ UNCHANGED <<rows, excl, conn, system, up, history>>

\* Neither a script nor the agent asks for a namespace; or the stage fails.
SkipNamespace(r) ==
  /\ req[r].op \in Namespacing /\ req[r].at = "read"
  /\ \E next \in After(req[r].op) : req' = [req EXCEPT ![r].op = next]
  /\ UNCHANGED <<rows, excl, conn, system, up, history>>

\* CreateError: there is no error file to be had, and then the row is not written.
NoErrorFile(r) ==
  /\ req[r].op = "error" /\ req[r].at = "read"
  /\ req' = [req EXCEPT ![r] = Idle]
  /\ untold' = untold \cup {req[r].job}
  /\ UNCHANGED <<rows, excl, conn, system, up, clobbered, torn>>

-----------------------------------------------------------------------------
(* The server *)

\* The process ends: an open transaction is rolled back, the units stay.
Stop ==
  /\ up /\ up' = FALSE
  /\ conn' = NoTx
  /\ req' = [r \in Requests |-> Idle]
  /\ torn' = IF conn.ok THEN torn \cup ({req[conn.by].job} \cap JobIds) ELSE torn
  /\ UNCHANGED <<rows, excl, system, clobbered, untold>>

\* Mutant: rows that say queued are left as they are.
StartOnly ==
  /\ ~ up /\ up' = TRUE
  /\ UNCHANGED <<rows, excl, conn, system, req, history>>

\* main: before anything is served, jobs that were in the queue are given an error for
\* their last run, in one transaction, that may not begin and may not commit.  A job is left
\* out when its error file or its UPDATE fails; when UpdateJob fails after that, the others
\* follow all the same, and half of its write is committed with them.
Start ==
  /\ ~ up /\ up' = TRUE
  /\ \E told \in SUBSET GetAllQueuedJobs, committed \in BOOLEAN :
     \E whole \in SUBSET told : \E set \in SUBSET whole :
     \E lost \in SUBSET {p \in Paths : excl[p] \in told \ whole} :
       LET seen == IF committed THEN told ELSE {}
       IN  /\ rows' = [j \in JobIds |-> IF j \in seen THEN [rows[j] EXCEPT !.last = "task"] ELSE rows[j]]
           /\ excl' = IF committed THEN Assign(excl, lost, Free) ELSE excl
           /\ units' = (units \ set) \cup {j \in set : rows[j].sched}
           /\ unset' = (unset \ set) \cup (whole \ set)
           /\ torn' = torn \ (seen \cap whole)
           /\ clobbered' = clobbered \ (seen \cap whole)
           /\ untold' = (untold \cup GetAllQueuedJobs) \ seen
  /\ UNCHANGED <<conn, req>>

Transact(r) ==
  \/ CreateJob(r) \/ UpdateJob(r) \/ DeleteJob(r)
  \/ InsertExclusion(r) \/ UpdateExclusion(r) \/ DeleteExclusion(r)
Proceed(r) == Read(r) \/ SkipNamespace(r) \/ NoErrorFile(r) \/ Commit(r) \/ CommitFails(r)

JobNext ==
  \/ \E r \in Web : \/ ExtJsJobHandler(r) \/ ExtJsJobSinglePut(r) \/ ExtJsJobSingleDelete(r)
                    \/ ExtJsExclusionHandler(r) \/ ExtJsExclusionSingleHandler(r)
  \/ \E r \in Runs : Queue(r)
  \/ \E r \in Requests : Transact(r) \/ Proceed(r)
  \/ Stop \/ Start

JobSpec == JobInit /\ [][JobNext]_jobVars
-----------------------------------------------------------------------------
(* Properties *)

JobTypeOK ==
  /\ rows \in [JobIds -> Row \cup {None}]
  /\ excl \in [Paths -> JobIds \cup {Global, Free}]
  /\ conn.by \in Requests \cup {None}
  /\ units \subseteq JobIds
  /\ req \in [Requests -> [op : {"none"} \cup WebOps \cup Stages, at : {"idle", "read", "begin", "end"},
                           job : JobIds \cup {None}, copy : Copies, stale : BOOLEAN]]
  /\ up \in BOOLEAN
  /\ clobbered \subseteq JobIds /\ torn \subseteq JobIds /\ unset \subseteq JobIds /\ untold \subseteq JobIds

\* A path is taken by a job that exists, or nobody could use it again: only a request that
\* had not seen the job deleted can leave an exclusion without its job.
ExclusionsOwned ==
  \A p \in Paths : excl[p] \in JobIds => rows[excl[p]] # None \/ excl[p] \in clobbered

\* The systemd units are those of the rows: scheduled jobs have them, deleted ones do not.
\* They part only in three ways: the transaction that set them did not commit, they could not
\* be set when the row was written (jobs.go 150-156, 355-361, 696-701), or an old copy of the
\* job was written.
UnitsAgree ==
  \A j \in JobIds \ (clobbered \cup torn \cup unset) :
    (conn.by = None \/ req[conn.by].job # j) =>
      (j \in units <=> rows[j] # None /\ rows[j].sched)

\* A row says that the job is queued only while there is a run of it: neither a restart, a
\* failed stage nor an edit in between leaves a job queued for ever.  It stays so only when an
\* old copy was written, or when a run or the start of the server could not write the row at
\* all (manager.go 136-137, 151-154; main.go 184-204).
QueuedIsRunning ==
  up => \A j \in GetAllQueuedJobs \ (clobbered \cup untold) : \E r \in Runs : req[r].job = j

\* What a request asks of the tables: an edit and a stage of a run write the whole row.
NoAsk == [op |-> "none", job |-> None, row |-> None, paths |-> {}]
AskOf(x) ==
  IF x.at \in {"begin", "end"}
  THEN [op |-> IF x.op \in {"edit"} \cup Stages THEN "write" ELSE x.op,
        job |-> x.job, row |-> x.copy.row, paths |-> x.copy.paths]
  ELSE NoAsk
Asks == [r \in Requests |-> AskOf(req[r])]

Tables == INSTANCE JobTables WITH Jobs <- JobIds, asks <- Asks

\* The store implements JobTables: whatever statements fail, and whatever requests, failed
\* commits and stops of the server interleave, the two tables change together, by what one
\* request asks as a whole, and from what is committed at that moment (jobs.go 56-88, 135-143,
\* 339-352, 664-675; sqlite.go 72).  The start of the server alone commits half of a write.
ImplementsJobTables == Tables!Spec
=============================================================================
