----------------------------- MODULE JobStoreProofs -----------------------------
(***************************************************************************)
(* Safety properties of JobStore for every set of jobs, paths and requests.*)
(***************************************************************************)
EXTENDS JobStore, TLAPS

Rows == [JobIds -> Row \cup {None}]
Excls == [Paths -> JobIds \cup {Global, Free}]
Reqs == [op : {"none"} \cup WebOps \cup Stages, at : {"idle", "read", "begin", "end"},
         job : JobIds \cup {None}, copy : Copies, stale : BOOLEAN]

-----------------------------------------------------------------------------
(* Types *)

\* A request that writes a row has one, and all but those that create it know of which job.
ReqOK(x) ==
  /\ x \in Reqs
  /\ x.op \in {"create", "edit"} \cup Stages => x.copy.row \in Row
  /\ x.op \in {"edit", "delete"} \cup Stages => x.job \in JobIds
  /\ x.at = "read" => x.op \in Stages
  /\ x.op # "none" => x.at # "idle"

ReqTypes == req \in [Requests -> Reqs] /\ \A r \in Requests : ReqOK(req[r])

\* What is committed, and what a transaction has worked on.
TableTypes ==
  /\ rows \in Rows /\ excl \in Excls
  /\ conn.ok \in BOOLEAN /\ conn.by \in Requests \cup {None}
  /\ conn.ok => conn.rows \in Rows /\ conn.excl \in Excls /\ conn.by \in Requests

OtherTypes ==
  /\ units \subseteq JobIds /\ up \in BOOLEAN
  /\ clobbered \subseteq JobIds /\ torn \subseteq JobIds /\ unset \subseteq JobIds /\ untold \subseteq JobIds

TypeInv == ReqTypes /\ TableTypes /\ OtherTypes

LEMMA TypeInvTypes == TypeInv => JobTypeOK
BY DEF TypeInv, ReqTypes, TableTypes, OtherTypes, JobTypeOK, Rows, Excls, Reqs

LEMMA NoneApart == None \notin Row /\ None \notin JobIds /\ None \notin Requests
BY JobStoreAssumption

LEMMA IdleOK == ReqOK(Idle)
BY DEF ReqOK, Idle, Reqs, Copies, NoCopy, WebOps, Stages

LEMMA InReqs == \A x : ReqOK(x) => x \in Reqs
BY DEF ReqOK

LEMMA ReqInit == JobInit => ReqTypes
BY IdleOK, InReqs DEF JobInit, ReqTypes

LEMMA TableInit == JobInit => TableTypes /\ OtherTypes
BY DEF JobInit, TableTypes, OtherTypes, Rows, Excls, NoTx

LEMMA GetJobType ==
  ASSUME TableTypes, NEW j \in JobIds
  PROVE  GetJob(j) \in Copies /\ (GetJob(j).row # None => GetJob(j).row \in Row)
BY DEF TableTypes, Rows, GetJob, Copies, OwnedBy

\* What is refused leaves the units alone, and its tables are of no account.
Refused(r) == conn'.by = r /\ conn'.ok = FALSE /\ UNCHANGED system

LEMMA RefuseIs == \A r, t, e : Refuse(r, t, e) => Refused(r)
BY DEF Refuse, Refused

LEMMA UpdateCases ==
  ASSUME NEW r, UpdateJob(r), ~ Refused(r)
  PROVE  LET j == req[r].job
             cleared == Assign(excl, OwnedBy(excl, j), Free)
         IN  /\ CreateExclusion(cleared, req[r].copy.paths)
             /\ Work(r, [rows EXCEPT ![j] = IF @ = None THEN None ELSE req[r].copy.row],
                     Assign(cleared, req[r].copy.paths, j))
BY RefuseIs, Zenon DEF UpdateJob

\* The start: jobs that are told, units that are set, units that are not.
StartDoes(seen, set, missed, fresh, lost) ==
  /\ rows' = [j \in JobIds |-> IF j \in seen THEN [rows[j] EXCEPT !.last = "task"] ELSE rows[j]]
  /\ excl' = Assign(excl, lost, Free)
  /\ units' = (units \ set) \cup {j \in set : rows[j].sched}
  /\ unset' = (unset \ set) \cup missed
  /\ torn' = torn \ fresh /\ clobbered' = clobbered \ fresh
  /\ untold' = (untold \cup GetAllQueuedJobs) \ seen
  /\ fresh \subseteq set \cup missed

LEMMA StartEffect ==
  ASSUME Start, excl \in Excls
  PROVE  \E seen, set, missed, fresh \in SUBSET GetAllQueuedJobs :
         \E lost \in SUBSET {p \in Paths : excl[p] \in seen} : StartDoes(seen, set, missed, fresh, lost)
<1> DEFINE queued == GetAllQueuedJobs
<1>1. PICK told \in SUBSET queued, committed \in BOOLEAN :
        \E whole \in SUBSET told : \E set \in SUBSET whole :
        \E lost \in SUBSET {p \in Paths : excl[p] \in told \ whole} :
          LET seen == IF committed THEN told ELSE {}
          IN  /\ rows' = [j \in JobIds |-> IF j \in seen THEN [rows[j] EXCEPT !.last = "task"] ELSE rows[j]]
              /\ excl' = IF committed THEN Assign(excl, lost, Free) ELSE excl
              /\ units' = (units \ set) \cup {j \in set : rows[j].sched}
              /\ unset' = (unset \ set) \cup (whole \ set)
              /\ torn' = torn \ (seen \cap whole)
              /\ clobbered' = clobbered \ (seen \cap whole)
              /\ untold' = (untold \cup queued) \ seen
  BY DEF Start
<1> DEFINE seen == IF committed THEN told ELSE {}
<1>2. PICK whole \in SUBSET told : \E set \in SUBSET whole :
        \E lost \in SUBSET {p \in Paths : excl[p] \in told \ whole} :
          /\ rows' = [j \in JobIds |-> IF j \in seen THEN [rows[j] EXCEPT !.last = "task"] ELSE rows[j]]
          /\ excl' = IF committed THEN Assign(excl, lost, Free) ELSE excl
          /\ units' = (units \ set) \cup {j \in set : rows[j].sched}
          /\ unset' = (unset \ set) \cup (whole \ set)
          /\ torn' = torn \ (seen \cap whole)
          /\ clobbered' = clobbered \ (seen \cap whole)
          /\ untold' = (untold \cup queued) \ seen
  BY <1>1
<1>3. PICK set \in SUBSET whole, lost \in SUBSET {p \in Paths : excl[p] \in told \ whole} :
        /\ rows' = [j \in JobIds |-> IF j \in seen THEN [rows[j] EXCEPT !.last = "task"] ELSE rows[j]]
        /\ excl' = IF committed THEN Assign(excl, lost, Free) ELSE excl
        /\ units' = (units \ set) \cup {j \in set : rows[j].sched}
        /\ unset' = (unset \ set) \cup (whole \ set)
        /\ torn' = torn \ (seen \cap whole)
        /\ clobbered' = clobbered \ (seen \cap whole)
        /\ untold' = (untold \cup queued) \ seen
  BY <1>2
<1> DEFINE gone == IF committed THEN lost ELSE {}
           missed == whole \ set
           fresh == seen \cap whole
<1>4. excl' = Assign(excl, gone, Free)
  BY <1>3 DEF Assign, Excls
<1>5. /\ seen \in SUBSET queued /\ set \in SUBSET queued /\ missed \in SUBSET queued
      /\ fresh \in SUBSET queued /\ fresh \subseteq set \cup missed
      /\ gone \in SUBSET {p \in Paths : excl[p] \in seen}
  OBVIOUS
<1>6. /\ rows' = [j \in JobIds |-> IF j \in seen THEN [rows[j] EXCEPT !.last = "task"] ELSE rows[j]]
      /\ units' = (units \ set) \cup {j \in set : rows[j].sched}
      /\ unset' = (unset \ set) \cup missed
      /\ torn' = torn \ fresh /\ clobbered' = clobbered \ fresh
      /\ untold' = (untold \cup queued) \ seen
  BY <1>3
<1>7. StartDoes(seen, set, missed, fresh, gone)
  BY <1>4, <1>5, <1>6 DEF StartDoes
<1> HIDE DEF seen, missed, fresh, gone, queued
<1> QED BY <1>5, <1>7, Zenon DEF queued

\* One request changes, and stays of its type.
LEMMA OneChanges ==
  ASSUME ReqTypes, NEW r \in Requests, NEW x, ReqOK(x), req' = [req EXCEPT ![r] = x]
  PROVE  ReqTypes'
BY InReqs DEF ReqTypes

LEMMA Steps ==
  ASSUME JobNext
  PROVE  \/ \E r \in Requests :
              ExtJsJobHandler(r) \/ ExtJsJobSinglePut(r) \/ ExtJsJobSingleDelete(r)
              \/ ExtJsExclusionHandler(r) \/ ExtJsExclusionSingleHandler(r) \/ Queue(r)
         \/ \E r \in Requests : Transact(r) \/ Proceed(r)
         \/ Stop \/ Start
BY DEF JobNext, Requests

LEMMA ArriveType ==
  ASSUME ReqTypes, NEW r \in Requests, NEW op \in WebOps, NEW j \in JobIds \cup {None},
         NEW row \in Row \cup {None}, NEW paths \in SUBSET Paths,
         op \in {"create", "edit"} => row \in Row, op \in {"edit", "delete"} => j \in JobIds,
         Arrive(r, op, j, row, paths)
  PROVE  ReqTypes'
<1> DEFINE x == [op |-> op, at |-> "begin", job |-> j,
                 copy |-> [row |-> row, paths |-> paths], stale |-> FALSE]
<1>1. ReqOK(x)
  BY DEF ReqOK, Reqs, Copies, WebOps, Stages
<1> QED BY <1>1, OneChanges DEF Arrive

LEMMA GoesType ==
  ASSUME ReqTypes, NEW r \in Requests, NEW changed, Goes(r, changed)
  PROVE  ReqTypes'
<1> DEFINE nexts == IF req[r].op = "task" /\ ~ changed THEN {"error"} ELSE After(req[r].op)
           Mine(next) == [req[r] EXCEPT !.op = next, !.at = "read"]
<1>1. PICK mine \in IF nexts = {} THEN {Idle} ELSE {Mine(next) : next \in nexts} :
        req' = [q \in Requests |->
          IF q = r THEN mine
          ELSE IF changed /\ req[q].at # "idle" THEN [req[q] EXCEPT !.stale = TRUE] ELSE req[q]]
  BY DEF Goes
<1>2. ReqOK(mine)
  <2>1. CASE mine = Idle
    BY <2>1, IdleOK
  <2>2. ASSUME NEW next \in nexts, mine = Mine(next) PROVE ReqOK(mine)
    <3>1. req[r].op \in Stages /\ next \in Stages
      BY <2>2 DEF After, Stages
    <3>2. ReqOK(req[r])
      BY DEF ReqTypes
    <3> QED BY <2>2, <3>1, <3>2 DEF ReqOK, Reqs
  <2> QED BY <1>1, <2>1, <2>2
<1>3. \A q \in Requests : ReqOK([req[q] EXCEPT !.stale = TRUE])
  BY DEF ReqTypes, ReqOK, Reqs
<1> QED BY <1>1, <1>2, <1>3, InReqs DEF ReqTypes

LEMMA ReadType ==
  ASSUME ReqTypes, TableTypes, NEW r \in Requests, Read(r)
  PROVE  ReqTypes'
<1> DEFINE op == req[r].op
           latest == GetJob(req[r].job)
           last(row) == IF op = "queue" THEN "queued" ELSE IF op \in Namespacing THEN row.last ELSE "task"
<1>o. /\ ReqOK(req[r]) /\ req[r] \in Reqs /\ op \in Stages /\ req[r].at = "read"
      /\ req[r].job \in JobIds /\ req[r].copy.row \in Row
  BY DEF ReqTypes, Read, ReqOK
<1>l. latest \in Copies /\ (latest.row # None => latest.row \in Row)
  BY <1>o, GetJobType
<1>m. \A row \in Row : last(row) \in {"queued", "task"}
  BY DEF Row
<1>1. CASE latest.row # None /\ req' = [req EXCEPT ![r].at = "begin", ![r].stale = FALSE,
                                   ![r].copy = [latest EXCEPT !.row.last = last(latest.row)]]
  <2> DEFINE c == [latest EXCEPT !.row.last = last(latest.row)]
             x == [req[r] EXCEPT !.at = "begin", !.stale = FALSE, !.copy = c]
  <2> HIDE DEF latest, last
  <2>1. c \in Copies /\ c.row \in Row
    BY <1>1, <1>l, <1>m DEF Copies, Row
  <2> HIDE DEF c
  <2>2. ReqOK(x)
    BY <1>o, <2>1 DEF ReqOK, Reqs
  <2>3. req' = [req EXCEPT ![r] = x]
    BY <1>1 DEF ReqTypes, c
  <2> QED BY <2>2, <2>3, OneChanges
<1>2. CASE req' = [req EXCEPT ![r].at = "begin", ![r].copy.row.last = last(req[r].copy.row)]
  <2> DEFINE x == [req[r] EXCEPT !.at = "begin", !.copy.row.last = last(req[r].copy.row)]
  <2> HIDE DEF last
  <2>1. ReqOK(x)
    BY <1>o, <1>m DEF ReqOK, Reqs, Copies, Row
  <2>2. req' = [req EXCEPT ![r] = x]
    BY <1>2 DEF ReqTypes
  <2> QED BY <2>1, <2>2, OneChanges
<1>3. ASSUME NEW next \in Stages, req' = [req EXCEPT ![r].op = next] PROVE ReqTypes'
  <2>1. ReqOK([req[r] EXCEPT !.op = next])
    BY <1>o DEF ReqOK, Reqs
  <2> QED BY <1>3, <2>1, OneChanges
<1>4. CASE req' = [req EXCEPT ![r] = Idle]
  BY <1>4, IdleOK, OneChanges
<1> QED BY <1>1, <1>2, <1>3, <1>4 DEF Read, Stages

LEMMA ReqStep == ReqTypes /\ TableTypes /\ [JobNext]_jobVars => ReqTypes'
<1> SUFFICES ASSUME ReqTypes, TableTypes, JobNext PROVE ReqTypes'
  BY DEF jobVars, ReqTypes
<1>1. ASSUME NEW r \in Requests, ExtJsJobHandler(r) PROVE ReqTypes'
  <2>1. PICK j \in JobIds \cup {None}, sched \in BOOLEAN, paths \in SUBSET Paths :
          Arrive(r, "create", j, [sched |-> sched, last |-> "task"], paths)
    BY <1>1 DEF ExtJsJobHandler
  <2>2. [sched |-> sched, last |-> "task"] \in Row
    BY DEF Row
  <2> QED BY <2>1, <2>2, ArriveType DEF WebOps
<1>2. ASSUME NEW r \in Requests, ExtJsJobSinglePut(r) PROVE ReqTypes'
  <2>1. PICK j \in JobIds, sched \in BOOLEAN, paths \in SUBSET Paths :
          rows[j] # None /\ Arrive(r, "edit", j, [rows[j] EXCEPT !.sched = sched], paths)
    BY <1>2 DEF ExtJsJobSinglePut
  <2>2. [rows[j] EXCEPT !.sched = sched] \in Row
    BY <2>1 DEF TableTypes, Rows, Row
  <2> QED BY <2>1, <2>2, ArriveType DEF WebOps
<1>3. ASSUME NEW r \in Requests, ExtJsJobSingleDelete(r) PROVE ReqTypes'
  BY <1>3, ArriveType DEF ExtJsJobSingleDelete, WebOps
<1>4. ASSUME NEW r \in Requests, ExtJsExclusionHandler(r) PROVE ReqTypes'
  BY <1>4, ArriveType DEF ExtJsExclusionHandler, WebOps
<1>5. ASSUME NEW r \in Requests, ExtJsExclusionSingleHandler(r) PROVE ReqTypes'
  <2>1. PICK p \in Paths, q \in Paths :
          \/ Arrive(r, "xdelete", None, None, {p})
          \/ Arrive(r, "xedit", IF excl[p] = Global THEN None ELSE excl[p], None, {q}) /\ excl[p] # Free
    BY <1>5 DEF ExtJsExclusionSingleHandler
  <2>2. excl[p] # Free => (IF excl[p] = Global THEN None ELSE excl[p]) \in JobIds \cup {None}
    BY DEF TableTypes, Excls
  <2> QED BY <2>1, <2>2, ArriveType DEF WebOps
<1>6. ASSUME NEW r \in Requests, Queue(r) PROVE ReqTypes'
  <2>1. PICK j \in JobIds :
          rows[j] # None /\ req' = [req EXCEPT ![r] = [op |-> "queue", at |-> "read", job |-> j,
                                                     copy |-> GetJob(j), stale |-> FALSE]]
    BY <1>6 DEF Queue
  <2>2. GetJob(j) \in Copies /\ GetJob(j).row \in Row
    BY <2>1, GetJobType DEF GetJob
  <2>3. ReqOK([op |-> "queue", at |-> "read", job |-> j, copy |-> GetJob(j), stale |-> FALSE])
    BY <2>2 DEF ReqOK, Reqs, Stages
  <2> QED BY <2>1, <2>3, OneChanges
<1>7. ASSUME NEW r \in Requests, Transact(r) PROVE ReqTypes'
  <2>1. ReqOK(req[r]) /\ req[r] \in Reqs
    BY DEF ReqTypes
  <2>2. ReqOK([req[r] EXCEPT !.at = "end"])
    BY <2>1 DEF ReqOK, Reqs
  <2>3. CASE ToEnd(r)
    BY <2>2, <2>3, OneChanges DEF ToEnd
  <2>4. ASSUME NEW j \in JobIds, req' = [req EXCEPT ![r].at = "end", ![r].job = j] PROVE ReqTypes'
    <3>1. ReqOK([req[r] EXCEPT !.at = "end", !.job = j])
      BY <2>1 DEF ReqOK, Reqs
    <3>2. req' = [req EXCEPT ![r] = [req[r] EXCEPT !.at = "end", !.job = j]]
      BY <2>4 DEF ReqTypes
    <3> QED BY <3>1, <3>2, OneChanges
  <2>5. CASE CreateJob(r)
    <3>1. req[r].job # None => req[r].job \in JobIds
      BY <2>1 DEF Reqs
    <3>2. generateUniqueJobID(rows) \subseteq JobIds
      BY DEF generateUniqueJobID, JobIds
    <3> QED BY <2>3, <2>4, <2>5, <3>1, <3>2 DEF CreateJob
  <2> QED
    BY <1>7, <2>3, <2>5 DEF Transact, UpdateJob, DeleteJob, InsertExclusion, UpdateExclusion,
                            DeleteExclusion, WriteExclusion
<1>8. ASSUME NEW r \in Requests, SkipNamespace(r) PROVE ReqTypes'
  <2>1. PICK next \in After(req[r].op) : req' = [req EXCEPT ![r].op = next]
    BY <1>8 DEF SkipNamespace
  <2>2. ReqOK(req[r]) /\ req[r].op \in Stages /\ next \in Stages /\ req[r].at = "read"
    BY <1>8, <2>1 DEF ReqTypes, SkipNamespace, Namespacing, After, Stages
  <2>3. ReqOK([req[r] EXCEPT !.op = next])
    BY <2>2 DEF ReqOK, Reqs
  <2> QED BY <2>1, <2>3, OneChanges
<1>9. ASSUME NEW r \in Requests, Read(r) \/ Commit(r) \/ CommitFails(r) PROVE ReqTypes'
  BY <1>9, ReadType, GoesType DEF Commit, CommitFails
<1>10. CASE Stop
  BY <1>10, IdleOK DEF Stop, ReqTypes, ReqOK
<1>11. CASE Start
  <2>1. req' = req
    BY <1>11 DEF Start
  <2> QED BY <2>1 DEF ReqTypes
<1>12. ASSUME NEW r \in Requests, NoErrorFile(r) PROVE ReqTypes'
  <2>1. req' = [req EXCEPT ![r] = Idle]
    BY <1>12 DEF NoErrorFile
  <2> QED BY <2>1, IdleOK, OneChanges
<1> QED
  BY <1>1, <1>2, <1>3, <1>4, <1>5, <1>6, <1>7, <1>8, <1>9, <1>10, <1>11, <1>12, Steps DEF Proceed

LEMMA WorkType ==
  ASSUME TableTypes, NEW r \in Requests, NEW t \in Rows, NEW e \in Excls, Work(r, t, e),
         UNCHANGED <<rows, excl>>
  PROVE  TableTypes'
BY DEF TableTypes, Work

LEMMA RefuseType ==
  ASSUME TableTypes, NEW r \in Requests, Refused(r), UNCHANGED <<rows, excl>>
  PROVE  TableTypes'
BY DEF TableTypes, Refused

LEMMA AssignType ==
  ASSUME NEW e \in Excls, NEW paths, NEW o \in JobIds \cup {Global, Free}
  PROVE  Assign(e, paths, o) \in Excls
BY DEF Assign, Excls

LEMMA TableStep == ReqTypes /\ TableTypes /\ [JobNext]_jobVars => TableTypes'
<1> SUFFICES ASSUME ReqTypes, TableTypes, JobNext PROVE TableTypes'
  BY DEF jobVars, TableTypes
<1>0. rows \in Rows /\ excl \in Excls
  BY DEF TableTypes
<1>1. ASSUME NEW r \in Requests, CreateJob(r) PROVE TableTypes'
  <2>1. ReqOK(req[r]) /\ req[r].op = "create"
    BY <1>1 DEF CreateJob, Begin, ReqTypes
  <2>2. ASSUME NEW j \in JobIds PROVE [rows EXCEPT ![j] = req[r].copy.row] \in Rows
    BY <1>0, <2>1 DEF ReqOK, Rows
  <2>3. ASSUME NEW j \in JobIds PROVE Assign(excl, req[r].copy.paths, j) \in Excls
    BY <1>0, AssignType
  <2>4. (IF req[r].job = None THEN generateUniqueJobID(rows) ELSE {req[r].job}) \subseteq JobIds
    BY <2>1 DEF ReqOK, Reqs, generateUniqueJobID, JobIds
  <2> QED BY <1>1, <2>2, <2>3, <2>4, WorkType, RefuseType, RefuseIs DEF CreateJob
<1>2. ASSUME NEW r \in Requests, UpdateJob(r) PROVE TableTypes'
  <2> DEFINE j == req[r].job
             cleared == Assign(excl, OwnedBy(excl, j), Free)
             t == [rows EXCEPT ![j] = IF @ = None THEN None ELSE req[r].copy.row]
             e == Assign(cleared, req[r].copy.paths, j)
  <2>1. ReqOK(req[r]) /\ req[r].op \in {"edit"} \cup Stages
    BY <1>2 DEF UpdateJob, Begin, ReqTypes
  <2>2. t \in Rows
    BY <1>0, <2>1 DEF ReqOK, Rows
  <2>3. e \in Excls
    BY <1>0, <2>1, AssignType DEF ReqOK
  <2>4. \/ Work(r, t, e) /\ UNCHANGED <<rows, excl>>
        \/ Refused(r) /\ UNCHANGED <<rows, excl>>
    BY <1>2, RefuseIs DEF UpdateJob
  <2> HIDE DEF t, e
  <2> QED BY <2>2, <2>3, <2>4, WorkType, RefuseType
<1>3. ASSUME NEW r \in Requests, DeleteJob(r) PROVE TableTypes'
  <2> DEFINE j == req[r].job
             t == [rows EXCEPT ![j] = None]
             e == Assign(excl, OwnedBy(excl, j), Free)
  <2>1. t \in Rows /\ e \in Excls
    BY <1>0, AssignType DEF Rows
  <2>2. \/ Work(r, t, e) /\ UNCHANGED <<rows, excl>>
        \/ Refused(r) /\ UNCHANGED <<rows, excl>>
    BY <1>3, RefuseIs DEF DeleteJob
  <2> HIDE DEF t, e
  <2> QED BY <2>1, <2>2, WorkType, RefuseType
<1>4. ASSUME NEW r \in Requests, InsertExclusion(r) \/ UpdateExclusion(r) \/ DeleteExclusion(r)
      PROVE  TableTypes'
  <2> DEFINE W(owner) == Work(r, rows, Assign(excl, req[r].copy.paths, owner))
  <2>1. (IF req[r].job = None THEN Global ELSE req[r].job) \in JobIds \cup {Global, Free}
    BY DEF ReqTypes, ReqOK, Reqs
  <2>2. (\E owner \in JobIds \cup {Global, Free} : W(owner)) \/ Refused(r)
    <3>1. CASE InsertExclusion(r)
      BY <3>1, RefuseIs DEF InsertExclusion, WriteExclusion
    <3>2. CASE UpdateExclusion(r)
      BY <2>1, <3>2, RefuseIs DEF UpdateExclusion, WriteExclusion
    <3>3. CASE DeleteExclusion(r)
      BY <3>3, RefuseIs DEF DeleteExclusion, WriteExclusion
    <3> QED BY <1>4, <3>1, <3>2, <3>3
  <2>3. UNCHANGED <<rows, excl>>
    BY <1>4 DEF InsertExclusion, UpdateExclusion, DeleteExclusion, WriteExclusion
  <2> QED BY <1>0, <2>2, <2>3, AssignType, WorkType, RefuseType
<1>5. ASSUME NEW r \in Requests, Commit(r) \/ CommitFails(r) PROVE TableTypes'
  <2>1. conn' = NoTx /\ NoTx.ok = FALSE /\ NoTx.by = None
    BY <1>5 DEF Commit, CommitFails, NoTx
  <2>2. rows' \in Rows /\ excl' \in Excls
    BY <1>5, <1>0 DEF Commit, CommitFails, TableTypes
  <2> QED BY <2>1, <2>2 DEF TableTypes
<1>6. CASE Stop
  BY <1>6 DEF Stop, TableTypes, NoTx
<1>7. CASE Start
  <2>1. PICK seen \in SUBSET GetAllQueuedJobs, lost \in SUBSET Paths :
          /\ rows' = [j \in JobIds |-> IF j \in seen THEN [rows[j] EXCEPT !.last = "task"] ELSE rows[j]]
          /\ excl' = Assign(excl, lost, Free)
    BY <1>0, <1>7, StartEffect DEF StartDoes
  <2>2. rows' \in Rows
    BY <1>0, <2>1 DEF Rows, Row, GetAllQueuedJobs
  <2>3. excl' \in Excls
    BY <1>0, <2>1, AssignType
  <2>4. conn' = conn
    BY <1>7 DEF Start
  <2> QED BY <2>2, <2>3, <2>4 DEF TableTypes
<1>8. ASSUME NEW r \in Requests,
             \/ ExtJsJobHandler(r) \/ ExtJsJobSinglePut(r) \/ ExtJsJobSingleDelete(r)
             \/ ExtJsExclusionHandler(r) \/ ExtJsExclusionSingleHandler(r) \/ Queue(r)
             \/ Read(r) \/ SkipNamespace(r) \/ NoErrorFile(r)
      PROVE  TableTypes'
  BY <1>8 DEF ExtJsJobHandler, ExtJsJobSinglePut, ExtJsJobSingleDelete, ExtJsExclusionHandler,
              ExtJsExclusionSingleHandler, Arrive, Queue, Read, SkipNamespace,
              NoErrorFile, TableTypes
<1> QED
  BY <1>1, <1>2, <1>3, <1>4, <1>5, <1>6, <1>7, <1>8, Steps DEF Transact, Proceed

LEMMA OtherStep == ReqTypes /\ TableTypes /\ OtherTypes /\ [JobNext]_jobVars => OtherTypes'
<1> SUFFICES ASSUME ReqTypes, TableTypes, OtherTypes, JobNext PROVE OtherTypes'
  BY DEF jobVars, OtherTypes
<1>1. ASSUME NEW r \in Requests, Transact(r) PROVE OtherTypes'
  <2>1. UNCHANGED <<up, clobbered, torn, untold>>
    BY <1>1 DEF Transact, CreateJob, UpdateJob, DeleteJob, InsertExclusion, UpdateExclusion,
                DeleteExclusion, WriteExclusion, history
  <2>2. ReqOK(req[r])
    BY DEF ReqTypes
  <2>3. (\E j \in JobIds : \E sched : SetSchedule(j, sched) \/ DeleteSchedule(j)) \/ UNCHANGED system
    <3>1. CASE CreateJob(r)
      <4>1. (IF req[r].job = None THEN generateUniqueJobID(rows) ELSE {req[r].job}) \subseteq JobIds
        BY <2>2 DEF ReqOK, Reqs, generateUniqueJobID, JobIds
      <4> QED BY <3>1, <4>1, RefuseIs DEF CreateJob, Refused
    <3>2. CASE UpdateJob(r) \/ DeleteJob(r)
      <4>1. req[r].job \in JobIds
        BY <2>2, <3>2 DEF UpdateJob, DeleteJob, Begin, ReqOK
      <4> QED BY <3>2, <4>1, RefuseIs DEF UpdateJob, DeleteJob, Refused
    <3>3. CASE InsertExclusion(r) \/ UpdateExclusion(r) \/ DeleteExclusion(r)
      BY <3>3, RefuseIs DEF InsertExclusion, UpdateExclusion, DeleteExclusion, WriteExclusion, Refused
    <3> QED BY <1>1, <3>1, <3>2, <3>3 DEF Transact
  <2>4. units' \subseteq JobIds /\ unset' \subseteq JobIds
    BY <2>3 DEF SetSchedule, DeleteSchedule, system, OtherTypes
  <2> QED BY <2>1, <2>4 DEF OtherTypes
<1>2. ASSUME NEW r \in Requests, Commit(r) \/ CommitFails(r) PROVE OtherTypes'
  <2>1. UNCHANGED <<units, unset, up>> /\ \E c : Remember(r, c)
    BY <1>2 DEF Commit, CommitFails, system
  <2> QED BY <2>1 DEF Remember, OtherTypes
<1>3. CASE Stop
  BY <1>3 DEF Stop, OtherTypes, system
<1>4. CASE Start
  <2>1. GetAllQueuedJobs \subseteq JobIds /\ up' \in BOOLEAN
    BY <1>4 DEF GetAllQueuedJobs, Start
  <2> QED BY <1>4, <2>1, StartEffect DEF StartDoes, OtherTypes, TableTypes
<1>5. ASSUME NEW r \in Requests,
             \/ ExtJsJobHandler(r) \/ ExtJsJobSinglePut(r) \/ ExtJsJobSingleDelete(r)
             \/ ExtJsExclusionHandler(r) \/ ExtJsExclusionSingleHandler(r) \/ Queue(r)
             \/ Read(r) \/ SkipNamespace(r)
      PROVE  OtherTypes'
  BY <1>5 DEF ExtJsJobHandler, ExtJsJobSinglePut, ExtJsJobSingleDelete, ExtJsExclusionHandler,
              ExtJsExclusionSingleHandler, Arrive, Queue, Read, SkipNamespace, OtherTypes, history, system
<1>6. ASSUME NEW r \in Requests, NoErrorFile(r) PROVE OtherTypes'
  <2>1. req[r].job \in JobIds
    BY <1>6 DEF NoErrorFile, ReqTypes, ReqOK, Stages
  <2> QED BY <1>6, <2>1 DEF NoErrorFile, OtherTypes, system
<1> QED
  BY <1>1, <1>2, <1>3, <1>4, <1>5, <1>6, Steps DEF Proceed

LEMMA Typed ==
  /\ JobInit => TypeInv
  /\ TypeInv /\ [JobNext]_jobVars => TypeInv'
BY ReqInit, TableInit, ReqStep, TableStep, OtherStep DEF TypeInv

\* Every table, transaction and request keeps its type.
THEOREM JobTypeCorrect == JobSpec => []JobTypeOK
BY Typed, TypeInvTypes, PTL DEF JobSpec

-----------------------------------------------------------------------------
(* What a transaction has changed *)

XOps == {"xcreate", "xedit", "xdelete"}

\* The units of a job are those of its row in t.
Agree(t, j) == j \in units <=> t[j] # None /\ t[j].sched

Changed(r) ==
  LET j == req[r].job
      op == req[r].op
  IN  /\ \A k \in JobIds \ {j} : conn.rows[k] = rows[k]
      /\ op \in XOps => conn.rows = rows
      /\ op \in {"edit"} \cup Stages => (conn.rows[j] = None <=> rows[j] = None)
      /\ op = "create" => j \in JobIds /\ conn.rows[j] # None
      /\ op = "delete" => conn.rows[j] = None /\ \A p \in Paths : conn.excl[p] # j
      /\ \A p \in Paths : \/ conn.excl[p] \in {excl[p], Global, Free}
                          \/ conn.excl[p] = j /\ op \in {"create", "edit", "xedit"} \cup Stages
      /\ ~ req[r].stale /\ op \in {"create", "edit", "delete"} \cup Stages =>
           Agree(conn.rows, j) \/ j \in unset

TxInv ==
  /\ ~ up => conn.by = None
  /\ conn.by # None => req[conn.by].at = "end" /\ req[conn.by].op # "none"
  /\ conn.ok => Changed(conn.by)

\* A request whose job is no longer there has a copy from before, or one of an orphan.
SeenGone ==
  \A r \in Requests :
    /\ req[r].op \in {"edit"} \cup Stages /\ rows[req[r].job] = None => req[r].stale
    /\ req[r].op = "xedit" /\ req[r].job \in JobIds /\ rows[req[r].job] = None
         => req[r].stale \/ req[r].job \in clobbered

\* The parts of a transaction's beginning that do not depend on what it does.
Begun(r) ==
  /\ conn.by = None /\ conn'.by = r
  /\ UNCHANGED <<rows, excl, up, clobbered, torn, untold>>
  /\ \A q \in Requests \ {r} : req'[q] = req[q]
  /\ req'[r].at = "end" /\ req'[r].op = req[r].op /\ req'[r].stale = req[r].stale
  /\ req[r].op # "create" => req'[r].job = req[r].job
  /\ conn'.ok => Changed(r)'
  /\ \A k \in JobIds :
       k # req'[r].job \/ ~ conn'.ok \/ req[r].op \in XOps =>
         (k \in units' <=> k \in units) /\ (k \in unset' <=> k \in unset)

LEMMA ToEndEffect ==
  ASSUME ReqTypes, NEW r \in Requests, ToEnd(r)
  PROVE  /\ \A q \in Requests \ {r} : req'[q] = req[q]
         /\ req'[r] = [req[r] EXCEPT !.at = "end"]
         /\ req'[r].at = "end" /\ req'[r].op = req[r].op /\ req'[r].stale = req[r].stale
         /\ req'[r].job = req[r].job
BY DEF ToEnd, ReqTypes, Reqs

LEMMA RefuseEffect ==
  ASSUME ReqTypes, NEW r \in Requests, ToEnd(r), Refused(r), conn.by = None,
         UNCHANGED <<rows, excl, up, history>>
  PROVE  Begun(r)
BY ToEndEffect DEF Refused, Begun, history, system

LEMMA AssignValues ==
  ASSUME NEW e, NEW paths, NEW o, NEW p \in Paths
  PROVE  Assign(e, paths, o)[p] = IF p \in paths THEN o ELSE e[p]
BY DEF Assign

LEMMA CreateEffect ==
  ASSUME TypeInv, NEW r \in Requests, CreateJob(r) PROVE Begun(r)
<1>1. ReqOK(req[r]) /\ req[r] \in Reqs /\ req[r].op = "create" /\ conn.by = None
  BY DEF TypeInv, ReqTypes, ReqOK, CreateJob, Begin
<1>2. CASE Refused(r) /\ ToEnd(r)
  BY <1>1, <1>2, RefuseEffect DEF CreateJob, TypeInv
<1> DEFINE ids == IF req[r].job = None THEN generateUniqueJobID(rows) ELSE {req[r].job}
           paths == req[r].copy.paths
           row == req[r].copy.row
<1>i. ids \subseteq JobIds
  BY <1>1 DEF Reqs, generateUniqueJobID, JobIds
<1>3. ASSUME NEW j \in JobIds,
             Work(r, [rows EXCEPT ![j] = row], Assign(excl, paths, j)), SetSchedule(j, row.sched),
             req' = [req EXCEPT ![r].at = "end", ![r].job = j],
             UNCHANGED <<rows, excl, up, history>>
      PROVE  Begun(r)
  <2>1. row \in Row /\ row # None
    BY <1>1, NoneApart DEF ReqOK
  <2>2. /\ \A q \in Requests \ {r} : req'[q] = req[q]
        /\ req'[r].at = "end" /\ req'[r].op = "create" /\ req'[r].stale = req[r].stale
        /\ req'[r].job = j
    BY <1>1, <1>3 DEF TypeInv, ReqTypes, Reqs
  <2>3. /\ conn'.by = r /\ conn'.rows = [rows EXCEPT ![j] = row]
        /\ conn'.excl = Assign(excl, paths, j)
    BY <1>3 DEF Work
  <2>4. conn'.rows[j] = row /\ \A k \in JobIds \ {j} : conn'.rows[k] = rows[k]
    BY <2>3 DEF TypeInv, TableTypes, Rows
  <2>5. \A p \in Paths : conn'.excl[p] \in {excl[p], j}
    BY <2>3, AssignValues
  <2>6. (j \in units' <=> row.sched) \/ j \in unset'
    BY <1>3 DEF SetSchedule
  <2>7. \A k \in JobIds \ {j} : (k \in units' <=> k \in units) /\ (k \in unset' <=> k \in unset)
    BY <1>3 DEF SetSchedule
  <2>8. Changed(r)'
    <3>1. Agree(conn.rows, req[r].job)' \/ req'[r].job \in unset'
      BY <2>1, <2>2, <2>4, <2>6, Zenon DEF Agree
    <3>2. \A p \in Paths : conn'.excl[p] \in {excl'[p], Global, Free} \/ conn'.excl[p] = req'[r].job
      BY <1>3, <2>2, <2>5
    <3>3. /\ \A k \in JobIds \ {req'[r].job} : conn'.rows[k] = rows'[k]
          /\ req'[r].job \in JobIds /\ conn'.rows[req'[r].job] # None
      BY <1>3, <2>1, <2>2, <2>4
    <3>4. req'[r].op = "create" /\ "create" \notin XOps \cup {"edit", "delete"} \cup Stages
      BY <2>2 DEF XOps, Stages
    <3> QED BY <3>1, <3>2, <3>3, <3>4, Zenon DEF Changed
  <2>9. conn'.by = r /\ UNCHANGED <<rows, excl, up, clobbered, torn, untold>>
    BY <1>3, <2>3 DEF history
  <2>10. \A k \in JobIds : k # req'[r].job \/ ~ conn'.ok \/ req[r].op \in XOps
                          => (k \in units' <=> k \in units) /\ (k \in unset' <=> k \in unset)
    BY <1>1, <1>3, <2>2, <2>3, <2>7 DEF XOps, Work
  <2> QED BY <1>1, <2>2, <2>8, <2>9, <2>10, Zenon DEF Begun
<1> QED BY <1>2, <1>3, <1>i, RefuseIs DEF CreateJob

LEMMA UpdateEffect ==
  ASSUME TypeInv, SeenGone, NEW r \in Requests, UpdateJob(r) PROVE Begun(r)
<1> DEFINE j == req[r].job
           row == req[r].copy.row
           paths == req[r].copy.paths
           cleared == Assign(excl, OwnedBy(excl, j), Free)
<1>1. /\ ReqOK(req[r]) /\ req[r] \in Reqs /\ req[r].op \in {"edit"} \cup Stages /\ conn.by = None
      /\ j \in JobIds /\ row \in Row /\ row # None
  BY NoneApart DEF TypeInv, ReqTypes, ReqOK, UpdateJob, Begin
<1>e. ToEnd(r) /\ UNCHANGED <<rows, excl, up, history>>
  BY DEF UpdateJob
<1>2. CASE Refused(r)
  BY <1>1, <1>2, <1>e, RefuseEffect DEF TypeInv
<1>3. CASE /\ Work(r, [rows EXCEPT ![j] = IF @ = None THEN None ELSE row], Assign(cleared, paths, j))
           /\ SetSchedule(j, row.sched)
  <2>2. /\ \A q \in Requests \ {r} : req'[q] = req[q]
        /\ req'[r].at = "end" /\ req'[r].op = req[r].op /\ req'[r].stale = req[r].stale
        /\ req'[r].job = j
    BY <1>e, ToEndEffect DEF TypeInv
  <2>3. /\ conn'.by = r /\ conn'.rows = [rows EXCEPT ![j] = IF rows[j] = None THEN None ELSE row]
        /\ conn'.excl = Assign(cleared, paths, j)
    BY <1>3 DEF Work
  <2>4. /\ conn'.rows[j] = IF rows[j] = None THEN None ELSE row
        /\ \A k \in JobIds \ {j} : conn'.rows[k] = rows[k]
    BY <1>1, <2>3 DEF TypeInv, TableTypes, Rows
  <2>5. \A p \in Paths : conn'.excl[p] \in {excl[p], Free, j}
    BY <2>3, AssignValues
  <2>6. (j \in units' <=> row.sched) \/ j \in unset'
    BY <1>3 DEF SetSchedule
  <2>7. \A k \in JobIds \ {j} : (k \in units' <=> k \in units) /\ (k \in unset' <=> k \in unset)
    BY <1>3 DEF SetSchedule
  <2>8. ~ req[r].stale => rows[j] # None
    BY <1>1 DEF SeenGone
  <2>9. req[r].op \notin XOps \cup {"create", "delete"}
    BY <1>1 DEF XOps, Stages
  <2>10. Changed(r)'
    <3>1. ~ req[r].stale => Agree(conn.rows, req[r].job)' \/ req'[r].job \in unset'
      BY <1>1, <2>2, <2>4, <2>6, <2>8, Zenon DEF Agree
    <3>2. \A p \in Paths : conn'.excl[p] \in {excl'[p], Global, Free} \/ conn'.excl[p] = req'[r].job
      BY <1>e, <2>2, <2>5
    <3>3. \A k \in JobIds \ {req'[r].job} : conn'.rows[k] = rows'[k]
      BY <1>e, <2>2, <2>4
    <3>4. conn'.rows[req'[r].job] = None <=> rows'[req'[r].job] = None
      BY <1>1, <1>e, <2>2, <2>4
    <3>5. /\ req'[r].op \in {"edit"} \cup Stages /\ req'[r].op \notin XOps \cup {"create", "delete"}
          /\ req'[r].stale = req[r].stale
      BY <1>1, <2>2, <2>9
    <3> QED BY <3>1, <3>2, <3>3, <3>4, <3>5, Zenon DEF Changed
  <2>11. conn'.by = r /\ UNCHANGED <<rows, excl, up, clobbered, torn, untold>>
    BY <1>e, <2>3 DEF history
  <2>12. \A k \in JobIds : k # req'[r].job \/ ~ conn'.ok \/ req[r].op \in XOps
                          => (k \in units' <=> k \in units) /\ (k \in unset' <=> k \in unset)
    BY <1>1, <1>3, <2>2, <2>3, <2>7, <2>9 DEF Work
  <2> QED BY <1>1, <2>2, <2>10, <2>11, <2>12, Zenon DEF Begun
<1> QED BY <1>2, <1>3, RefuseIs DEF UpdateJob

LEMMA DeleteEffect ==
  ASSUME TypeInv, NEW r \in Requests, DeleteJob(r) PROVE Begun(r)
<1> DEFINE j == req[r].job
<1>1. /\ ReqOK(req[r]) /\ req[r] \in Reqs /\ req[r].op = "delete" /\ conn.by = None /\ j \in JobIds
  BY DEF TypeInv, ReqTypes, ReqOK, DeleteJob, Begin
<1>e. ToEnd(r) /\ UNCHANGED <<rows, excl, up, history>>
  BY DEF DeleteJob
<1>2. CASE Refused(r)
  BY <1>1, <1>2, <1>e, RefuseEffect DEF TypeInv
<1>3. CASE /\ Work(r, [rows EXCEPT ![j] = None], Assign(excl, OwnedBy(excl, j), Free))
           /\ DeleteSchedule(j)
  <2>2. /\ \A q \in Requests \ {r} : req'[q] = req[q]
        /\ req'[r].at = "end" /\ req'[r].op = "delete" /\ req'[r].stale = req[r].stale
        /\ req'[r].job = j
    BY <1>1, <1>e, ToEndEffect DEF TypeInv
  <2>3. /\ conn'.by = r /\ conn'.rows = [rows EXCEPT ![j] = None]
        /\ conn'.excl = Assign(excl, OwnedBy(excl, j), Free)
    BY <1>3 DEF Work
  <2>4. conn'.rows[j] = None /\ \A k \in JobIds \ {j} : conn'.rows[k] = rows[k]
    BY <1>1, <2>3 DEF TypeInv, TableTypes, Rows
  <2>5. \A p \in Paths : conn'.excl[p] \in {excl[p], Free} /\ conn'.excl[p] # j
    BY <1>1, <2>3, AssignValues, JobStoreAssumption DEF OwnedBy
  <2>6. /\ j \notin units' \/ j \in unset'
        /\ \A k \in JobIds \ {j} : (k \in units' <=> k \in units) /\ (k \in unset' <=> k \in unset)
    BY <1>3 DEF DeleteSchedule
  <2>7. Changed(r)'
    <3>1. Agree(conn.rows, req[r].job)' \/ req'[r].job \in unset'
      BY <2>2, <2>4, <2>6, Zenon DEF Agree
    <3>2. \A p \in Paths : conn'.excl[p] \in {excl'[p], Global, Free} /\ conn'.excl[p] # req'[r].job
      BY <1>e, <2>2, <2>5
    <3>3. /\ \A k \in JobIds \ {req'[r].job} : conn'.rows[k] = rows'[k]
          /\ conn'.rows[req'[r].job] = None
      BY <1>e, <2>2, <2>4
    <3>4. req'[r].op = "delete" /\ "delete" \notin XOps \cup {"edit", "create"} \cup Stages
      BY <2>2 DEF XOps, Stages
    <3> QED BY <3>1, <3>2, <3>3, <3>4, Zenon DEF Changed
  <2>8. conn'.by = r /\ UNCHANGED <<rows, excl, up, clobbered, torn, untold>>
    BY <1>e, <2>3 DEF history
  <2>9. \A k \in JobIds : k # req'[r].job \/ ~ conn'.ok \/ req[r].op \in XOps
                          => (k \in units' <=> k \in units) /\ (k \in unset' <=> k \in unset)
    BY <1>1, <1>3, <2>2, <2>6 DEF XOps, Work
  <2> QED BY <1>1, <2>2, <2>7, <2>8, <2>9, Zenon DEF Begun
<1> QED BY <1>2, <1>3, RefuseIs DEF DeleteJob

LEMMA WriteEffect ==
  ASSUME TypeInv, NEW r \in Requests, NEW owner \in JobIds \cup {Global, Free},
         req[r].op \in XOps, conn.by = None, ToEnd(r), UNCHANGED <<rows, excl, up, history>>,
         Work(r, rows, Assign(excl, req[r].copy.paths, owner)), UNCHANGED system,
         owner \in JobIds => req[r].op = "xedit" /\ owner = req[r].job
  PROVE  Begun(r)
<1>2. /\ \A q \in Requests \ {r} : req'[q] = req[q]
      /\ req'[r].at = "end" /\ req'[r].op = req[r].op /\ req'[r].stale = req[r].stale
      /\ req'[r].job = req[r].job
  BY ToEndEffect DEF TypeInv
<1>3. /\ conn'.by = r /\ conn'.rows = rows
      /\ conn'.excl = Assign(excl, req[r].copy.paths, owner)
  BY DEF Work
<1>4. \A p \in Paths : conn'.excl[p] \in {excl[p], owner}
  BY <1>3, AssignValues
<1>5. Changed(r)'
  <2>1. \A p \in Paths : \/ conn'.excl[p] \in {excl'[p], Global, Free}
                         \/ conn'.excl[p] = req'[r].job /\ req'[r].op = "xedit"
    BY <1>2, <1>4
  <2>2. conn'.rows = rows'
    BY <1>3
  <2>3. req'[r].op \notin {"create", "edit", "delete"} \cup Stages
    BY <1>2 DEF XOps, Stages
  <2> QED BY <2>1, <2>2, <2>3, Zenon DEF Changed
<1> QED BY <1>2, <1>3, <1>5 DEF Begun, history, system

LEMMA TransactEffect ==
  ASSUME TypeInv, SeenGone, NEW r \in Requests, Transact(r) PROVE Begun(r)
<1>1. ReqOK(req[r]) /\ req[r] \in Reqs
  BY DEF TypeInv, ReqTypes, ReqOK
<1>2. CASE CreateJob(r) \/ UpdateJob(r) \/ DeleteJob(r)
  BY <1>2, CreateEffect, UpdateEffect, DeleteEffect
<1>3. ASSUME InsertExclusion(r) \/ UpdateExclusion(r) \/ DeleteExclusion(r) PROVE Begun(r)
  <2>1. /\ req[r].op \in XOps /\ conn.by = None /\ ToEnd(r)
        /\ UNCHANGED <<rows, excl, up, history>>
    BY <1>3 DEF InsertExclusion, UpdateExclusion, DeleteExclusion, WriteExclusion, Begin, XOps
  <2>2. CASE Refused(r)
    BY <2>1, <2>2, RefuseEffect DEF TypeInv
  <2>3. CASE ~Refused(r)
    <3> DEFINE owner == IF req[r].op = "xcreate" THEN Global
                        ELSE IF req[r].op = "xdelete" THEN Free
                        ELSE IF req[r].job = None THEN Global ELSE req[r].job
    <3>1. owner \in JobIds \cup {Global, Free}
      BY <1>1 DEF Reqs
    <3>2. owner \in JobIds => req[r].op = "xedit" /\ owner = req[r].job
      BY <2>1, JobStoreAssumption DEF XOps
    <3>3. Work(r, rows, Assign(excl, req[r].copy.paths, owner)) /\ UNCHANGED system
      <4>1. CASE InsertExclusion(r)
        BY <2>3, <4>1, RefuseIs DEF InsertExclusion, WriteExclusion, Begin
      <4>2. CASE UpdateExclusion(r)
        BY <2>3, <4>2, RefuseIs DEF UpdateExclusion, WriteExclusion, Begin
      <4>3. CASE DeleteExclusion(r)
        BY <2>3, <4>3, RefuseIs DEF DeleteExclusion, WriteExclusion, Begin
      <4> QED BY <1>3, <4>1, <4>2, <4>3
    <3> HIDE DEF owner
    <3> QED BY <2>1, <3>1, <3>2, <3>3, WriteEffect
  <2> QED BY <2>2, <2>3
<1> QED BY <1>2, <1>3 DEF Transact

-----------------------------------------------------------------------------
(* The invariant *)

\* While the server is down nothing asks for anything.
Quiet == ~ up => conn.by = None /\ ~ conn.ok /\ \A r \in Requests : req[r] = Idle

\* Units that no transaction is at are those of the row.
UnitsInv ==
  \A j \in JobIds \ (clobbered \cup torn \cup unset) :
    conn.by = None \/ ~ conn.ok \/ req[conn.by].job # j \/ req[conn.by].op \in XOps => Agree(rows, j)

JobInv == TypeInv /\ TxInv /\ SeenGone /\ Quiet /\ ExclusionsOwned /\ UnitsInv

LEMMA IdleIsNone == Idle.op = "none" /\ Idle.at = "idle" /\ "none" \notin {"edit", "xedit"} \cup Stages
BY DEF Idle, Stages

LEMMA InvInit == JobInit => JobInv
<1> SUFFICES ASSUME JobInit PROVE JobInv
  OBVIOUS
<1>1. TypeInv
  BY Typed
<1>2. conn.by = None /\ conn.ok = FALSE /\ up = TRUE
  BY DEF JobInit, NoTx
<1>3. \A r \in Requests : req[r] = Idle
  BY DEF JobInit
<1>4. TxInv /\ Quiet
  BY <1>2 DEF TxInv, Quiet
<1>5. SeenGone
  BY <1>3, IdleIsNone DEF SeenGone
<1>6. ExclusionsOwned
  BY JobStoreAssumption DEF JobInit, ExclusionsOwned
<1>7. UnitsInv
  BY DEF JobInit, UnitsInv, Agree
<1> QED BY <1>1, <1>4, <1>5, <1>6, <1>7 DEF JobInv

\* A transaction begins.
LEMMA InvTransact ==
  ASSUME JobInv, TypeInv', NEW r \in Requests, Transact(r) PROVE JobInv'
<1>1. Begun(r)
  BY TransactEffect DEF JobInv
<1>2. /\ r # None /\ conn'.by = r /\ conn.by = None
      /\ req[r].op # "none" /\ req[r] # Idle /\ up
  <2>1. req[r].at = "begin" /\ req[r].op # "none"
    BY DEF Transact, CreateJob, UpdateJob, DeleteJob, InsertExclusion, UpdateExclusion,
           DeleteExclusion, WriteExclusion, Begin, Stages
  <2>2. req[r] # Idle
    BY <2>1, IdleIsNone
  <2> QED BY <1>1, <2>1, <2>2, NoneApart DEF Begun, JobInv, Quiet
<1>3. UNCHANGED <<rows, excl, up, clobbered, torn, untold>>
  BY <1>1 DEF Begun
<1>4. TxInv'
  BY <1>1, <1>2, <1>3 DEF TxInv, Begun
<1>5. SeenGone'
  BY <1>1, <1>3, <1>2 DEF SeenGone, Begun, JobInv, Stages
<1>6. Quiet' /\ ExclusionsOwned'
  BY <1>2, <1>3 DEF Quiet, ExclusionsOwned, JobInv
<1>7. UnitsInv'
  <2> SUFFICES ASSUME NEW j \in JobIds \ (clobbered \cup torn \cup unset'),
                      ~ conn'.ok \/ req'[r].job # j \/ req'[r].op \in XOps
               PROVE  Agree(rows, j)'
    BY <1>2, <1>3 DEF UnitsInv
  <2>2. (j \in units' <=> j \in units) /\ (j \in unset' <=> j \in unset)
    BY <1>1 DEF Begun
  <2>1. Agree(rows, j)
    BY <1>2, <2>2 DEF JobInv, UnitsInv
  <2> QED BY <1>3, <2>1, <2>2, Zenon DEF Agree
<1> QED BY <1>4, <1>5, <1>6, <1>7 DEF JobInv

\* What happens to the requests when a transaction has ended.
LEMMA GoesEffect ==
  ASSUME ReqTypes, NEW r \in Requests, NEW changed \in BOOLEAN, Goes(r, changed)
  PROVE  /\ \A q \in Requests \ {r} : /\ req'[q].op = req[q].op /\ req'[q].job = req[q].job
                                      /\ req'[q].at = req[q].at
                                      /\ req[q].stale => req'[q].stale
                                      /\ changed /\ req[q].at # "idle" => req'[q].stale
         /\ \/ req'[r] = Idle
            \/ /\ req[r].op \in Stages /\ req'[r].op \in Stages
               /\ req'[r].job = req[r].job /\ req'[r].stale = req[r].stale
<1> DEFINE nexts == IF req[r].op = "task" /\ ~ changed THEN {"error"} ELSE After(req[r].op)
           Mine(next) == [req[r] EXCEPT !.op = next, !.at = "read"]
<1>0. \A q \in Requests : req[q] \in Reqs
  BY DEF ReqTypes
<1>1. PICK mine \in IF nexts = {} THEN {Idle} ELSE {Mine(next) : next \in nexts} :
        req' = [q \in Requests |->
          IF q = r THEN mine
          ELSE IF changed /\ req[q].at # "idle" THEN [req[q] EXCEPT !.stale = TRUE] ELSE req[q]]
  BY DEF Goes
<1>2. ASSUME NEW q \in Requests \ {r}
      PROVE  /\ req'[q].op = req[q].op /\ req'[q].job = req[q].job /\ req'[q].at = req[q].at
             /\ req[q].stale => req'[q].stale
             /\ changed /\ req[q].at # "idle" => req'[q].stale
  <2>1. CASE changed /\ req[q].at # "idle"
    <3>1. req'[q] = [req[q] EXCEPT !.stale = TRUE]
      BY <1>1, <2>1
    <3> QED BY <1>0, <3>1 DEF Reqs
  <2>2. CASE ~ (changed /\ req[q].at # "idle")
    BY <1>1, <2>2
  <2> QED BY <2>1, <2>2
<1>3. \/ req'[r] = Idle
      \/ /\ req[r].op \in Stages /\ req'[r].op \in Stages
         /\ req'[r].job = req[r].job /\ req'[r].stale = req[r].stale
  <2>1. req'[r] = mine
    BY <1>1
  <2>2. ASSUME NEW next \in nexts, mine = Mine(next)
        PROVE  /\ req[r].op \in Stages /\ mine.op \in Stages
               /\ mine.job = req[r].job /\ mine.stale = req[r].stale
    <3>1. req[r].op \in Stages /\ next \in Stages
      BY <2>2 DEF After, Stages
    <3> QED BY <1>0, <2>2, <3>1 DEF Reqs
  <2> QED BY <1>1, <2>1, <2>2
<1> QED BY <1>2, <1>3

\* A transaction ends, committed or not.
LEMMA InvEnd ==
  ASSUME JobInv, TypeInv', NEW r \in Requests, Commit(r) \/ CommitFails(r) PROVE JobInv'
<1> DEFINE done == Commit(r) /\ conn.ok
           j == req[r].job
<1>0. /\ conn.by = r /\ r # None /\ conn' = NoTx /\ UNCHANGED <<units, unset, up>> /\ up
      /\ ReqTypes /\ TableTypes /\ req[r] \in Reqs
  BY NoneApart DEF Commit, CommitFails, system, JobInv, Quiet, TypeInv, ReqTypes
<1>1. conn'.by = None /\ conn'.ok = FALSE
  BY <1>0 DEF NoTx
<1>2. IF done THEN rows' = conn.rows /\ excl' = conn.excl ELSE rows' = rows /\ excl' = excl
  BY DEF Commit, CommitFails
<1>3. \E changed \in BOOLEAN : Goes(r, changed) /\ changed = done /\ Remember(r, changed)
  <2>1. CASE Commit(r) /\ conn.ok
    BY <2>1 DEF Commit
  <2>2. CASE Commit(r) /\ ~ conn.ok
    BY <1>0, <2>2 DEF Commit, TableTypes
  <2>3. CASE ~ Commit(r)
    BY <2>3 DEF CommitFails
  <2> QED BY <2>1, <2>2, <2>3
<1>g. (done => Goes(r, TRUE)) /\ (~ done => Goes(r, FALSE))
  <2>1. CASE done
    BY <1>3, <2>1
  <2>2. CASE ~ done
    BY <1>3, <2>2
  <2> QED BY <2>1, <2>2
<1>4. done => Changed(r)
  BY <1>0 DEF JobInv, TxInv
<1>h. /\ clobbered \ {j} \subseteq clobbered'
      /\ j \in clobbered => j \in clobbered' \/ (done /\ req[r].op \in {"delete"} \cup Stages)
      /\ torn \ {j} \subseteq torn'
      /\ j \in torn => j \in torn' \/ (done /\ req[r].op \in {"delete"} \cup Stages)
      /\ req[r].stale /\ j \in JobIds => j \in clobbered'
      /\ conn.ok /\ ~ done /\ j \in JobIds => j \in torn'
  BY <1>3, <1>0 DEF Remember, JobInv, TypeInv, TableTypes
<1>k. \A k \in JobIds : k # j => rows'[k] = rows[k]
  BY <1>2, <1>4 DEF Changed
<1>n. req[r].op \in {"edit"} \cup Stages => (rows'[j] = None <=> rows[j] = None)
  BY <1>2, <1>4 DEF Changed
<1>5. TxInv' /\ Quiet'
  BY <1>0, <1>1 DEF TxInv, Quiet
<1> HIDE DEF done, j
<1>s. SeenGone /\ ExclusionsOwned /\ UnitsInv /\ req[r].op \in WebOps \cup Stages /\ rows \in Rows
  <2>1. req[r].op # "none"
    BY <1>0 DEF JobInv, TxInv
  <2> QED BY <1>0, <2>1 DEF JobInv, Reqs, TableTypes
<1>6. SeenGone'
  <2> SUFFICES ASSUME NEW q \in Requests
               PROVE  /\ req'[q].op \in {"edit"} \cup Stages /\ rows'[req'[q].job] = None => req'[q].stale
                      /\ req'[q].op = "xedit" /\ req'[q].job \in JobIds /\ rows'[req'[q].job] = None
                           => req'[q].stale \/ req'[q].job \in clobbered'
    BY DEF SeenGone
  <2>1. CASE q = r
    <3>1. CASE req'[r] = Idle
      BY <2>1, <3>1, IdleIsNone
    <3>2. CASE /\ req[r].op \in Stages /\ req'[r].op \in Stages
               /\ req'[r].job = req[r].job /\ req'[r].stale = req[r].stale
      <4>1. rows'[req'[r].job] = None => req'[r].stale
        BY <1>n, <1>s, <3>2 DEF SeenGone, j
      <4>2. req'[r].op # "xedit"
        BY <3>2 DEF Stages
      <4> QED BY <2>1, <4>1, <4>2
    <3> QED BY <1>0, <1>3, <3>1, <3>2, GoesEffect
  <2>2. CASE q # r
    <3>1. /\ req'[q].op = req[q].op /\ req'[q].job = req[q].job
          /\ req[q].stale => req'[q].stale
          /\ done /\ req[q].at # "idle" => req'[q].stale
      <4>1. CASE done
        BY <1>0, <1>g, <2>2, <4>1, GoesEffect
      <4>2. CASE ~ done
        BY <1>0, <1>g, <2>2, <4>2, GoesEffect
      <4> QED BY <4>1, <4>2
    <3>2. ReqOK(req[q])
      BY <1>0 DEF ReqTypes
    <3>3. CASE done
      <4>1. req[q].op \in {"edit", "xedit"} \cup Stages => req[q].op # "none"
        BY DEF Stages
      <4> QED BY <3>1, <3>2, <3>3, <4>1 DEF ReqOK
    <3>4. CASE ~ done
      <4>1. rows' = rows /\ clobbered \cap JobIds \subseteq clobbered'
        BY <1>2, <1>h, <3>4
      <4> QED BY <1>s, <3>1, <4>1 DEF SeenGone
    <3> QED BY <3>3, <3>4
  <2> QED BY <2>1, <2>2
<1>7. ExclusionsOwned'
  <2> SUFFICES ASSUME NEW p \in Paths, excl'[p] \in JobIds
               PROVE  rows'[excl'[p]] # None \/ excl'[p] \in clobbered'
    BY DEF ExclusionsOwned
  <2>1. CASE ~ done
    <3>1. rows' = rows /\ excl' = excl /\ clobbered \cap JobIds \subseteq clobbered'
      BY <1>2, <1>h, <2>1
    <3> QED BY <1>s, <3>1 DEF ExclusionsOwned
  <2>2. CASE done /\ excl'[p] # j
    <3>1. excl'[p] = excl[p]
      BY <1>2, <1>4, <2>2, JobStoreAssumption DEF Changed, j
    <3>2. rows'[excl[p]] = rows[excl[p]]
      BY <1>k, <2>2, <3>1
    <3> QED BY <1>h, <1>s, <2>2, <3>1, <3>2 DEF ExclusionsOwned
  <2>3. CASE done /\ excl'[p] = j
    <3>1. CASE req[r].op = "create"
      BY <1>2, <1>4, <2>3, <3>1 DEF Changed, j
    <3>2. CASE req[r].op = "delete"
      BY <1>2, <1>4, <2>3, <3>2 DEF Changed, j
    <3>3. CASE req[r].op \in {"edit"} \cup Stages
      BY <1>h, <1>n, <1>s, <2>3, <3>3 DEF SeenGone, j
    <3>4. CASE req[r].op \in XOps
      <4>1. rows' = rows
        BY <1>2, <1>4, <2>3, <3>4 DEF Changed
      <4>2. excl[p] = j \/ req[r].op = "xedit"
        BY <1>2, <1>4, <2>3, <3>4, JobStoreAssumption DEF Changed, j, XOps, Stages
      <4>3. rows[j] # None \/ j \in clobbered \/ req[r].stale
        BY <1>s, <2>3, <4>2 DEF ExclusionsOwned, SeenGone, j
      <4>4. req[r].op \notin {"delete"} \cup Stages
        BY <3>4 DEF XOps, Stages
      <4> QED BY <1>h, <2>3, <4>1, <4>3, <4>4
    <3> QED BY <1>s, <3>1, <3>2, <3>3, <3>4 DEF WebOps, XOps
  <2> QED BY <2>1, <2>2, <2>3
<1>8. UnitsInv'
  <2> SUFFICES ASSUME NEW k \in JobIds \ (clobbered' \cup torn' \cup unset') PROVE Agree(rows, k)'
    BY DEF UnitsInv
  <2>1. CASE k # j
    <3>1. Agree(rows, k)
      BY <1>0, <1>h, <1>s, <2>1 DEF UnitsInv, j
    <3>2. rows'[k] = rows[k] /\ units' = units
      BY <1>0, <1>k, <2>1
    <3> QED BY <3>1, <3>2, Zenon DEF Agree
  <2>2. CASE k = j /\ done /\ req[r].op \in {"create", "edit", "delete"} \cup Stages
    <3>1. Agree(conn.rows, k)
      BY <1>0, <1>4, <1>h, <2>2, Zenon DEF Changed, j
    <3>2. rows' = conn.rows /\ units' = units
      BY <1>0, <1>2, <2>2
    <3> QED BY <3>1, <3>2, Zenon DEF Agree
  <2>3. CASE k = j /\ (~ done \/ req[r].op \in XOps)
    <3>1. k \notin clobbered \cup torn \cup unset
      BY <1>0, <1>h, <2>3 DEF XOps, Stages
    <3>2. Agree(rows, k)
      <4>1. ~ conn.ok \/ req[conn.by].op \in XOps
        BY <1>0, <1>h, <2>3
      <4> QED BY <1>s, <3>1, <4>1 DEF UnitsInv
    <3>3. rows' = rows /\ units' = units
      BY <1>0, <1>2, <1>4, <2>3 DEF Changed
    <3> QED BY <3>2, <3>3, Zenon DEF Agree
  <2> QED BY <1>s, <2>1, <2>2, <2>3 DEF WebOps, XOps
<1> QED BY <1>5, <1>6, <1>7, <1>8 DEF JobInv

\* One request changes, that is not in its transaction, and nothing else does.
LEMMA InvRequest ==
  ASSUME JobInv, TypeInv', NEW r \in Requests, req[r].at # "end",
         UNCHANGED <<rows, excl, conn, units, unset, up, clobbered, torn, untold>>, up,
         \A q \in Requests \ {r} : req'[q] = req[q],
         req'[r].op \in {"edit"} \cup Stages /\ rows[req'[r].job] = None => req'[r].stale,
         req'[r].op = "xedit" /\ req'[r].job \in JobIds /\ rows[req'[r].job] = None
           => req'[r].stale \/ req'[r].job \in clobbered
  PROVE  JobInv'
<1>1. conn.by # r /\ (conn.by # None => conn.by \in Requests \ {r})
  BY NoneApart DEF JobInv, TxInv, TypeInv, TableTypes
<1>2. conn.by # None => req'[conn.by] = req[conn.by]
  BY <1>1
<1>3. conn.ok => conn.by # None
  BY NoneApart DEF JobInv, TypeInv, TableTypes
<1>4. TxInv'
  <2>1. conn'.ok => Changed(conn.by)'
    <3> SUFFICES ASSUME conn.ok PROVE Changed(conn.by)'
      OBVIOUS
    <3>1. Changed(conn.by)
      BY DEF JobInv, TxInv
    <3> QED BY <1>2, <1>3, <3>1 DEF Changed, Agree
  <2> QED BY <1>2, <2>1 DEF JobInv, TxInv
<1>5. SeenGone'
  BY DEF JobInv, SeenGone
<1>6. Quiet' /\ ExclusionsOwned'
  BY DEF JobInv, Quiet, ExclusionsOwned
<1>7. UnitsInv'
  BY <1>2, <1>3 DEF JobInv, UnitsInv, Agree
<1> QED BY <1>4, <1>5, <1>6, <1>7 DEF JobInv

\* A request of the web interface comes in.
LEMMA InvArrive ==
  ASSUME JobInv, TypeInv', NEW r \in Requests, NEW op, NEW j, NEW row, NEW paths,
         Arrive(r, op, j, row, paths),
         op \in {"edit"} \cup Stages => rows[j] # None,
         op = "xedit" /\ j \in JobIds => rows[j] # None \/ j \in clobbered
  PROVE  JobInv'
<1>1. req[r].at # "end"
  BY IdleIsNone DEF Arrive
<1>2. /\ \A q \in Requests \ {r} : req'[q] = req[q]
      /\ req'[r].op = op /\ req'[r].job = j
  BY DEF Arrive, JobInv, TypeInv, ReqTypes
<1>3. UNCHANGED <<rows, excl, conn, units, unset, up, clobbered, torn, untold>> /\ up
  BY DEF Arrive, history, system
<1> QED BY <1>1, <1>2, <1>3, InvRequest

LEMMA InvRead ==
  ASSUME JobInv, TypeInv', NEW r \in Requests, Read(r) \/ SkipNamespace(r) PROVE JobInv'
<1>1. /\ req[r].at = "read" /\ req[r] \in Reqs /\ ReqOK(req[r])
      /\ req \in [Requests -> Reqs] /\ req[r].op \in Stages
  BY DEF JobInv, TypeInv, ReqTypes, ReqOK, Read, SkipNamespace
<1>2. UNCHANGED <<rows, excl, conn, units, unset, up, clobbered, torn, untold>> /\ up
  <2>1. req[r] # Idle
    BY <1>1, IdleIsNone
  <2> QED BY <2>1 DEF Read, SkipNamespace, history, system, JobInv, Quiet
<1>3. \A q \in Requests \ {r} : req'[q] = req[q]
  BY <1>1 DEF Read, SkipNamespace
<1>4. rows[req[r].job] = None => req[r].stale
  BY <1>1 DEF JobInv, SeenGone
<1>5. \/ req'[r] = Idle
      \/ /\ req'[r].job = req[r].job /\ req'[r].op \in Stages
         /\ rows[req[r].job] # None \/ req'[r].stale = req[r].stale
  <2>1. ASSUME NEW x, ReqOK(x), x.job = req[r].job, x.stale = req[r].stale, x.op \in Stages,
               req' = [req EXCEPT ![r] = x]
        PROVE  req'[r].job = req[r].job /\ req'[r].op \in Stages /\ req'[r].stale = req[r].stale
    BY <1>1, <2>1
  <2>2. CASE SkipNamespace(r)
    <3>1. PICK next \in After(req[r].op) : req' = [req EXCEPT ![r].op = next]
      BY <2>2 DEF SkipNamespace
    <3>2. next \in Stages
      BY <1>1, <3>1 DEF After, Stages
    <3> QED BY <1>1, <3>1, <3>2 DEF Reqs
  <2>3. CASE Read(r)
    <3>1. CASE rows[req[r].job] # None
      BY <1>1, <2>3, <3>1 DEF Read, GetJob, Reqs
    <3>2. CASE rows[req[r].job] = None
      <4>1. \/ /\ req'[r].op = req[r].op
               /\ req'[r].job = req[r].job /\ req'[r].stale = req[r].stale
            \/ /\ req'[r].op \in {"prescript", "error"}
               /\ req'[r].job = req[r].job /\ req'[r].stale = req[r].stale
            \/ req'[r] = Idle
        BY <1>1, <2>3, <3>2 DEF Read, GetJob, Reqs
      <4> QED BY <1>1, <4>1 DEF Stages
    <3> QED BY <3>1, <3>2
  <2> QED BY <2>2, <2>3
<1>6. req'[r].op \in {"edit"} \cup Stages /\ rows[req'[r].job] = None => req'[r].stale
  BY <1>4, <1>5, IdleIsNone
<1>7. req'[r].op # "xedit"
  BY <1>5, IdleIsNone DEF Stages
<1> QED BY <1>1, <1>2, <1>3, <1>6, <1>7, InvRequest

\* No error file: the run is over, and nothing else changes that the invariant is about.
LEMMA InvNoErrorFile ==
  ASSUME JobInv, TypeInv', NEW r \in Requests, NoErrorFile(r) PROVE JobInv'
<1>1. /\ req[r].at = "read" /\ req' = [req EXCEPT ![r] = Idle]
      /\ UNCHANGED <<rows, excl, conn, units, unset, up, clobbered, torn>>
  BY DEF NoErrorFile, system
<1>2. \A q \in Requests : req'[q] = IF q = r THEN Idle ELSE req[q]
  BY <1>1 DEF JobInv, TypeInv, ReqTypes
<1>3. conn.by # r /\ (conn.by # None => conn.by \in Requests \ {r})
  BY <1>1, NoneApart DEF JobInv, TxInv, TypeInv, TableTypes
<1>4. conn.ok => conn.by # None
  BY NoneApart DEF JobInv, TypeInv, TableTypes
<1>5. conn.by # None => req'[conn.by] = req[conn.by]
  BY <1>2, <1>3
<1>6. TxInv'
  <2>1. conn'.ok => Changed(conn.by)'
    <3> SUFFICES ASSUME conn.ok PROVE Changed(conn.by)'
      BY <1>1
    <3>1. Changed(conn.by)
      BY DEF JobInv, TxInv
    <3> QED BY <1>1, <1>4, <1>5, <3>1 DEF Changed, Agree
  <2> QED BY <1>1, <1>5, <2>1 DEF JobInv, TxInv
<1>7. SeenGone'
  BY <1>1, <1>2, IdleIsNone DEF JobInv, SeenGone
<1>8. Quiet' /\ ExclusionsOwned'
  BY <1>1, <1>2 DEF JobInv, Quiet, ExclusionsOwned
<1>9. UnitsInv'
  BY <1>1, <1>4, <1>5 DEF JobInv, UnitsInv, Agree
<1> QED BY <1>6, <1>7, <1>8, <1>9 DEF JobInv

LEMMA InvRestart ==
  ASSUME JobInv, TypeInv', Stop \/ Start PROVE JobInv'
<1>0. rows \in Rows /\ excl \in Excls
  BY DEF JobInv, TypeInv, TableTypes
<1>1. conn'.by = None /\ conn'.ok = FALSE
  BY DEF Stop, Start, NoTx, JobInv, Quiet, TypeInv, TableTypes
<1>2. \A r \in Requests : req'[r] = Idle
  BY DEF Stop, Start, JobInv, Quiet
<1>3. TxInv' /\ Quiet'
  BY <1>1, <1>2 DEF TxInv, Quiet
<1>4. SeenGone'
  BY <1>2, IdleIsNone DEF SeenGone
<1>5. CASE Stop
  <2>1. ExclusionsOwned'
    BY <1>5 DEF Stop, JobInv, ExclusionsOwned
  <2>2. UnitsInv'
    <3> SUFFICES ASSUME NEW j \in JobIds \ (clobbered' \cup torn' \cup unset') PROVE Agree(rows, j)'
      BY DEF UnitsInv
    <3>1. j \notin clobbered \cup torn \cup unset /\ (conn.ok => req[conn.by].job # j)
      BY <1>5 DEF Stop, system
    <3>2. Agree(rows, j)
      BY <3>1 DEF JobInv, UnitsInv
    <3>3. UNCHANGED <<rows, units>>
      BY <1>5 DEF Stop, system
    <3> QED BY <3>2, <3>3, Zenon DEF Agree
  <2> QED BY <1>3, <1>4, <2>1, <2>2 DEF JobInv
<1>6. CASE Start
  <2>1. PICK seen, set, missed, fresh \in SUBSET GetAllQueuedJobs :
        \E lost \in SUBSET {p \in Paths : excl[p] \in seen} :
          /\ rows' = [j \in JobIds |-> IF j \in seen THEN [rows[j] EXCEPT !.last = "task"] ELSE rows[j]]
          /\ excl' = Assign(excl, lost, Free)
          /\ units' = (units \ set) \cup {j \in set : rows[j].sched}
          /\ unset' = (unset \ set) \cup missed
          /\ torn' = torn \ fresh /\ clobbered' = clobbered \ fresh
          /\ untold' = (untold \cup GetAllQueuedJobs) \ seen
          /\ fresh \subseteq set \cup missed
    BY <1>0, <1>6, StartEffect DEF StartDoes
  <2>2. \A j \in GetAllQueuedJobs : j \in JobIds /\ rows[j] \in Row
    BY <1>0 DEF Rows, GetAllQueuedJobs
  <2>3. \A j \in JobIds : rows[j] # None => rows'[j] # None /\ rows'[j].sched = rows[j].sched
    <3> SUFFICES ASSUME NEW j \in JobIds, rows[j] # None
                 PROVE  rows'[j] # None /\ rows'[j].sched = rows[j].sched
      OBVIOUS
    <3>1. rows[j] \in Row
      BY <1>0 DEF Rows
    <3>2. rows'[j] \in {rows[j], [rows[j] EXCEPT !.last = "task"]}
      BY <2>1
    <3>3. rows'[j] \in Row /\ rows'[j].sched = rows[j].sched
      BY <3>1, <3>2 DEF Row
    <3> QED BY <3>3, NoneApart
  <2>4. \A j \in JobIds : rows[j] = None => rows'[j] = None
    BY <2>1, <2>2, NoneApart
  <2>5. ExclusionsOwned'
    <3> SUFFICES ASSUME NEW p \in Paths, excl'[p] \in JobIds
                 PROVE  rows'[excl'[p]] # None \/ excl'[p] \in clobbered'
      BY DEF ExclusionsOwned
    <3>1. excl'[p] \in {excl[p], Free}
      BY <2>1, AssignValues
    <3>2. excl'[p] = excl[p]
      BY <3>1, JobStoreAssumption
    <3>3. rows[excl[p]] # None \/ excl[p] \in clobbered
      BY <3>2 DEF JobInv, ExclusionsOwned
    <3>4. excl[p] \in fresh => rows[excl[p]] # None
      BY <2>2, NoneApart
    <3> QED BY <2>1, <2>3, <3>2, <3>3, <3>4
  <2>6. UnitsInv'
    <3> SUFFICES ASSUME NEW j \in JobIds \ (clobbered' \cup torn' \cup unset') PROVE Agree(rows, j)'
      BY DEF UnitsInv
    <3>1. CASE j \in set
      <4>1. j \in units' <=> rows[j].sched
        BY <2>1, <3>1
      <4>2. rows[j] # None
        BY <2>2, <3>1, NoneApart
      <4>3. rows'[j] # None /\ rows'[j].sched = rows[j].sched
        BY <2>3, <4>2
      <4> QED BY <4>1, <4>3, Zenon DEF Agree
    <3>2. CASE j \notin set
      <4>1. j \notin clobbered \cup torn \cup unset /\ (j \in units' <=> j \in units)
        BY <2>1, <3>2
      <4>2. Agree(rows, j)
        BY <1>6, <4>1 DEF Start, JobInv, UnitsInv, Quiet
      <4>3. CASE rows[j] = None
        <5>1. rows'[j] = None
          BY <2>4, <4>3
        <5> QED BY <4>1, <4>2, <4>3, <5>1, Zenon DEF Agree
      <4>4. CASE rows[j] # None
        <5>1. rows'[j] # None /\ rows'[j].sched = rows[j].sched
          BY <2>3, <4>4
        <5> QED BY <4>1, <4>2, <4>4, <5>1, Zenon DEF Agree
      <4> QED BY <4>3, <4>4
    <3> QED BY <3>1, <3>2
  <2> QED BY <1>3, <1>4, <2>5, <2>6 DEF JobInv
<1> QED BY <1>5, <1>6

LEMMA InvStep == JobInv /\ [JobNext]_jobVars => JobInv'
<1> SUFFICES ASSUME JobInv, [JobNext]_jobVars PROVE JobInv'
  OBVIOUS
<1>t. TypeInv'
  BY Typed DEF JobInv
<1>s. TypeInv /\ excl \in Excls
  BY DEF JobInv, TypeInv, TableTypes
<1>1. ASSUME NEW r \in Requests, ExtJsJobHandler(r) PROVE JobInv'
  BY <1>1, <1>t, InvArrive DEF ExtJsJobHandler, Stages
<1>2. ASSUME NEW r \in Requests, ExtJsJobSinglePut(r) PROVE JobInv'
  BY <1>2, <1>t, InvArrive DEF ExtJsJobSinglePut
<1>3. ASSUME NEW r \in Requests, ExtJsJobSingleDelete(r) PROVE JobInv'
  BY <1>3, <1>t, InvArrive DEF ExtJsJobSingleDelete, Stages
<1>4. ASSUME NEW r \in Requests, ExtJsExclusionHandler(r) PROVE JobInv'
  BY <1>4, <1>t, InvArrive DEF ExtJsExclusionHandler, Stages
<1>5. ASSUME NEW r \in Requests, ExtJsExclusionSingleHandler(r) PROVE JobInv'
  <2>1. PICK p \in Paths, q \in Paths :
          \/ Arrive(r, "xdelete", None, None, {p})
          \/ Arrive(r, "xedit", IF excl[p] = Global THEN None ELSE excl[p], None, {q}) /\ excl[p] # Free
    BY <1>5 DEF ExtJsExclusionSingleHandler
  <2> DEFINE j == IF excl[p] = Global THEN None ELSE excl[p]
  <2>2. j \in JobIds => rows[j] # None \/ j \in clobbered
    BY NoneApart DEF JobInv, ExclusionsOwned
  <2> HIDE DEF j
  <2> QED BY <1>t, <2>1, <2>2, InvArrive DEF Stages, j
<1>6. ASSUME NEW r \in Requests, Queue(r) PROVE JobInv'
  <2>1. PICK j \in JobIds :
          /\ up /\ req[r] = Idle /\ rows[j] # None
          /\ req' = [req EXCEPT ![r] = [op |-> "queue", at |-> "read", job |-> j,
                                        copy |-> GetJob(j), stale |-> FALSE]]
    BY <1>6 DEF Queue
  <2>2. req[r].at # "end"
    BY <2>1, IdleIsNone
  <2>3. /\ \A q \in Requests \ {r} : req'[q] = req[q]
        /\ req'[r].op = "queue" /\ req'[r].job = j
    BY <1>s, <2>1 DEF TypeInv, ReqTypes
  <2>4. UNCHANGED <<rows, excl, conn, units, unset, up, clobbered, torn, untold>>
    BY <1>6 DEF Queue, history, system
  <2> QED BY <1>t, <2>1, <2>2, <2>3, <2>4, InvRequest
<1>7. ASSUME NEW r \in Requests, Transact(r) PROVE JobInv'
  BY <1>7, <1>t, InvTransact
<1>8. ASSUME NEW r \in Requests, Proceed(r) PROVE JobInv'
  BY <1>8, <1>t, InvRead, InvNoErrorFile, InvEnd DEF Proceed
<1>9. CASE Stop \/ Start
  BY <1>9, <1>t, InvRestart
<1>10. CASE UNCHANGED jobVars
  BY <1>10, <1>t DEF jobVars, JobInv, TxInv, Changed, Agree, SeenGone, Quiet, ExclusionsOwned, UnitsInv
<1> QED BY <1>1, <1>2, <1>3, <1>4, <1>5, <1>6, <1>7, <1>8, <1>9, <1>10, Steps

LEMMA InvHolds == JobSpec => []JobInv
BY InvInit, InvStep, PTL DEF JobSpec

\* An excluded path belongs to a job that exists, unless a request with an old copy of the
\* job wrote it last.
THEOREM ExclusionsHaveJobs == JobSpec => []ExclusionsOwned
<1>1. JobInv => ExclusionsOwned
  BY DEF JobInv
<1> QED BY <1>1, InvHolds, PTL

\* The units of a job are what its row says, whatever requests are refused or end with the
\* server, unless the transaction that set them did not commit, they could not be set, or an
\* old copy was written.
THEOREM UnitsFollowRows == JobSpec => []UnitsAgree
<1>1. JobInv => UnitsAgree
  <2> SUFFICES ASSUME JobInv, NEW j \in JobIds \ (clobbered \cup torn \cup unset),
                      conn.by = None \/ req[conn.by].job # j
               PROVE  j \in units <=> rows[j] # None /\ rows[j].sched
    BY DEF UnitsAgree
  <2>1. Agree(rows, j)
    BY DEF JobInv, UnitsInv
  <2> QED BY <2>1, Zenon DEF Agree
<1> QED BY <1>1, InvHolds, PTL

-----------------------------------------------------------------------------
(* What the copies of the requests say of the rows *)

\* Runs come from the queue and requests from the web interface; what each of them writes
\* of the last run.
KindOK(r) ==
  LET x == req[r]
  IN  /\ r \in Runs => x.op \in {"none"} \cup Stages
      /\ x.op \in Stages => r \in Runs
      /\ x.op = "create" => x.copy.row.last = "task"
      /\ x.at \in {"begin", "end"} /\ x.op \in {"task", "error", "end"} => x.copy.row.last = "task"

\* An edit with a copy that is not stale does not change what is recorded of the last run.
FreshOK(r) ==
  LET x == req[r]
  IN  ~ x.stale /\ x.op = "edit" => x.copy.row.last = rows[x.job].last

\* What the tables of a transaction have of the copy it writes.
Written(r) ==
  LET x == req[r]
  IN  /\ conn.ok /\ x.op = "create" => conn.rows[x.job] = x.copy.row
      /\ conn.ok /\ x.op \in {"edit"} \cup Stages =>
           conn.rows[x.job] = IF rows[x.job] = None THEN None ELSE x.copy.row

CopyInv ==
  /\ \A r \in Requests : KindOK(r) /\ FreshOK(r)
  /\ conn.by # None => Written(conn.by)
  /\ QueuedIsRunning

LEMMA IdleCopies ==
  ASSUME NEW r \in Requests, req[r] = Idle PROVE KindOK(r) /\ FreshOK(r)
BY DEF KindOK, FreshOK, Idle, Stages

LEMMA CopyInit == JobInit => CopyInv
<1> SUFFICES ASSUME JobInit PROVE CopyInv
  OBVIOUS
<1>1. \A r \in Requests : KindOK(r) /\ FreshOK(r)
  BY IdleCopies DEF JobInit
<1>2. conn.by = None /\ GetAllQueuedJobs = {}
  BY DEF JobInit, NoTx, GetAllQueuedJobs
<1> QED BY <1>1, <1>2 DEF CopyInv, QueuedIsRunning

\* One request begins its transaction: its copy stays.
LEMMA CopyTransactRequest ==
  ASSUME JobInv, NEW r \in Requests, Transact(r)
  PROVE  /\ req'[r].copy = req[r].copy /\ req[r].at = "begin"
         /\ req[r].op \in WebOps \cup Stages
<1>0. req \in [Requests -> Reqs] /\ req[r] \in Reqs
  BY DEF JobInv, TypeInv, ReqTypes
<1>1. CASE ToEnd(r)
  <2>1. req'[r] = [req[r] EXCEPT !.at = "end"]
    BY <1>0, <1>1 DEF ToEnd
  <2>2. req'[r].copy = req[r].copy
    BY <1>0, <2>1 DEF Reqs
  <2>3. req[r].at = "begin" /\ req[r].op \in WebOps \cup Stages
    BY DEF Transact, CreateJob, UpdateJob, DeleteJob, InsertExclusion, UpdateExclusion,
           DeleteExclusion, WriteExclusion, Begin, WebOps
  <2> QED BY <2>2, <2>3
<1>2. ASSUME CreateJob(r), NEW j, req' = [req EXCEPT ![r].at = "end", ![r].job = j]
      PROVE  /\ req'[r].copy = req[r].copy /\ req[r].at = "begin" /\ req[r].op = "create"
  BY <1>0, <1>2 DEF CreateJob, Begin, Reqs
<1>3. ASSUME CreateJob(r), ~ ToEnd(r) PROVE \E j : req' = [req EXCEPT ![r].at = "end", ![r].job = j]
  BY <1>3 DEF CreateJob
<1>4. Transact(r) => ToEnd(r) \/ CreateJob(r)
  BY DEF Transact, UpdateJob, DeleteJob, InsertExclusion, UpdateExclusion, DeleteExclusion, WriteExclusion
<1> QED BY <1>1, <1>2, <1>3, <1>4 DEF WebOps

\* What its tables have of the copy.
LEMMA CopyWritten ==
  ASSUME JobInv, CopyInv, NEW r \in Requests, Transact(r) PROVE Written(r)'
<1>0. /\ ReqOK(req[r]) /\ req[r] \in Reqs /\ rows \in Rows /\ excl \in Excls
      /\ KindOK(r) /\ FreshOK(r)
  BY DEF JobInv, TypeInv, ReqTypes, TableTypes, CopyInv
<1>b. Begun(r)
  BY TransactEffect DEF JobInv
<1>1. /\ req'[r].copy = req[r].copy /\ req'[r].op = req[r].op /\ req'[r].stale = req[r].stale
      /\ rows' = rows /\ excl' = excl
  BY <1>b, CopyTransactRequest DEF Begun
<1>2. CASE req[r].op = "create"
  <2>1. CreateJob(r)
    BY <1>2 DEF Transact, UpdateJob, DeleteJob, InsertExclusion, UpdateExclusion,
                DeleteExclusion, WriteExclusion, Begin, Stages
  <2>2. conn'.ok => conn'.rows[req'[r].job] = req[r].copy.row
    <3>1. CASE Refused(r)
      BY <3>1 DEF Refused
    <3>2. CASE ~ Refused(r)
      <4> DEFINE ids == IF req[r].job = None THEN generateUniqueJobID(rows) ELSE {req[r].job}
      <4>1. PICK j \in ids :
              /\ Work(r, [rows EXCEPT ![j] = req[r].copy.row], Assign(excl, req[r].copy.paths, j))
              /\ req' = [req EXCEPT ![r].at = "end", ![r].job = j]
        BY <2>1, <3>2, RefuseIs DEF CreateJob
      <4>2. ids \subseteq JobIds
        BY <1>0 DEF Reqs, generateUniqueJobID, JobIds
      <4>3. req'[r].job = j
        BY <1>0, <4>1 DEF JobInv, TypeInv, ReqTypes, Reqs
      <4> HIDE DEF ids
      <4> QED BY <1>0, <4>1, <4>2, <4>3 DEF Work, Rows
    <3> QED BY <3>1, <3>2
  <2>3. "create" \notin {"edit"} \cup Stages
    BY DEF Stages
  <2> QED BY <1>1, <1>2, <2>2, <2>3 DEF Written
<1>3. CASE req[r].op \in {"edit"} \cup Stages
  <2> DEFINE j == req[r].job
             paths == req[r].copy.paths
             cleared == Assign(excl, OwnedBy(excl, j), Free)
             t == [rows EXCEPT ![j] = IF @ = None THEN None ELSE req[r].copy.row]
             e == Assign(cleared, paths, j)
  <2>1. UpdateJob(r)
    BY <1>3 DEF Transact, CreateJob, DeleteJob, InsertExclusion, UpdateExclusion,
                DeleteExclusion, WriteExclusion, Begin, Stages
  <2>2. /\ j \in JobIds /\ req'[r].job = j /\ paths \subseteq Paths /\ req[r].op # "create"
    BY <1>0, <1>3, <1>b DEF ReqOK, Begun, Reqs, Copies, Stages
  <2>3. CASE ~ Refused(r)
    <3>1. conn'.ok /\ conn'.rows = t /\ conn'.excl = e
      BY <2>1, <2>3, UpdateCases DEF Work
    <3>2. t[j] = IF rows[j] = None THEN None ELSE req[r].copy.row
      BY <1>0, <2>2 DEF Rows
    <3> HIDE DEF t, e
    <3> QED BY <1>1, <2>2, <3>1, <3>2, Zenon DEF Written
  <2>4. CASE Refused(r)
    BY <1>1, <2>2, <2>4 DEF Written, Refused
  <2> QED BY <2>3, <2>4
<1>4. CASE req[r].op \notin {"create", "edit"} \cup Stages
  BY <1>1, <1>4 DEF Written
<1> QED BY <1>2, <1>3, <1>4

LEMMA CopyTransact ==
  ASSUME JobInv, CopyInv, NEW r \in Requests, Transact(r) PROVE CopyInv'
<1>b. Begun(r)
  BY TransactEffect DEF JobInv
<1>1. /\ req'[r].copy = req[r].copy /\ req'[r].op = req[r].op /\ req'[r].stale = req[r].stale
      /\ req[r].at = "begin" /\ req'[r].at = "end" /\ req[r].op \in WebOps \cup Stages
      /\ req[r].op # "create" => req'[r].job = req[r].job
  BY <1>b, CopyTransactRequest DEF Begun
<1>2. rows' = rows /\ excl' = excl /\ up' = up /\ clobbered' = clobbered /\ untold' = untold
  BY <1>b DEF Begun
<1>3. KindOK(r)' /\ FreshOK(r)'
  <2>1. KindOK(r) /\ FreshOK(r)
    BY DEF CopyInv
  <2> QED BY <1>1, <1>2, <2>1 DEF KindOK, FreshOK, Stages
<1>4. \A q \in Requests \ {r} : KindOK(q)' /\ FreshOK(q)'
  <2> SUFFICES ASSUME NEW q \in Requests \ {r} PROVE KindOK(q)' /\ FreshOK(q)'
    OBVIOUS
  <2>1. KindOK(q) /\ FreshOK(q) /\ req'[q] = req[q]
    BY <1>b DEF CopyInv, Begun
  <2> QED BY <1>2, <2>1 DEF KindOK, FreshOK
<1>5. QueuedIsRunning'
  <2>1. \A q \in Runs : req'[q].job = req[q].job
    <3>1. r \in Runs => req[r].op # "create"
      BY DEF CopyInv, KindOK, Stages
    <3> QED BY <1>1, <1>b, <3>1 DEF Begun, Requests
  <2> QED BY <1>2, <2>1 DEF CopyInv, QueuedIsRunning, GetAllQueuedJobs
<1>6. Written(conn.by)'
  BY <1>b, CopyWritten DEF Begun
<1> QED BY <1>3, <1>4, <1>5, <1>6 DEF CopyInv

\* What the end of a transaction makes of the copies.
LEMMA GoesCopies ==
  ASSUME ReqTypes, NEW r \in Requests, NEW changed \in BOOLEAN, Goes(r, changed)
  PROVE  /\ \A q \in Requests \ {r} : /\ req'[q].copy = req[q].copy
                                      /\ ~ changed => req'[q] = req[q]
         /\ \/ /\ req'[r] = Idle
               /\ req[r].op \notin {"queue", "prescript", "namespace", "task"}
            \/ /\ req[r].op \in Stages /\ req'[r].op \in Stages /\ req'[r].at = "read"
               /\ req'[r].job = req[r].job /\ req'[r].stale = req[r].stale
               /\ req'[r].copy = req[r].copy
<1> DEFINE nexts == IF req[r].op = "task" /\ ~ changed THEN {"error"} ELSE After(req[r].op)
           Mine(next) == [req[r] EXCEPT !.op = next, !.at = "read"]
<1>0. \A q \in Requests : req[q] \in Reqs
  BY DEF ReqTypes
<1>1. PICK mine \in IF nexts = {} THEN {Idle} ELSE {Mine(next) : next \in nexts} :
        req' = [q \in Requests |->
          IF q = r THEN mine
          ELSE IF changed /\ req[q].at # "idle" THEN [req[q] EXCEPT !.stale = TRUE] ELSE req[q]]
  BY DEF Goes
<1>2. ASSUME NEW q \in Requests \ {r}
      PROVE  req'[q].copy = req[q].copy /\ (~ changed => req'[q] = req[q])
  <2>1. CASE changed /\ req[q].at # "idle"
    <3>1. req'[q] = [req[q] EXCEPT !.stale = TRUE]
      BY <1>1, <2>1
    <3> QED BY <1>0, <2>1, <3>1 DEF Reqs
  <2>2. CASE ~ (changed /\ req[q].at # "idle")
    BY <1>1, <2>2
  <2> QED BY <2>1, <2>2
<1>3. req'[r] = mine
  BY <1>1
<1>4. CASE nexts = {}
  BY <1>1, <1>2, <1>3, <1>4 DEF After
<1>5. ASSUME NEW next \in nexts, mine = Mine(next)
      PROVE  /\ req[r].op \in Stages /\ mine.op \in Stages /\ mine.at = "read"
             /\ mine.job = req[r].job /\ mine.stale = req[r].stale /\ mine.copy = req[r].copy
  <2>1. req[r].op \in Stages /\ next \in Stages
    BY <1>5 DEF After, Stages
  <2> QED BY <1>0, <1>5, <2>1 DEF Reqs
<1>6. CASE nexts # {}
  BY <1>1, <1>2, <1>3, <1>5, <1>6
<1> QED BY <1>4, <1>6

\* A transaction ends: what it has written is what its copy says.
LEMMA CopyEnd ==
  ASSUME JobInv, CopyInv, TypeInv', NEW r \in Requests, Commit(r) \/ CommitFails(r) PROVE CopyInv'
<1> DEFINE done == Commit(r) /\ conn.ok
           j == req[r].job
           op == req[r].op
<1>0. /\ conn.by = r /\ r # None /\ conn' = NoTx /\ up' = up /\ up
      /\ ReqTypes /\ TableTypes /\ ReqOK(req[r]) /\ req[r] \in Reqs /\ rows \in Rows
      /\ KindOK(r) /\ FreshOK(r) /\ Written(r) /\ SeenGone
      /\ op \in WebOps \cup Stages /\ conn.ok \in BOOLEAN
  BY NoneApart DEF Commit, CommitFails, JobInv, TxInv, Quiet, TypeInv, ReqTypes, TableTypes, CopyInv, Reqs
<1>1. conn'.by = None
  BY <1>0 DEF NoTx
<1>2. IF done THEN rows' = conn.rows /\ excl' = conn.excl ELSE rows' = rows /\ excl' = excl
  BY DEF Commit, CommitFails
<1>3. \E changed \in BOOLEAN : Goes(r, changed) /\ changed = done /\ Remember(r, changed)
  <2>1. CASE Commit(r) /\ conn.ok
    BY <2>1 DEF Commit
  <2>2. CASE Commit(r) /\ ~ conn.ok
    BY <1>0, <2>2 DEF Commit
  <2>3. CASE ~ Commit(r)
    BY <2>3 DEF CommitFails
  <2> QED BY <2>1, <2>2, <2>3
<1>4. done => Changed(r)
  BY <1>0 DEF JobInv, TxInv
<1>5. /\ clobbered \ {j} \subseteq clobbered'
      /\ j \in clobbered => j \in clobbered' \/ (done /\ op \in {"delete"} \cup Stages)
      /\ untold \ {j} \subseteq untold'
      /\ j \in untold => j \in untold' \/ (done /\ op \in {"delete"} \cup Stages)
      /\ req[r].stale /\ j \in JobIds => j \in clobbered'
      /\ op \in Stages /\ ~ done /\ j \in JobIds => j \in untold'
  BY <1>3, <1>0 DEF Remember, JobInv, TypeInv
<1>6. \A q \in Requests \ {r} :
        /\ req'[q].op = req[q].op /\ req'[q].job = req[q].job /\ req'[q].at = req[q].at
        /\ req'[q].copy = req[q].copy
        /\ IF done THEN req[q].at # "idle" => req'[q].stale ELSE req'[q] = req[q]
  <2>1. PICK changed \in BOOLEAN : Goes(r, changed) /\ changed = done
    BY <1>3
  <2> HIDE DEF done
  <2>2. \A q \in Requests \ {r} :
          /\ req'[q].op = req[q].op /\ req'[q].job = req[q].job /\ req'[q].at = req[q].at
          /\ changed /\ req[q].at # "idle" => req'[q].stale
    BY <1>0, <2>1, GoesEffect
  <2>3. \A q \in Requests \ {r} :
          req'[q].copy = req[q].copy /\ (~ changed => req'[q] = req[q])
    BY <1>0, <2>1, GoesCopies
  <2> QED BY <2>1, <2>2, <2>3
<1>7. \/ req'[r] = Idle /\ op \notin {"queue", "prescript", "namespace", "task"}
      \/ /\ op \in Stages /\ req'[r].op \in Stages /\ req'[r].at = "read"
         /\ req'[r].job = j /\ req'[r].stale = req[r].stale /\ req'[r].copy = req[r].copy
  BY <1>0, <1>3, GoesCopies
<1>8. \A k \in JobIds : k # j => rows'[k] = rows[k]
  BY <1>2, <1>4 DEF Changed
<1> HIDE DEF done, j, op
<1>9. KindOK(r)' /\ FreshOK(r)'
  <2>1. CASE req'[r] = Idle
    BY <2>1 DEF KindOK, FreshOK, Idle, Stages
  <2>2. CASE /\ op \in Stages /\ req'[r].op \in Stages /\ req'[r].at = "read"
             /\ req'[r].job = j /\ req'[r].stale = req[r].stale /\ req'[r].copy = req[r].copy
    <3>1. KindOK(r)'
      BY <1>0, <2>2 DEF KindOK, Stages, op
    <3>2. FreshOK(r)'
      BY <2>2 DEF FreshOK, Stages
    <3> QED BY <3>1, <3>2
  <2> QED BY <1>7, <2>1, <2>2
<1>10. ASSUME NEW q \in Requests \ {r} PROVE KindOK(q)' /\ FreshOK(q)'
  <2>0. KindOK(q) /\ FreshOK(q) /\ ReqOK(req[q])
    BY <1>0 DEF CopyInv, ReqTypes
  <2>1. KindOK(q)'
    BY <1>6, <2>0 DEF KindOK
  <2>2. CASE done
    BY <1>6, <2>0, <2>1, <2>2 DEF FreshOK, ReqOK, Stages
  <2>3. CASE ~ done
    BY <1>2, <1>6, <2>0, <2>1, <2>3 DEF FreshOK
  <2> QED BY <2>1, <2>2, <2>3
<1>11. QueuedIsRunning'
  <2> SUFFICES ASSUME NEW k \in JobIds, rows'[k] # None, rows'[k].last = "queued",
                      k \notin clobbered' \cup untold'
               PROVE  \E q \in Runs : req'[q].job = k
    BY DEF QueuedIsRunning, GetAllQueuedJobs
  <2>q. ASSUME rows[k] # None, rows[k].last = "queued", k \notin clobbered \cup untold
        PROVE  \E q \in Runs : req[q].job = k
    BY <1>0, <2>q DEF CopyInv, QueuedIsRunning, GetAllQueuedJobs
  <2>1. CASE k # j
    <3>1. PICK q \in Runs : req[q].job = k
      BY <1>5, <1>8, <2>1, <2>q
    <3> QED BY <1>6, <2>1, <3>1 DEF j, Requests
  <2>2. CASE k = j /\ op \notin Stages
    <3>1. rows[k] # None /\ rows[k].last = "queued" /\ k \notin clobbered \cup untold
      <4>1. CASE ~ done
        BY <1>2, <1>5, <2>2, <4>1
      <4>2. CASE done /\ op = "create"
        BY <1>0, <1>2, <2>2, <4>2 DEF Written, KindOK, op, j, done
      <4>3. CASE done /\ op = "delete"
        BY <1>2, <1>4, <2>2, <4>3 DEF Changed, op, j
      <4>4. CASE done /\ op = "edit"
        <5>1. ~ req[r].stale /\ k \notin clobbered \cup untold
          BY <1>5, <2>2, <4>4 DEF Stages
        <5>2. rows'[k] = req[r].copy.row /\ rows[k] # None
          BY <1>0, <1>2, <2>2, <4>4 DEF Written, op, j, done
        <5> QED BY <1>0, <2>2, <4>4, <5>1, <5>2 DEF FreshOK, op, j
      <4>5. CASE done /\ op \in XOps
        <5>1. rows' = rows
          BY <1>2, <1>4, <4>5 DEF Changed, op
        <5>2. op \notin {"delete"} \cup Stages
          BY <4>5 DEF XOps, Stages
        <5> QED BY <1>5, <2>2, <5>1, <5>2
      <4> QED BY <1>0, <2>2, <4>1, <4>2, <4>3, <4>4, <4>5 DEF WebOps, XOps
    <3>2. PICK q \in Runs : req[q].job = k
      BY <2>q, <3>1
    <3>3. q # r
      BY <1>0, <2>2 DEF KindOK, op, WebOps, Stages
    <3> QED BY <1>6, <3>2, <3>3 DEF Requests
  <2>3. CASE k = j /\ op \in Stages
    <3>1. done
      BY <1>0, <1>5, <2>3 DEF Written, op
    <3>2. rows'[k] = req[r].copy.row
      BY <1>0, <1>2, <2>3, <3>1 DEF Written, op, j, done
    <3>3. req[r].at = "end"
      BY <1>0 DEF JobInv, TxInv
    <3>4. op \in {"queue", "prescript", "namespace"}
      BY <1>0, <2>3, <3>2, <3>3 DEF KindOK, Stages, op
    <3>5. req'[r].job = k /\ r \in Runs
      BY <1>0, <1>7, <2>3, <3>4 DEF KindOK, op
    <3> QED BY <3>5
  <2> QED BY <2>1, <2>2, <2>3
<1> QED BY <1>1, <1>9, <1>10, <1>11 DEF CopyInv

\* One request changes, that is not in its transaction, and nothing else does.
LEMMA CopyRequest ==
  ASSUME JobInv, CopyInv, NEW r \in Requests, req[r].at # "end",
         UNCHANGED <<rows, excl, conn, units, unset, up, clobbered, torn, untold>>,
         \A q \in Requests \ {r} : req'[q] = req[q],
         KindOK(r)', FreshOK(r)',
         r \in Runs /\ req[r].job \in JobIds /\ rows[req[r].job] # None => req'[r].job = req[r].job
  PROVE  CopyInv'
<1>1. \A q \in Requests \ {r} : KindOK(q)' /\ FreshOK(q)'
  <2> SUFFICES ASSUME NEW q \in Requests \ {r} PROVE KindOK(q)' /\ FreshOK(q)'
    OBVIOUS
  <2>1. KindOK(q) /\ FreshOK(q)
    BY DEF CopyInv
  <2> QED BY <2>1 DEF KindOK, FreshOK
<1>2. conn'.by # None => Written(conn.by)'
  <2> SUFFICES ASSUME conn.by # None PROVE Written(conn.by)'
    OBVIOUS
  <2>1. conn.by \in Requests \ {r}
    BY DEF JobInv, TypeInv, TableTypes, TxInv
  <2> QED BY <2>1 DEF CopyInv, Written
<1>3. QueuedIsRunning'
  <2> SUFFICES ASSUME up, NEW j \in JobIds, rows[j] # None, rows[j].last = "queued",
                      j \notin clobbered \cup untold
               PROVE  \E q \in Runs : req'[q].job = j
    BY DEF QueuedIsRunning, GetAllQueuedJobs
  <2>1. PICK q \in Runs : req[q].job = j
    BY DEF CopyInv, QueuedIsRunning, GetAllQueuedJobs
  <2> QED BY <2>1 DEF Requests
<1> QED BY <1>1, <1>2, <1>3 DEF CopyInv

LEMMA CopyArrive ==
  ASSUME JobInv, CopyInv, NEW r \in Web, NEW op \in WebOps, NEW j, NEW row, NEW paths,
         Arrive(r, op, j, row, paths),
         op = "create" => row.last = "task",
         op = "edit" => row.last = rows[j].last
  PROVE  CopyInv'
<1>1. req[r].at # "end" /\ r \in Requests \ Runs
  BY IdleIsNone, JobStoreAssumption DEF Arrive, Requests
<1>2. /\ \A q \in Requests \ {r} : req'[q] = req[q]
      /\ req'[r] = [op |-> op, at |-> "begin", job |-> j,
                    copy |-> [row |-> row, paths |-> paths], stale |-> FALSE]
  BY <1>1 DEF Arrive, JobInv, TypeInv, ReqTypes
<1>3. UNCHANGED <<rows, excl, conn, units, unset, up, clobbered, torn, untold>>
  BY DEF Arrive, history, system
<1>4. KindOK(r)' /\ FreshOK(r)'
  BY <1>1, <1>2, <1>3 DEF KindOK, FreshOK, WebOps, Stages
<1> QED BY <1>1, <1>2, <1>3, <1>4, CopyRequest

LEMMA CopyQueue ==
  ASSUME JobInv, CopyInv, NEW r \in Runs, Queue(r) PROVE CopyInv'
<1>1. PICK j \in JobIds :
        /\ req[r] = Idle /\ rows[j] # None
        /\ req' = [req EXCEPT ![r] = [op |-> "queue", at |-> "read", job |-> j,
                                      copy |-> GetJob(j), stale |-> FALSE]]
  BY DEF Queue
<1>2. /\ r \in Requests /\ req[r].at # "end" /\ req[r].job \notin JobIds
  BY <1>1, NoneApart DEF Idle, Requests
<1>3. /\ \A q \in Requests \ {r} : req'[q] = req[q]
      /\ req'[r] = [op |-> "queue", at |-> "read", job |-> j, copy |-> GetJob(j), stale |-> FALSE]
  BY <1>1, <1>2 DEF JobInv, TypeInv, ReqTypes
<1>4. UNCHANGED <<rows, excl, conn, units, unset, up, clobbered, torn, untold>>
  BY DEF Queue, history, system
<1>5. KindOK(r)' /\ FreshOK(r)'
  BY <1>3, <1>4 DEF KindOK, FreshOK, Stages, GetJob, OwnedBy
<1> QED BY <1>2, <1>3, <1>4, <1>5, CopyRequest

LEMMA CopyRead ==
  ASSUME JobInv, CopyInv, NEW r \in Requests, Read(r) \/ SkipNamespace(r) PROVE CopyInv'
<1> DEFINE op == req[r].op
           latest == GetJob(req[r].job)
           last(row) == IF op = "queue" THEN "queued" ELSE IF op \in Namespacing THEN row.last ELSE "task"
<1>1. /\ req[r].at = "read" /\ req[r] \in Reqs /\ ReqOK(req[r])
      /\ req \in [Requests -> Reqs] /\ op \in Stages /\ req[r].job \in JobIds
      /\ req[r].copy.row \in Row /\ KindOK(r) /\ FreshOK(r)
  BY DEF JobInv, TypeInv, ReqTypes, ReqOK, Read, SkipNamespace, CopyInv
<1>2. UNCHANGED <<rows, excl, conn, units, unset, up, clobbered, torn, untold>>
  BY DEF Read, SkipNamespace, history, system
<1>3. \A q \in Requests \ {r} : req'[q] = req[q]
  BY <1>1 DEF Read, SkipNamespace
<1>4. rows[req[r].job] = None => req[r].stale
  BY <1>1 DEF JobInv, SeenGone
<1>5. latest \in Copies /\ latest.row = rows[req[r].job] /\ (latest.row # None => latest.row \in Row)
      /\ \A p \in latest.paths : excl[p] = req[r].job
  BY <1>1, GetJobType DEF GetJob, OwnedBy, JobInv, TypeInv
<1>6. ASSUME NEW next \in Stages, req' = [req EXCEPT ![r].op = next]
      PROVE  KindOK(r)' /\ FreshOK(r)' /\ req'[r].job = req[r].job
  <2>1. req'[r] = [req[r] EXCEPT !.op = next]
    BY <1>1, <1>6
  <2>2. /\ req'[r].op = next /\ req'[r].at = "read" /\ req'[r].stale = req[r].stale
        /\ req'[r].job = req[r].job /\ req'[r].copy = req[r].copy
    BY <1>1, <2>1 DEF Reqs
  <2> QED BY <1>1, <1>2, <2>2 DEF KindOK, FreshOK, Stages
<1>7. CASE latest.row # None /\ req' = [req EXCEPT ![r].at = "begin", ![r].stale = FALSE,
                                   ![r].copy = [latest EXCEPT !.row.last = last(latest.row)]]
  <2> DEFINE c == [latest EXCEPT !.row.last = last(latest.row)]
  <2> HIDE DEF latest
  <2>1. /\ c.paths = latest.paths /\ c.row.sched = latest.row.sched
        /\ c.row.last = last(latest.row)
    BY <1>5, <1>7 DEF Copies, Row
  <2> HIDE DEF c
  <2>2. /\ req'[r].op = op /\ req'[r].at = "begin" /\ req'[r].job = req[r].job
        /\ req'[r].copy = c
    BY <1>1, <1>7 DEF Reqs, c
  <2>3. KindOK(r)'
    BY <1>1, <2>1, <2>2 DEF KindOK, Stages, Namespacing
  <2>4. FreshOK(r)'
    BY <1>1, <1>2, <1>5, <2>1, <2>2 DEF FreshOK, Stages
  <2> QED BY <1>1, <1>2, <1>3, <2>2, <2>3, <2>4, CopyRequest
<1>8. CASE latest.row = None /\ req' = [req EXCEPT ![r].at = "begin",
                                              ![r].copy.row.last = last(req[r].copy.row)]
  <2> HIDE DEF latest
  <2>1. /\ req'[r].op = op /\ req'[r].at = "begin" /\ req'[r].job = req[r].job
        /\ req'[r].stale = req[r].stale /\ req'[r].copy.row.last = last(req[r].copy.row)
    BY <1>1, <1>8 DEF Reqs, Copies, Row
  <2>2. KindOK(r)'
    BY <1>1, <2>1 DEF KindOK, Stages, Namespacing
  <2>3. FreshOK(r)'
    BY <1>4, <1>5, <1>8, <2>1 DEF FreshOK
  <2> QED BY <1>1, <1>2, <1>3, <2>1, <2>2, <2>3, CopyRequest
<1>9. CASE latest.row = None /\ req' = [req EXCEPT ![r] = Idle]
  <2>1. req'[r] = Idle
    BY <1>1, <1>9
  <2>2. KindOK(r)' /\ FreshOK(r)'
    BY <2>1 DEF KindOK, FreshOK, Idle, Stages
  <2> QED BY <1>1, <1>2, <1>3, <1>5, <1>9, <2>2, CopyRequest
<1>10. ASSUME NEW next \in Stages, req' = [req EXCEPT ![r].op = next] PROVE CopyInv'
  BY <1>1, <1>2, <1>3, <1>6, <1>10, CopyRequest
<1>11. CASE SkipNamespace(r)
  BY <1>10, <1>11 DEF SkipNamespace, Namespacing, After, Stages
<1> QED BY <1>7, <1>8, <1>9, <1>10, <1>11 DEF Read, Stages

LEMMA CopyNoErrorFile ==
  ASSUME JobInv, CopyInv, NEW r \in Requests, NoErrorFile(r) PROVE CopyInv'
<1>1. /\ req[r].at = "read" /\ req' = [req EXCEPT ![r] = Idle]
      /\ UNCHANGED <<rows, excl, conn, up, clobbered>> /\ untold' = untold \cup {req[r].job}
  BY DEF NoErrorFile
<1>2. \A q \in Requests : req'[q] = IF q = r THEN Idle ELSE req[q]
  BY <1>1 DEF JobInv, TypeInv, ReqTypes
<1>3. \A q \in Requests : KindOK(q)' /\ FreshOK(q)'
  <2>1. KindOK(r)' /\ FreshOK(r)'
    BY <1>2 DEF KindOK, FreshOK, Idle, Stages
  <2>2. ASSUME NEW q \in Requests \ {r} PROVE KindOK(q)' /\ FreshOK(q)'
    <3>1. KindOK(q) /\ FreshOK(q) /\ req'[q] = req[q]
      BY <1>2 DEF CopyInv
    <3> QED BY <1>1, <3>1 DEF KindOK, FreshOK
  <2> QED BY <2>1, <2>2
<1>4. conn'.by # None => Written(conn.by)'
  <2> SUFFICES ASSUME conn.by # None PROVE Written(conn.by)'
    BY <1>1
  <2>1. conn.by \in Requests \ {r}
    BY <1>1 DEF JobInv, TypeInv, TableTypes, TxInv
  <2>2. req'[conn.by] = req[conn.by] /\ Written(conn.by)
    BY <1>2, <2>1 DEF CopyInv
  <2> QED BY <1>1, <2>2 DEF Written
<1>5. QueuedIsRunning'
  <2> SUFFICES ASSUME up, NEW j \in JobIds, rows[j] # None, rows[j].last = "queued",
                      j \notin clobbered \cup untold, j # req[r].job
               PROVE  \E q \in Runs : req'[q].job = j
    BY <1>1 DEF QueuedIsRunning, GetAllQueuedJobs
  <2>1. PICK q \in Runs : req[q].job = j
    BY DEF CopyInv, QueuedIsRunning, GetAllQueuedJobs
  <2> QED BY <1>2, <2>1 DEF Requests
<1> QED BY <1>3, <1>4, <1>5 DEF CopyInv

LEMMA CopyRestart ==
  ASSUME JobInv, CopyInv, Stop \/ Start PROVE CopyInv'
<1>1. conn'.by = None /\ \A r \in Requests : req'[r] = Idle
  BY DEF Stop, Start, NoTx, JobInv, Quiet
<1>2. \A r \in Requests : KindOK(r)' /\ FreshOK(r)'
  BY <1>1 DEF KindOK, FreshOK, Idle, Stages
<1>3. QueuedIsRunning'
  <2>1. CASE Stop
    BY <2>1 DEF Stop, QueuedIsRunning
  <2>2. CASE Start
    <3>1. excl \in Excls
      BY DEF JobInv, TypeInv, TableTypes
    <3>2. PICK seen \in SUBSET GetAllQueuedJobs :
            /\ rows' = [j \in JobIds |-> IF j \in seen THEN [rows[j] EXCEPT !.last = "task"] ELSE rows[j]]
            /\ untold' = (untold \cup GetAllQueuedJobs) \ seen
      BY <2>2, <3>1, StartEffect DEF StartDoes
    <3>3. \A j \in seen : j \in JobIds /\ rows[j] \in Row
      BY DEF GetAllQueuedJobs, JobInv, TypeInv, TableTypes, Rows
    <3>4. \A j \in seen : rows'[j].last = "task"
      BY <3>2, <3>3 DEF Row
    <3>5. \A j \in GetAllQueuedJobs \ seen : j \in untold'
      BY <3>2
    <3>6. \A j \in JobIds \ seen : rows'[j] = rows[j]
      BY <3>2
    <3> QED BY <3>4, <3>5, <3>6 DEF QueuedIsRunning, GetAllQueuedJobs
  <2> QED BY <2>1, <2>2
<1> QED BY <1>1, <1>2, <1>3 DEF CopyInv

LEMMA CopyStep == JobInv /\ CopyInv /\ [JobNext]_jobVars => CopyInv'
<1> SUFFICES ASSUME JobInv, CopyInv, [JobNext]_jobVars PROVE CopyInv'
  OBVIOUS
<1>t. TypeInv'
  BY Typed DEF JobInv
<1>1. ASSUME NEW r \in Web, ExtJsJobHandler(r) PROVE CopyInv'
  BY <1>1, CopyArrive DEF ExtJsJobHandler, WebOps
<1>2. ASSUME NEW r \in Web, ExtJsJobSinglePut(r) PROVE CopyInv'
  <2>1. PICK j \in JobIds, sched \in BOOLEAN, paths \in SUBSET Paths :
          rows[j] # None /\ Arrive(r, "edit", j, [rows[j] EXCEPT !.sched = sched], paths)
    BY <1>2 DEF ExtJsJobSinglePut
  <2>2. [rows[j] EXCEPT !.sched = sched].last = rows[j].last
    BY <2>1 DEF JobInv, TypeInv, TableTypes, Rows, Row
  <2> QED BY <2>1, <2>2, CopyArrive DEF WebOps
<1>3. ASSUME NEW r \in Web, ExtJsJobSingleDelete(r) PROVE CopyInv'
  BY <1>3, CopyArrive DEF ExtJsJobSingleDelete, WebOps
<1>4. ASSUME NEW r \in Web, ExtJsExclusionHandler(r) PROVE CopyInv'
  BY <1>4, CopyArrive DEF ExtJsExclusionHandler, WebOps
<1>5. ASSUME NEW r \in Web, ExtJsExclusionSingleHandler(r) PROVE CopyInv'
  BY <1>5, CopyArrive DEF ExtJsExclusionSingleHandler, WebOps
<1>6. ASSUME NEW r \in Runs, Queue(r) PROVE CopyInv'
  BY <1>6, CopyQueue
<1>7. ASSUME NEW r \in Requests, Transact(r) \/ Proceed(r) PROVE CopyInv'
  BY <1>7, <1>t, CopyTransact, CopyRead, CopyNoErrorFile, CopyEnd DEF Proceed
<1>8. CASE Stop \/ Start
  BY <1>8, CopyRestart
<1>9. CASE UNCHANGED jobVars
  BY <1>9 DEF jobVars, CopyInv, KindOK, FreshOK, Written, QueuedIsRunning, GetAllQueuedJobs
<1> QED BY <1>1, <1>2, <1>3, <1>4, <1>5, <1>6, <1>7, <1>8, <1>9 DEF JobNext

LEMMA CopyHolds == JobSpec => []CopyInv
BY InvInit, InvStep, CopyInit, CopyStep, PTL DEF JobSpec

\* A row that says queued has a run that will write it again, through every restart, failed
\* stage and edit in between, unless an old copy was written, or a run or the start of the
\* server could not write the row at all.
THEOREM QueuedHaveRuns == JobSpec => []QueuedIsRunning
<1>1. CopyInv => QueuedIsRunning
  BY DEF CopyInv
<1> QED BY <1>1, CopyHolds, PTL

-----------------------------------------------------------------------------
(* The store implements JobTables: a transaction carries what its request makes of the tables *)
(* as they are committed, because nobody commits while it is open.                            *)

\* What is asked, done to the committed tables, gives these.
Does(q, t, e) ==
  \/ /\ q.op = "create" /\ q.job # None
     /\ rows[q.job] = None /\ \A p \in q.paths : excl[p] = Free
     /\ t = [rows EXCEPT ![q.job] = q.row]
     /\ e = Assign(excl, q.paths, q.job)
  \/ /\ q.op = "write"
     /\ \A p \in q.paths : excl[p] \in {Free, q.job}
     /\ t = [rows EXCEPT ![q.job] = IF @ = None THEN None ELSE q.row]
     /\ e = [p \in Paths |-> IF p \in q.paths THEN q.job ELSE IF excl[p] = q.job THEN Free ELSE excl[p]]
  \/ /\ q.op = "delete" /\ rows[q.job] # None
     /\ t = [rows EXCEPT ![q.job] = None]
     /\ e = [p \in Paths |-> IF excl[p] = q.job THEN Free ELSE excl[p]]
  \/ /\ q.op = "xcreate" /\ \A p \in q.paths : excl[p] = Free
     /\ t = rows /\ e = Assign(excl, q.paths, Global)
  \/ /\ q.op = "xedit" /\ \A p \in q.paths : excl[p] # Free
     /\ t = rows /\ e = Assign(excl, q.paths, IF q.job = None THEN Global ELSE q.job)
  \/ /\ q.op = "xdelete" /\ \A p \in q.paths : excl[p] # Free
     /\ t = rows /\ e = Assign(excl, q.paths, Free)

\* What the open transaction will commit is what its request makes of what is committed.
Worked == conn.ok => Does(AskOf(req[conn.by]), conn.rows, conn.excl)

LEMMA DoesWork ==
  ASSUME UNCHANGED <<rows, excl>>, NEW r, conn'.by = r,
         Does(AskOf(req'[r]), conn'.rows, conn'.excl)
  PROVE  Worked'
<1> DEFINE q == AskOf(req'[r])
           t == conn'.rows
           e == conn'.excl
<1>1. Worked' <=> (conn'.ok => Does(AskOf(req[conn.by]), conn.rows, conn.excl)')
  BY DEF Worked
<1>2. Does(AskOf(req[conn.by]), conn.rows, conn.excl)'
  BY DEF Does, Assign
<1> QED BY <1>1, <1>2

LEMMA SameWorks ==
  ASSUME Worked, UNCHANGED <<rows, excl, conn>>, conn.ok => req'[conn.by] = req[conn.by]
  PROVE  Worked'
<1>1. CASE ~ conn.ok
  BY <1>1 DEF Worked
<1>2. CASE conn.ok
  BY <1>2, DoesWork DEF Worked
<1> QED BY <1>1, <1>2

LEMMA RefusedWorks == ASSUME NEW r \in Requests, Refused(r) PROVE Worked'
BY DEF Refused, Worked

-----------------------------------------------------------------------------
(* What is asked *)

LEMMA AsksAre == \A r \in Requests : Asks[r] = AskOf(req[r]) /\ Asks'[r] = AskOf(req'[r])
BY DEF Asks

LEMMA SameAsks ==
  ASSUME \A q \in Requests : AskOf(req'[q]) = AskOf(req[q])
  PROVE  Asks' = Asks
BY DEF Asks

LEMMA OneAsks ==
  ASSUME NEW r \in Requests, \A q \in Requests \ {r} : AskOf(req'[q]) = AskOf(req[q])
  PROVE  Asks' = [Asks EXCEPT ![r] = AskOf(req'[r])]
BY DEF Asks

\* A request that has not begun, or that is answered, asks nothing.
LEMMA Silent == \A x : x.at \in {"idle", "read"} => AskOf(x) = NoAsk
BY DEF AskOf

LEMMA NoAskIsNothing == NoAsk = Tables!Nothing
BY DEF NoAsk, Tables!Nothing

LEMMA AskType ==
  ASSUME NEW x \in Reqs, x.op \in WebOps \cup Stages, x.at \in {"begin", "end"}
  PROVE  AskOf(x) \in Tables!Asked
<1>1. /\ (IF x.op \in {"edit"} \cup Stages THEN "write" ELSE x.op) \in Tables!Ops
      /\ x.job \in JobIds \cup {None} /\ x.copy.row \in Row \cup {None} /\ x.copy.paths \in SUBSET Paths
  BY DEF WebOps, Stages, Tables!Ops, Reqs, Copies
<1> QED BY <1>1 DEF AskOf, Tables!Asked

\* What is asked when the transaction has begun: all that the action reads.
LEMMA AskAtEnd ==
  ASSUME NEW x \in Reqs, x.at \in {"begin", "end"}
  PROVE  /\ AskOf(x).op = IF x.op \in {"edit"} \cup Stages THEN "write" ELSE x.op
         /\ AskOf(x).job = x.job /\ AskOf(x).row = x.copy.row /\ AskOf(x).paths = x.copy.paths
BY DEF AskOf

\* To work in a transaction is not to ask for something else.
LEMMA ToEndAsks ==
  ASSUME ReqTypes, NEW r \in Requests, req[r].at = "begin", ToEnd(r)
  PROVE  AskOf(req'[r]) = AskOf(req[r]) /\ Asks' = Asks
<1>1. /\ \A q \in Requests \ {r} : req'[q] = req[q]
      /\ req'[r] = [req[r] EXCEPT !.at = "end"]
  BY ToEndEffect
<1>2. req[r] \in Reqs
  BY DEF ReqTypes
<1>3. AskOf(req'[r]) = AskOf(req[r])
  BY <1>1, <1>2 DEF AskOf, Reqs
<1> QED BY <1>1, <1>3, SameAsks

-----------------------------------------------------------------------------
(* Transactions *)

LEMMA CreateWorks ==
  ASSUME TypeInv, NEW r \in Requests, CreateJob(r)
  PROVE  Worked' /\ (Asks' = Asks \/ Tables!Name(r))
<1> DEFINE paths == req[r].copy.paths
           row == req[r].copy.row
           ids == IF req[r].job = None THEN generateUniqueJobID(rows) ELSE {req[r].job}
<1>1. /\ ReqOK(req[r]) /\ req[r] \in Reqs /\ req[r].op = "create" /\ req[r].at = "begin"
      /\ UNCHANGED <<rows, excl>>
  BY DEF TypeInv, ReqTypes, CreateJob, Begin
<1>2. ids \subseteq JobIds
  BY <1>1 DEF ReqOK, Reqs, generateUniqueJobID, JobIds
<1>3. CASE Refused(r) /\ ToEnd(r)
  BY <1>1, <1>3, RefusedWorks, ToEndAsks DEF TypeInv
<1>4. CASE ~ (Refused(r) /\ ToEnd(r))
  <2>0. PICK j \in ids : /\ rows[j] = None /\ CreateExclusion(excl, paths)
                         /\ Work(r, [rows EXCEPT ![j] = row], Assign(excl, paths, j))
                         /\ req' = [req EXCEPT ![r].at = "end", ![r].job = j]
    BY <1>4, RefuseIs DEF CreateJob
  <2> DEFINE x == [req[r] EXCEPT !.at = "end", !.job = j]
  <2>1. j \in JobIds /\ j # None
    BY <1>2, <2>0, NoneApart
  <2>2. req'[r] = x /\ \A q \in Requests \ {r} : req'[q] = req[q]
    BY <2>0 DEF TypeInv, ReqTypes
  <2>3. x \in Reqs /\ x.op = "create" /\ x.at = "end" /\ x.job = j /\ x.copy = req[r].copy
    BY <1>1, <2>1 DEF Reqs
  <2>4. /\ AskOf(x).op = "create" /\ AskOf(x).job = j /\ AskOf(x).row = row
        /\ AskOf(x).paths = paths
    BY <2>3, AskAtEnd DEF Stages
  <2>5. /\ conn'.by = r /\ conn'.rows = [rows EXCEPT ![j] = row]
        /\ conn'.excl = Assign(excl, paths, j) /\ \A p \in paths : excl[p] = Free
    BY <2>0 DEF CreateExclusion, Work
  <2> HIDE DEF x, paths, row, ids
  <2>6. Does(AskOf(req'[r]), conn'.rows, conn'.excl)
    BY <2>0, <2>1, <2>2, <2>4, <2>5 DEF Does
  <2>7. Worked'
    BY <1>1, <2>5, <2>6, DoesWork
  <2>8. Asks' = [Asks EXCEPT ![r] = AskOf(x)]
    BY <2>2, OneAsks
  <2>9. AskOf(x) = [AskOf(req[r]) EXCEPT !.job = j]
    BY <1>1, <2>1 DEF AskOf, x, Reqs
  <2>10. CASE req[r].job = None
    <3>1. AskOf(req[r]).op = "create" /\ AskOf(req[r]).job = None
      BY <1>1, <2>10, AskAtEnd DEF Stages
    <3>2. Asks' = [Asks EXCEPT ![r].job = j]
      BY <2>8, <2>9, AsksAre
    <3> QED BY <1>1, <2>0, <2>1, <2>7, <3>1, <3>2, AsksAre DEF Tables!Name
  <2>11. CASE req[r].job # None
    <3>1. j = req[r].job
      BY <2>0, <2>11 DEF ids
    <3>2. AskOf(x) = AskOf(req[r])
      BY <1>1, <3>1 DEF AskOf, x, Reqs
    <3> QED BY <2>2, <2>7, <3>2, SameAsks
  <2> QED BY <2>10, <2>11
<1> QED BY <1>3, <1>4

LEMMA UpdateWorks ==
  ASSUME TypeInv, NEW r \in Requests, UpdateJob(r)
  PROVE  Worked' /\ Asks' = Asks
<1> DEFINE paths == req[r].copy.paths
           row == req[r].copy.row
           j == req[r].job
           cleared == Assign(excl, OwnedBy(excl, j), Free)
           q == AskOf(req[r])
<1>1. /\ req[r] \in Reqs /\ req[r].op \in {"edit"} \cup Stages /\ req[r].at = "begin"
      /\ UNCHANGED <<rows, excl>> /\ ToEnd(r)
  BY DEF TypeInv, ReqTypes, UpdateJob, Begin
<1>2. AskOf(req'[r]) = q /\ Asks' = Asks
  BY <1>1, ToEndAsks DEF TypeInv
<1>3. CASE Refused(r)
  BY <1>2, <1>3, RefusedWorks
<1>4. CASE ~ Refused(r)
  <2>1. /\ \A p \in paths : cleared[p] = Free
        /\ conn'.by = r
        /\ conn'.rows = [rows EXCEPT ![j] = IF @ = None THEN None ELSE row]
        /\ conn'.excl = Assign(cleared, paths, j)
    BY <1>4, UpdateCases DEF CreateExclusion, Work
  <2>2. \A p \in Paths : cleared[p] = IF excl[p] = j THEN Free ELSE excl[p]
    BY AssignValues DEF OwnedBy
  <2> HIDE DEF cleared
  <2>3. conn'.excl = [p \in Paths |-> IF p \in paths THEN j ELSE IF excl[p] = j THEN Free ELSE excl[p]]
    BY <2>1, <2>2 DEF Assign
  <2>4. paths \in SUBSET Paths
    BY <1>1 DEF Reqs, Copies
  <2>5. \A p \in paths : excl[p] \in {Free, j}
    BY <2>1, <2>2, <2>4
  <2>6. q.op = "write" /\ q.job = j /\ q.row = row /\ q.paths = paths
    BY <1>1, AskAtEnd
  <2> HIDE DEF paths, row, j, q
  <2>7. Does(q, conn'.rows, conn'.excl)
    BY <2>1, <2>3, <2>5, <2>6 DEF Does
  <2> QED BY <1>1, <1>2, <2>1, <2>7, DoesWork
<1> QED BY <1>3, <1>4

LEMMA DeleteWorks ==
  ASSUME TypeInv, NEW r \in Requests, DeleteJob(r)
  PROVE  Worked' /\ Asks' = Asks
<1> DEFINE j == req[r].job
           q == AskOf(req[r])
<1>1. /\ req[r] \in Reqs /\ req[r].op = "delete" /\ req[r].at = "begin"
      /\ UNCHANGED <<rows, excl>> /\ ToEnd(r)
  BY DEF TypeInv, ReqTypes, DeleteJob, Begin
<1>2. AskOf(req'[r]) = q /\ Asks' = Asks
  BY <1>1, ToEndAsks DEF TypeInv
<1>3. CASE Refused(r)
  BY <1>2, <1>3, RefusedWorks
<1>4. CASE ~ Refused(r)
  <2>1. /\ rows[j] # None
        /\ conn'.by = r
        /\ conn'.rows = [rows EXCEPT ![j] = None]
        /\ conn'.excl = Assign(excl, OwnedBy(excl, j), Free)
    BY <1>4, RefuseIs DEF DeleteJob, Work
  <2>2. conn'.excl = [p \in Paths |-> IF excl[p] = j THEN Free ELSE excl[p]]
    BY <2>1 DEF Assign, OwnedBy
  <2>3. q.op = "delete" /\ q.job = j
    BY <1>1, AskAtEnd DEF Stages
  <2> HIDE DEF j, q
  <2>4. Does(q, conn'.rows, conn'.excl)
    BY <2>1, <2>2, <2>3 DEF Does
  <2> QED BY <1>1, <1>2, <2>1, <2>4, DoesWork
<1> QED BY <1>3, <1>4

LEMMA ExclusionWorks ==
  ASSUME TypeInv, NEW r \in Requests, InsertExclusion(r) \/ UpdateExclusion(r) \/ DeleteExclusion(r)
  PROVE  Worked' /\ Asks' = Asks
<1> DEFINE paths == req[r].copy.paths
           j == req[r].job
           op == req[r].op
           q == AskOf(req[r])
           owner == IF op = "xcreate" THEN Global ELSE IF op = "xdelete" THEN Free
                    ELSE IF j = None THEN Global ELSE j
<1>1. /\ req[r] \in Reqs /\ op \in XOps /\ req[r].at = "begin"
      /\ UNCHANGED <<rows, excl>> /\ ToEnd(r)
  BY DEF TypeInv, ReqTypes, InsertExclusion, UpdateExclusion, DeleteExclusion, WriteExclusion, Begin, XOps
<1>2. AskOf(req'[r]) = q /\ Asks' = Asks
  BY <1>1, ToEndAsks DEF TypeInv
<1>3. CASE Refused(r)
  BY <1>2, <1>3, RefusedWorks
<1>4. CASE ~ Refused(r)
  <2>1. /\ conn'.by = r /\ conn'.rows = rows /\ conn'.excl = Assign(excl, paths, owner)
        /\ IF op = "xcreate" THEN \A p \in paths : excl[p] = Free ELSE \A p \in paths : excl[p] # Free
    BY <1>4, RefuseIs DEF InsertExclusion, UpdateExclusion, DeleteExclusion, WriteExclusion, Begin,
       Work, CreateExclusion
  <2>2. q.op = op /\ q.job = j /\ q.paths = paths
    BY <1>1, AskAtEnd DEF XOps, Stages
  <2> HIDE DEF paths, j, q, op
  <2>3. Does(q, conn'.rows, conn'.excl)
    BY <1>1, <2>1, <2>2 DEF Does, XOps
  <2> QED BY <1>1, <1>2, <2>1, <2>3, DoesWork
<1> QED BY <1>3, <1>4

LEMMA TransactWorks ==
  ASSUME TypeInv, NEW r \in Requests, Transact(r)
  PROVE  Worked' /\ [Tables!Next]_(Tables!vars)
<1>1. UNCHANGED <<rows, excl>>
  BY DEF Transact, CreateJob, UpdateJob, DeleteJob, InsertExclusion, UpdateExclusion,
     DeleteExclusion, WriteExclusion
<1>2. Worked' /\ (Asks' = Asks \/ Tables!Name(r))
  BY CreateWorks, UpdateWorks, DeleteWorks, ExclusionWorks DEF Transact
<1> QED BY <1>1, <1>2 DEF Tables!vars, Tables!Next

-----------------------------------------------------------------------------
(* Steps *)

\* A commit does what is asked, in one step.
LEMMA DoesServes ==
  ASSUME NEW r \in Requests, Does(AskOf(req[r]), rows', excl')
  PROVE  Tables!Perform(Asks[r])
<1> DEFINE q == AskOf(req[r])
<1>1. Asks[r] = q
  BY AsksAre
<1>2. Does(q, rows', excl')
  OBVIOUS
<1> HIDE DEF q
<1>3. Tables!Perform(q)
  BY <1>2 DEF Does, Assign, Tables!Perform, Tables!Insert, Tables!Replace, Tables!Delete,
     Tables!Exclude, Tables!Rewrite, Tables!Give
<1> QED BY <1>1, <1>3

LEMMA EndAsks ==
  ASSUME ReqTypes, NEW r \in Requests, NEW changed \in BOOLEAN, Goes(r, changed)
  PROVE  Asks' = [Asks EXCEPT ![r] = Tables!Nothing]
<1> DEFINE nexts == IF req[r].op = "task" /\ ~ changed THEN {"error"} ELSE After(req[r].op)
           Mine(next) == [req[r] EXCEPT !.op = next, !.at = "read"]
<1>0. \A q \in Requests : req[q] \in Reqs
  BY DEF ReqTypes
<1>1. PICK mine \in IF nexts = {} THEN {Idle} ELSE {Mine(next) : next \in nexts} :
        req' = [q \in Requests |->
          IF q = r THEN mine
          ELSE IF changed /\ req[q].at # "idle" THEN [req[q] EXCEPT !.stale = TRUE] ELSE req[q]]
  BY DEF Goes
<1>2. mine.at \in {"idle", "read"}
  BY <1>0, <1>1, IdleIsNone DEF Reqs
<1> HIDE DEF nexts, Mine
<1>3. AskOf(req'[r]) = Tables!Nothing
  <2>1. req'[r] = mine
    BY <1>1
  <2>2. AskOf(mine) = NoAsk
    BY <1>2, Silent
  <2> QED BY <2>1, <2>2, NoAskIsNothing
<1>4. \A x \in Reqs : AskOf([x EXCEPT !.stale = TRUE]) = AskOf(x)
  BY DEF AskOf, Reqs
<1>5. \A q \in Requests \ {r} : AskOf(req'[q]) = AskOf(req[q])
  BY <1>0, <1>1, <1>4
<1> QED BY <1>3, <1>5, OneAsks

LEMMA EndRefines ==
  ASSUME JobInv, Worked, NEW r \in Requests, Commit(r) \/ CommitFails(r)
  PROVE  Worked' /\ Tables!Next
<1>n. conn' = NoTx /\ conn.by = r
  BY DEF Commit, CommitFails
<1>0. Worked'
  BY <1>n DEF Worked, NoTx
<1>1. Asks' = [Asks EXCEPT ![r] = Tables!Nothing]
  BY EndAsks DEF Commit, CommitFails, JobInv, TypeInv, TableTypes
<1>2. CASE UNCHANGED <<rows, excl>>
  BY <1>0, <1>1, <1>2 DEF Tables!Refuse, Tables!Next
<1>3. CASE conn.ok /\ rows' = conn.rows /\ excl' = conn.excl
  <2>1. Does(AskOf(req[r]), rows', excl')
    BY <1>n, <1>3 DEF Worked
  <2> QED BY <1>0, <1>1, <2>1, DoesServes DEF Tables!Serve, Tables!Next
<1> QED BY <1>2, <1>3 DEF Commit, CommitFails

\* A request that changes nothing yet: it asks, or goes on asking nothing.
LEMMA RequestRefines ==
  ASSUME JobInv, ReqTypes', Worked, NEW r \in Requests, UNCHANGED <<rows, excl, conn>>,
         req[r].at \in {"idle", "read"}, \A q \in Requests \ {r} : req'[q] = req[q],
         \/ req'[r].at \in {"idle", "read"}
         \/ req'[r].at = "begin" /\ req'[r].op \in WebOps \cup Stages
  PROVE  Worked' /\ [Tables!Next]_(Tables!vars)
<1>1. conn.ok => conn.by \in Requests \ {r}
  BY NoneApart DEF JobInv, TypeInv, TableTypes, TxInv
<1>2. Worked'
  BY <1>1, SameWorks
<1>3. AskOf(req[r]) = NoAsk
  BY Silent
<1>4. CASE req'[r].at \in {"idle", "read"}
  <2>1. AskOf(req'[r]) = NoAsk
    BY <1>4, Silent
  <2>2. Asks' = Asks
    BY <1>3, <2>1, SameAsks
  <2> QED BY <1>2, <2>2 DEF Tables!vars
<1>5. CASE req'[r].at = "begin" /\ req'[r].op \in WebOps \cup Stages
  <2>1. req'[r] \in Reqs
    BY DEF ReqTypes
  <2>2. AskOf(req'[r]) \in Tables!Asked
    BY <1>5, <2>1, AskType
  <2>3. Asks' = [Asks EXCEPT ![r] = AskOf(req'[r])]
    BY OneAsks
  <2>4. Tables!Ask(r)
    BY <1>3, <2>2, <2>3, AsksAre, NoAskIsNothing DEF Tables!Ask
  <2> QED BY <1>2, <2>4 DEF Tables!Next
<1> QED BY <1>4, <1>5

LEMMA RequestEffect ==
  ASSUME ReqTypes, ReqTypes', NEW r \in Requests,
         \/ ExtJsJobHandler(r) \/ ExtJsJobSinglePut(r) \/ ExtJsJobSingleDelete(r)
         \/ ExtJsExclusionHandler(r) \/ ExtJsExclusionSingleHandler(r) \/ Queue(r)
         \/ Read(r) \/ SkipNamespace(r) \/ NoErrorFile(r)
  PROVE  /\ UNCHANGED <<rows, excl, conn>>
         /\ req[r].at \in {"idle", "read"} /\ \A q \in Requests \ {r} : req'[q] = req[q]
         /\ \/ req'[r].at \in {"idle", "read"}
            \/ req'[r].at = "begin" /\ req'[r].op \in WebOps \cup Stages
<1>0. req[r] \in Reqs /\ req'[r] \in Reqs /\ ReqOK(req[r])
  BY DEF ReqTypes
<1>1. CASE \/ ExtJsJobHandler(r) \/ ExtJsJobSinglePut(r) \/ ExtJsJobSingleDelete(r)
           \/ ExtJsExclusionHandler(r) \/ ExtJsExclusionSingleHandler(r)
  <2>1. \A op \in WebOps : \A j, row, paths : Arrive(r, op, j, row, paths) =>
          /\ UNCHANGED <<rows, excl, conn>>
          /\ req[r].at = "idle" /\ \A q \in Requests \ {r} : req'[q] = req[q]
          /\ req'[r].at = "begin" /\ req'[r].op \in WebOps
    BY IdleIsNone DEF Arrive, ReqTypes
  <2> QED
    BY <1>1, <2>1 DEF ExtJsJobHandler, ExtJsJobSinglePut, ExtJsJobSingleDelete, ExtJsExclusionHandler,
       ExtJsExclusionSingleHandler, WebOps
<1>2. CASE Queue(r)
  BY <1>2, IdleIsNone DEF Queue, ReqTypes
<1>3. CASE Read(r)
  <2>1. req[r].at = "read" /\ req[r].op \in Stages
    BY <1>0, <1>3 DEF Read, ReqOK
  <2>2. UNCHANGED <<rows, excl, conn>> /\ \A q \in Requests \ {r} : req'[q] = req[q]
    BY <1>3 DEF Read, ReqTypes
  <2>3. \/ req'[r].at = "begin" /\ req'[r].op = req[r].op
        \/ req'[r].at = req[r].at
        \/ req'[r] = Idle
    BY <1>0, <1>3 DEF Read, ReqTypes, Reqs
  <2> QED BY <2>1, <2>2, <2>3, IdleIsNone
<1>4. CASE SkipNamespace(r)
  BY <1>0, <1>4 DEF SkipNamespace, ReqTypes, Reqs
<1>5. CASE NoErrorFile(r)
  BY <1>5, IdleIsNone DEF NoErrorFile, ReqTypes
<1> QED BY <1>1, <1>2, <1>3, <1>4, <1>5

LEMMA StoreStep ==
  JobInv /\ Worked /\ [JobNext]_jobVars => Worked' /\ [Tables!Next]_(Tables!vars)
<1> SUFFICES ASSUME JobInv, Worked, [JobNext]_jobVars
             PROVE  Worked' /\ [Tables!Next]_(Tables!vars)
  OBVIOUS
<1>0. TypeInv /\ ReqTypes /\ ReqTypes'
  BY InvStep DEF JobInv, TypeInv
<1>1. CASE UNCHANGED jobVars
  <2>1. Asks' = Asks
    BY <1>1 DEF jobVars, Asks
  <2> QED BY <1>1, <2>1, SameWorks DEF jobVars, Tables!vars
<1>2. ASSUME NEW r \in Requests, Transact(r) PROVE Worked' /\ [Tables!Next]_(Tables!vars)
  BY <1>0, <1>2, TransactWorks
<1>3. ASSUME NEW r \in Requests, Commit(r) \/ CommitFails(r)
      PROVE  Worked' /\ [Tables!Next]_(Tables!vars)
  BY <1>3, EndRefines
<1>4. CASE Stop
  <2>1. \A r \in Requests : AskOf(req'[r]) = Tables!Nothing
    BY <1>4, IdleIsNone, Silent, NoAskIsNothing DEF Stop
  <2>2. Asks' = [r \in Requests |-> Tables!Nothing]
    BY <2>1 DEF Asks
  <2>3. Tables!Stop
    BY <1>4, <2>2 DEF Stop, Tables!Stop
  <2>4. ~ conn'.ok
    BY <1>4 DEF Stop, NoTx
  <2> QED BY <2>3, <2>4 DEF Tables!Next, Worked
<1>5. CASE Start
  <2>1. /\ ~ conn.ok /\ UNCHANGED <<conn, req>> /\ \A r \in Requests : req[r] = Idle
        /\ excl \in Excls
    BY <1>5 DEF Start, JobInv, Quiet, TypeInv, TableTypes
  <2>p. PICK told \in SUBSET GetAllQueuedJobs : \E lost \in SUBSET {p \in Paths : excl[p] \in told} :
          /\ rows' = [j \in JobIds |-> IF j \in told THEN [rows[j] EXCEPT !.last = "task"] ELSE rows[j]]
          /\ excl' = Assign(excl, lost, Free)
    BY <1>5, <2>1, StartEffect DEF StartDoes
  <2>2. PICK lost \in SUBSET {p \in Paths : excl[p] \in told} :
          /\ rows' = [j \in JobIds |-> IF j \in told THEN [rows[j] EXCEPT !.last = "task"] ELSE rows[j]]
          /\ excl' = Assign(excl, lost, Free)
    BY <2>p
  <2>3. told \in SUBSET {j \in JobIds : rows[j] # None /\ rows[j].last = "queued"}
    BY DEF GetAllQueuedJobs
  <2>4. \A r \in Requests : AskOf(req[r]) = Tables!Nothing
    BY <2>1, IdleIsNone, Silent, NoAskIsNothing
  <2>5. Asks = [r \in Requests |-> Tables!Nothing] /\ Asks' = Asks
    BY <2>1, <2>4 DEF Asks
  <2>6. Tables!Give(lost, Free)
    BY <2>2 DEF Assign, Tables!Give
  <2>7. Tables!Recover
    BY <2>2, <2>3, <2>5, <2>6 DEF Tables!Recover
  <2> QED BY <2>1, <2>7 DEF Worked, Tables!Next
<1>6. ASSUME NEW r \in Requests,
             \/ ExtJsJobHandler(r) \/ ExtJsJobSinglePut(r) \/ ExtJsJobSingleDelete(r)
             \/ ExtJsExclusionHandler(r) \/ ExtJsExclusionSingleHandler(r) \/ Queue(r)
             \/ Read(r) \/ SkipNamespace(r) \/ NoErrorFile(r)
      PROVE  Worked' /\ [Tables!Next]_(Tables!vars)
  BY <1>0, <1>6, RequestEffect, RequestRefines
<1> QED BY <1>1, <1>2, <1>3, <1>4, <1>5, <1>6, Steps DEF Proceed

\* Whatever transactions are open, fail to commit or end with the server: what a request asks
\* is done to the tables of jobs and exclusions as a whole and to what is committed, or not at all.
THEOREM StoreRefinesTables == JobSpec => ImplementsJobTables
<1>1. ASSUME JobInit PROVE Worked /\ Tables!Init
  <2>1. \A r \in Requests : AskOf(req[r]) = Tables!Nothing
    BY <1>1, IdleIsNone, Silent, NoAskIsNothing DEF JobInit
  <2>2. Asks = [r \in Requests |-> Tables!Nothing]
    BY <2>1 DEF Asks
  <2> QED BY <1>1, <2>2 DEF JobInit, NoTx, Worked, Tables!Init
<1> QED BY <1>1, StoreStep, InvHolds, PTL DEF JobSpec, ImplementsJobTables, Tables!Spec
=============================================================================
