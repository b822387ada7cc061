------------------------------- MODULE JobTables -------------------------------
(***************************************************************************)
(* What the database promises about the tables of jobs and exclusions:     *)
(* what a request asks is done in one step, as a whole and to what the     *)
(* tables are at that moment, or not at all.  There are no transactions    *)
(* here and no connection to wait for, and a failed COMMIT is a refusal.   *)
(***************************************************************************)
CONSTANTS Jobs, Requests, Paths, Row, Global, Free, None

VARIABLES
  rows,  \* the jobs there are
  excl,  \* whose every path is
  asks   \* what every request asks

vars == <<rows, excl, asks>>

Ops == {"create", "write", "delete", "xcreate", "xedit", "xdelete"}
Asked == [op : Ops, job : Jobs \cup {None}, row : Row \cup {None}, paths : SUBSET Paths]
Nothing == [op |-> "none", job |-> None, row |-> None, paths |-> {}]

Init ==
  /\ rows = [j \in Jobs |-> None]
  /\ excl \in [Paths -> {Global, Free}]
  /\ asks = [r \in Requests |-> Nothing]

\* The paths are the owner's, whoever had them.
Give(ps, owner) == excl' = [p \in Paths |-> IF p \in ps THEN owner ELSE excl[p]]

\* A job comes with its exclusions; none of them was there.
Insert(j, row, ps) ==
  /\ rows[j] = None
  /\ \A p \in ps : excl[p] = Free
  /\ rows' = [rows EXCEPT ![j] = row]
  /\ Give(ps, j)

\* The whole row and all its exclusions; there need not be a row.
Replace(j, row, ps) ==
  /\ \A p \in ps : excl[p] \in {Free, j}
  /\ rows' = [rows EXCEPT ![j] = IF @ = None THEN None ELSE row]
  /\ excl' = [p \in Paths |-> IF p \in ps THEN j ELSE IF excl[p] = j THEN Free ELSE excl[p]]

\* A job goes with its exclusions.
Delete(j) ==
  /\ rows[j] # None
  /\ rows' = [rows EXCEPT ![j] = None]
  /\ excl' = [p \in Paths |-> IF excl[p] = j THEN Free ELSE excl[p]]

\* Exclusions alone: new ones are nobody's, present ones change hands or go.
Exclude(ps) == (\A p \in ps : excl[p] = Free) /\ Give(ps, Global) /\ UNCHANGED rows
Rewrite(ps, owner) == (\A p \in ps : excl[p] # Free) /\ Give(ps, owner) /\ UNCHANGED rows

Perform(q) ==
  \/ q.op = "create" /\ q.job # None /\ Insert(q.job, q.row, q.paths)
  \/ q.op = "write" /\ Replace(q.job, q.row, q.paths)
  \/ q.op = "delete" /\ Delete(q.job)
  \/ q.op = "xcreate" /\ Exclude(q.paths)
  \/ q.op = "xedit" /\ Rewrite(q.paths, IF q.job = None THEN Global ELSE q.job)
  \/ q.op = "xdelete" /\ Rewrite(q.paths, Free)

Ask(r) ==
  /\ asks[r] = Nothing /\ asks'[r] \in Asked
  /\ asks' = [asks EXCEPT ![r] = asks'[r]]
  /\ UNCHANGED <<rows, excl>>

\* A job that is created without an ID is given one that is free.
Name(r) ==
  /\ asks[r].op = "create" /\ asks[r].job = None
  /\ \E j \in Jobs : rows[j] = None /\ asks' = [asks EXCEPT ![r].job = j]
  /\ UNCHANGED <<rows, excl>>

Serve(r) == Perform(asks[r]) /\ asks' = [asks EXCEPT ![r] = Nothing]

Refuse(r) == asks' = [asks EXCEPT ![r] = Nothing] /\ UNCHANGED <<rows, excl>>

\* The server stops; it starts when nobody asks anything: the jobs that were queued are not,
\* those whose write fails excepted, and one that fails halfway loses exclusions.
Stop == asks' = [r \in Requests |-> Nothing] /\ UNCHANGED <<rows, excl>>

Recover ==
  /\ asks = [r \in Requests |-> Nothing]
  /\ \E told \in SUBSET {j \in Jobs : rows[j] # None /\ rows[j].last = "queued"} :
     /\ rows' = [j \in Jobs |-> IF j \in told THEN [rows[j] EXCEPT !.last = "task"] ELSE rows[j]]
     /\ \E lost \in SUBSET {p \in Paths : excl[p] \in told} : Give(lost, Free)
  /\ UNCHANGED asks

Next ==
  \/ \E r \in Requests : Ask(r) \/ Name(r) \/ Serve(r) \/ Refuse(r)
  \/ Stop \/ Recover

Spec == Init /\ [][Next]_vars
================================================================================
