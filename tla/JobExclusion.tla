----------------------------- MODULE JobExclusion -----------------------------
(***************************************************************************)
(* What the backup manager promises about the operations it is given, with *)
(* no word about how: an operation is admitted or refused, an admitted one *)
(* may use the resources of its job (the directory the agent's file system *)
(* is mounted on), and two operations of one job never use them together.  *)
(*                                                                         *)
(* An operation may be dismissed (its job may be admitted again) while it  *)
(* still uses the resources: the error path of the code gives the job's    *)
(* mutex back before it unmounts.  Admission and use are therefore two     *)
(* separate exclusions, and the second does not follow from the first.     *)
(***************************************************************************)
CONSTANTS
  Ops,     \* operations (one BackupOperation each)
  JobOf    \* the job an operation runs

VARIABLES
  phase,   \* phase of an operation: "new", "admitted", "refused" or "gone"
  using,   \* the operations that use the resources of their job
  open     \* FALSE once the manager has been closed

vars == <<phase, using, open>>

SameJob(o, p) == JobOf[o] = JobOf[p]

Init ==
  /\ phase = [o \in Ops |-> "new"]
  /\ using = {}
  /\ open = TRUE

\* While the manager is open one operation of a job is admitted at a time.  Closing
\* forgets who was admitted; what is admitted afterwards is turned away before use.
Admit(o) ==
  /\ phase[o] = "new"
  /\ open => \A p \in Ops : phase[p] = "admitted" => ~SameJob(o, p)
  /\ phase' = [phase EXCEPT ![o] = "admitted"]
  /\ UNCHANGED <<using, open>>

\* "a job is still running; only one instance allowed": said only when it is true.
Refuse(o) ==
  /\ phase[o] = "new"
  /\ \E p \in Ops : phase[p] = "admitted" /\ SameJob(o, p)
  /\ phase' = [phase EXCEPT ![o] = "refused"]
  /\ UNCHANGED <<using, open>>

Dismiss(o) ==
  /\ phase[o] = "admitted"
  /\ phase' = [phase EXCEPT ![o] = "gone"]
  /\ UNCHANGED <<using, open>>

Use(o) ==
  /\ phase[o] = "admitted"
  /\ \A p \in using : ~SameJob(o, p)
  /\ using' = using \cup {o}
  /\ UNCHANGED <<phase, open>>

StopUsing(o) ==
  /\ o \in using
  /\ using' = using \ {o}
  /\ UNCHANGED <<phase, open>>

Close ==
  /\ open
  /\ open' = FALSE
  /\ UNCHANGED <<phase, using>>

Next ==
  \/ \E o \in Ops : Admit(o) \/ Refuse(o) \/ Dismiss(o) \/ Use(o) \/ StopUsing(o)
  \/ Close

Spec == Init /\ [][Next]_vars

\* Two operations of one job never use its resources at the same time.
ExclusiveUse == \A o, p \in using : SameJob(o, p) => o = p
===============================================================================
