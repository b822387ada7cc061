------------------------------ MODULE RetryTimers ------------------------------
(***************************************************************************)
(* internal/store/system/retry_scheduler.go for one job: the retry timers  *)
(* and services of a job are files, and systemd units made from them, that *)
(* every call of SetRetrySchedule and RemoveAllRetrySchedules lists,       *)
(* removes and writes one by one.                                          *)
(*                                                                         *)
(* Nothing keeps the calls apart.  A CreateError of a failed Execute runs  *)
(* after the job has been unlocked, one of a refused submission while a    *)
(* run of the job is going on, a run that ends sets or removes the timers  *)
(* itself, and "pbs-plus -job=X" (another process) and the web interface   *)
(* remove them before they submit a run.                                   *)
(***************************************************************************)
EXTENDS Integers, Sequences, FiniteSets, SequencesExt

CONSTANTS
  Calls,        \* goroutines and processes that call the two functions, one call each
  MaxRetry,     \* job.Retry
  MaxFaults     \* bound: steps that fail by themselves (I/O, systemctl, a crash)

ASSUME RetryAssumption ==
  /\ MaxRetry \in Nat
  /\ MaxFaults \in Nat

VARIABLES
  timers,    \* attempts that have a pbs-plus-job-X-retry-N.timer
  services,  \* attempts that have a pbs-plus-job-X-retry-N.service
  armed,     \* attempts whose timer systemd is running
  at,        \* where each call stands
  setting,   \* the call is a SetRetrySchedule
  todo,      \* files of its last glob it has not come to
  attempt,   \* newAttempt
  faults,
  (* History, for the properties only *)
  owed,      \* a call has set out to arm a retry, and since then no retry has run, no
             \* RemoveAllRetrySchedules was under way, no step failed by itself and no
             \* call gave up with some services removed and others not
  removed    \* calls that have removed a service

vars == <<timers, services, armed, at, setting, todo, attempt, faults, owed, removed>>

fileVars == <<timers, services, armed>>
histVars == <<faults, owed, removed>>

Attempts == 1..MaxRetry
Stages == {"new", "limit", "timer", "removeTimer", "service", "writeService", "writeTimer",
           "enable", "done"}

-----------------------------------------------------------------------------
\* Earlier calls have left any timers: two of them, if they overlapped; and those that have
\* fired stay, without being armed.
Init ==
  /\ timers \in SUBSET Attempts /\ services = timers /\ armed \in SUBSET timers
  /\ at = [c \in Calls |-> "new"]
  /\ setting = [c \in Calls |-> FALSE]
  /\ todo = [c \in Calls |-> <<>>]
  /\ attempt = [c \in Calls |-> 0]
  /\ faults = 0
  /\ owed = FALSE
  /\ removed = {}

Goto(c, stage) == at' = [at EXCEPT ![c] = stage]

\* filepath.Glob sorts what it finds.
Glob(c, files) == todo' = [todo EXCEPT ![c] = SetToSortSeq(files, <)]

CurrentAttempt == Max({0} \cup timers)

\* A RemoveAllRetrySchedules that has begun and is not over
RemovesAll(c) == ~setting[c] /\ at[c] \notin {"new", "limit", "done"}

Quiet == \A c \in Calls : at[c] \in {"new", "done"}

-----------------------------------------------------------------------------
(* Both functions begin with a glob of the timers. *)

SetRetrySchedule(c) ==
  /\ at[c] = "new"
  /\ \/ /\ CurrentAttempt + 1 <= MaxRetry
        /\ Goto(c, "timer")
        /\ Glob(c, timers)
        /\ owed' = ~\E d \in Calls : RemovesAll(d)
     \/ /\ CurrentAttempt + 1 > MaxRetry
        /\ Goto(c, "limit")
        /\ UNCHANGED <<todo, owed>>
  /\ attempt' = [attempt EXCEPT ![c] = CurrentAttempt + 1]
  /\ setting' = [setting EXCEPT ![c] = CurrentAttempt + 1 <= MaxRetry]
  /\ UNCHANGED <<fileVars, faults, removed>>

RemoveAllRetrySchedules(c) ==
  /\ at[c] \in {"new", "limit"}
  /\ Goto(c, "timer")
  /\ Glob(c, timers)
  /\ owed' = FALSE
  /\ UNCHANGED <<fileVars, setting, attempt, faults, removed>>

\* systemctl disable --now, which stops no timer whose file is gone; its error is ignored.
Disable(c) ==
  /\ at[c] = "timer" /\ todo[c] # <<>>
  /\ Goto(c, "removeTimer")
  /\ armed' = armed \ ({Head(todo[c])} \cap timers)
  /\ UNCHANGED <<timers, services, setting, todo, attempt, histVars>>

\* os.Remove of the next file: SetRetrySchedule returns the error of one that is gone.
RemoveNext(c, files, stage) ==
  \/ /\ Head(todo[c]) \in files \/ ~setting[c]
     /\ Goto(c, stage)
     /\ todo' = [todo EXCEPT ![c] = Tail(@)]
  \/ /\ Head(todo[c]) \notin files /\ setting[c]
     /\ Goto(c, "done")
     /\ UNCHANGED todo

RemoveTimer(c) ==
  /\ at[c] = "removeTimer"
  /\ RemoveNext(c, timers, "timer")
  /\ timers' = timers \ {Head(todo[c])}
  /\ UNCHANGED <<services, armed, setting, attempt, histVars>>

GlobServices(c) ==
  /\ at[c] = "timer" /\ todo[c] = <<>>
  /\ Goto(c, "service")
  /\ Glob(c, services)
  /\ UNCHANGED <<fileVars, setting, attempt, histVars>>

RemoveService(c) ==
  /\ at[c] = "service" /\ todo[c] # <<>>
  /\ RemoveNext(c, services, "service")
  /\ services' = services \ {Head(todo[c])}
  /\ \/ /\ Head(todo[c]) \in services
        /\ removed' = removed \cup {c}
        /\ UNCHANGED owed
     \/ /\ Head(todo[c]) \notin services
        /\ owed' = (owed /\ ~(setting[c] /\ c \in removed))
        /\ UNCHANGED removed
  /\ UNCHANGED <<timers, armed, setting, attempt, faults>>

\* RemoveAllRetrySchedules is done with a daemon-reload; SetRetrySchedule goes on.
AllRemoved(c) ==
  /\ at[c] = "service" /\ todo[c] = <<>>
  /\ Goto(c, IF setting[c] THEN "writeService" ELSE "done")
  /\ UNCHANGED <<fileVars, setting, todo, attempt, faults, owed, removed>>

GenerateRetryService(c) ==
  /\ at[c] = "writeService"
  /\ Goto(c, "writeTimer")
  /\ services' = services \cup {attempt[c]}
  /\ UNCHANGED <<timers, armed, setting, todo, attempt, histVars>>

\* Mutant: a timer file that is there is an error (O_EXCL for O_TRUNC).
GenerateRetryTimerOnce(c) ==
  /\ at[c] = "writeTimer"
  /\ Goto(c, IF attempt[c] \in timers THEN "done" ELSE "enable")
  /\ timers' = timers \cup {attempt[c]}
  /\ UNCHANGED <<services, armed, setting, todo, attempt, histVars>>

GenerateRetryTimer(c) ==
  /\ at[c] = "writeTimer"
  /\ Goto(c, "enable")
  /\ timers' = timers \cup {attempt[c]}
  /\ UNCHANGED <<services, armed, setting, todo, attempt, histVars>>

\* daemon-reload, then systemctl enable --now: an error if the timer file is gone, or the
\* service the timer is to trigger.
Enable(c) ==
  /\ at[c] = "enable"
  /\ Goto(c, "done")
  /\ armed' = armed \cup ({attempt[c]} \cap timers \cap services)
  /\ UNCHANGED <<timers, services, setting, todo, attempt, histVars>>

-----------------------------------------------------------------------------
(* Steps that fail by themselves *)

\* SetRetrySchedule returns at the first error of a glob, a removal, a write or systemctl,
\* or the process ends in the middle of either function: what was done stays done.
GiveUp(c) ==
  /\ faults < MaxFaults
  /\ at[c] \notin {"new", "done"}
  /\ Goto(c, "done")
  /\ faults' = faults + 1
  /\ owed' = FALSE
  /\ UNCHANGED <<fileVars, setting, todo, attempt, removed>>

\* RemoveAllRetrySchedules goes on with the next file.
LeaveFile(c) ==
  /\ faults < MaxFaults
  /\ ~setting[c]
  /\ \/ at[c] = "removeTimer" /\ Goto(c, "timer")
     \/ at[c] = "service" /\ todo[c] # <<>> /\ UNCHANGED at
  /\ todo' = [todo EXCEPT ![c] = Tail(@)]
  /\ faults' = faults + 1
  /\ UNCHANGED <<fileVars, setting, attempt, owed, removed>>

\* systemd starts the service of a timer, "pbs-plus -job=X -retry=N"; a run that fails or is
\* refused ends in a SetRetrySchedule.  The files stay, with the number of the attempt.
Retry(k) ==
  /\ k \in armed
  /\ armed' = armed \ {k}
  /\ \/ /\ k \in services
        /\ owed' = FALSE
     \/ /\ k \notin services
        /\ UNCHANGED owed
  /\ UNCHANGED <<timers, services, at, setting, todo, attempt, faults, removed>>

Next ==
  \/ \E c \in Calls :
       \/ SetRetrySchedule(c) \/ RemoveAllRetrySchedules(c)
       \/ Disable(c) \/ RemoveTimer(c) \/ GlobServices(c) \/ RemoveService(c)
       \/ AllRemoved(c) \/ GenerateRetryService(c) \/ GenerateRetryTimer(c) \/ Enable(c)
       \/ GiveUp(c) \/ LeaveFile(c)
  \/ \E k \in Attempts : Retry(k)

Spec == Init /\ [][Next]_vars

-----------------------------------------------------------------------------
(* Properties *)

TypeOK ==
  /\ timers \subseteq Attempts /\ services \subseteq Attempts /\ armed \subseteq Attempts
  /\ at \in [Calls -> Stages]
  /\ setting \in [Calls -> BOOLEAN]
  /\ todo \in [Calls -> Seq(Attempts)]
  /\ attempt \in [Calls -> 0..MaxRetry + 1]
  /\ faults \in 0..MaxFaults
  /\ owed \in BOOLEAN
  /\ removed \subseteq Calls

\* Calls that overlap do not cancel each other's retry, although each removes what the
\* others have written and returns when a file it has listed is gone or the unit it wrote
\* cannot be enabled (retry_scheduler.go 163-188 and 197-217): when all are back, a timer of
\* one of them is armed and its service is there.  What ends a retry a call has set out to
\* arm: the retry itself, a RemoveAllRetrySchedules, a step that fails by itself, and, where
\* two timers had been left and three calls overlap, a call that removes the service of
\* another and then returns at the next service it has listed, which is gone (184-187).
SomeRetryLeft == Quiet /\ owed => armed \cap timers \cap services # {}
=============================================================================
