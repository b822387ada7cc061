-------------------------- MODULE BackupManagerProofs --------------------------
(***************************************************************************)
(* Theorems about BackupManager, for every set of jobs and operations and  *)
(* every value of the bounds.                                              *)
(***************************************************************************)
EXTENDS BackupManager, FiniteSetTheorems, TLAPS

-----------------------------------------------------------------------------
(* Type correctness *)

LEMMA TypeInit == Init => TypeOK
<1> SUFFICES ASSUME Init PROVE TypeOK
  OBVIOUS
<1>1. queue \in Seq(Ops) /\ locked \subseteq (Jobs \X BOOLEAN)
  BY DEF Init
<1>2. /\ pc \in [Ops -> Stages] /\ bg \in [Ops -> BgStages]
      /\ client \in [Ops -> Clients]
  BY DEF Init, Stages, BgStages, Clients
<1>3. /\ saved \in [Ops -> Owners] /\ owner \in [Groups -> Owners]
  BY DEF Init, Owners
<1>4. seenClosed \in [Ops -> BOOLEAN]
  BY DEF Init
<1>5. mu \in Ops \cup {NoOp} /\ executeMu \in Ops \cup {NoOp}
  BY DEF Init
<1>6. slots \in Int
  BY DEF Init
<1>7. /\ mounted \in [Jobs -> Seq(Ops)] /\ agentMount \subseteq Ops /\ stuck \subseteq Ops
      /\ ownerFailed \subseteq Groups
  BY DEF Init
<1>8. worker \in BOOLEAN /\ closed \in BOOLEAN
  BY DEF Init
<1>. QED
  BY <1>1, <1>2, <1>3, <1>4, <1>5, <1>6, <1>7, <1>8 DEF TypeOK

\* What a step does to the stage of an operation keeps it a stage.
LEMMA GotoType ==
  ASSUME TypeOK, NEW o \in Ops, NEW a, NEW b \in Stages, Goto(o, a, b)
  PROVE  pc' \in [Ops -> Stages]
  BY DEF TypeOK, Goto

LEMMA BgGotoType ==
  ASSUME TypeOK, NEW o \in Ops, NEW a, NEW b \in BgStages, BgGoto(o, a, b)
  PROVE  bg' \in [Ops -> BgStages]
  BY DEF TypeOK, BgGoto

LEMMA OwnerType ==
  ASSUME TypeOK, NEW o \in Ops, NEW who \in Owners, SetDatastoreOwner(o, who)
  PROVE  owner' \in [Groups -> Owners] /\ ownerFailed' \subseteq Groups
<1>1. GroupOfOp(o) \in Groups /\ "none" \in Owners
  BY OpsAssumption DEF GroupOfOp, Owners
<1>. QED
  BY <1>1 DEF TypeOK, SetDatastoreOwner

LEMMA RestoreType ==
  ASSUME TypeOK, NEW o \in Ops, RestoreGroupOwner(o)
  PROVE  /\ owner' \in [Groups -> Owners] /\ ownerFailed' \subseteq Groups
         /\ saved' \in [Ops -> Owners]
<1>1. saved[o] \in Owners /\ "none" \in Owners
  BY DEF TypeOK, Owners
<1>. QED
  BY <1>1, OwnerType DEF TypeOK, RestoreGroupOwner

\* Mounting and unmounting leave a stack of mounts on every path.
LEMMA MountType ==
  ASSUME TypeOK, NEW o \in Ops
  PROVE  /\ JobOf[o] \in Jobs /\ mounted[JobOf[o]] \in Seq(Ops)
         /\ \A m \in Seq(Ops) : Unmounted(m) \in Seq(Ops) /\ <<o>> \o m \in Seq(Ops)
  BY OpsAssumption DEF TypeOK, Unmounted

LEMMA UnmountType ==
  ASSUME TypeOK, NEW o \in Ops, UnmountOwn(o)
  PROVE  mounted' \in [Jobs -> Seq(Ops)] /\ agentMount' \subseteq Ops /\ stuck' \subseteq Ops
<1>1. Unmounted(mounted[JobOf[o]]) \in Seq(Ops) /\ mounted \in [Jobs -> Seq(Ops)]
  BY MountType DEF TypeOK
<1>. QED
  BY <1>1 DEF TypeOK, UnmountOwn

LEMMA TypeStep == TypeOK /\ [Next]_vars => TypeOK'
<1> SUFFICES ASSUME TypeOK, [Next]_vars PROVE TypeOK'
  OBVIOUS
<1> USE DEF vars, sysVars, lockVars, ownerVars, mountVars
<1>1. ASSUME NEW o \in Ops, Submit(o) PROVE TypeOK'
  BY <1>1 DEF TypeOK, Submit, Goto, Stages, EnqueueStages
<1>3. ASSUME NEW o \in Ops, TryLock(o) PROVE TypeOK'
  <2>1. <<JobOf[o], closed>> \in Jobs \X BOOLEAN
    BY OpsAssumption DEF TypeOK
  <2>2. locked' \subseteq (Jobs \X BOOLEAN)
    BY <1>3, <2>1, Zenon DEF TypeOK, TryLock
  <2>3. seenClosed' \in [Ops -> BOOLEAN]
    <3>1. /\ seenClosed \in [Ops -> BOOLEAN] /\ closed \in BOOLEAN
          /\ seenClosed' = [seenClosed EXCEPT ![o] = closed]
      BY <1>3 DEF TypeOK, TryLock
    <3>. QED
      BY <3>1
  <2>4. pc' \in [Ops -> Stages]
    BY <1>3 DEF TypeOK, TryLock, Goto, Stages, EnqueueStages, FinalStages
  <2>. QED
    BY <1>3, <2>2, <2>3, <2>4 DEF TypeOK, TryLock
<1>4. ASSUME NEW o \in Ops, Announce(o) PROVE TypeOK'
  BY <1>4 DEF TypeOK, Announce, Goto, Stages, EnqueueStages
<1>5. ASSUME NEW o \in Ops, Admit(o) PROVE TypeOK'
  <2>1. pc' \in [Ops -> Stages]
    BY <1>5 DEF TypeOK, Admit, Goto, Stages, EnqueueStages, WaitStages
  <2>2. queue' \in Seq(Ops)
    <3>1. queue \in Seq(Ops) /\ (queue' = queue \/ queue' = Append(queue, o))
      BY <1>5, Zenon DEF TypeOK, Admit
    <3>. QED
      BY <3>1
  <2>3. mu' \in Ops \cup {NoOp}
    BY <1>5, Zenon DEF TypeOK, Admit
  <2>. QED
    BY <1>5, <2>1, <2>2, <2>3 DEF TypeOK, Admit
<1>6. ASSUME NEW o \in Ops, RejectClosed(o) PROVE TypeOK'
  BY <1>6 DEF TypeOK, RejectClosed, Goto, Stages, FinalStages
<1>7. ASSUME NEW o \in Ops, RejectFull(o) PROVE TypeOK'
  BY <1>7 DEF TypeOK, RejectFull, Goto, Stages, FinalStages, Unlock
<1>8. ASSUME NEW o \in Ops, AcquireSlot(o) PROVE TypeOK'
  BY <1>8 DEF TypeOK, AcquireSlot, Goto, Stages, WaitStages
<1>9. ASSUME NEW o \in Ops, Abort(o) PROVE TypeOK'
  BY <1>9 DEF TypeOK, Abort, Goto, Stages, FinalStages, Unlock
<1>10. ASSUME NEW o \in Ops, BeginExecute(o) PROVE TypeOK'
  BY <1>10 DEF TypeOK, BeginExecute, Goto, Stages, ExecuteStages
<1>11. ASSUME NEW o \in Ops, GetTarget(o) PROVE TypeOK'
  BY <1>11 DEF TypeOK, GetTarget, Goto, Stages, ExecuteStages
<1>12. ASSUME NEW o \in Ops, Mount(o) PROVE TypeOK'
  <2>1. pc' \in [Ops -> Stages]
    BY <1>12 DEF TypeOK, Mount, Goto, Stages, ExecuteStages
  <2>2. PICK m \in Seq(Ops) : mounted' = [mounted EXCEPT ![JobOf[o]] = m]
    BY <1>12, MountType DEF Mount
  <2>3. mounted' \in [Jobs -> Seq(Ops)]
    BY <2>2 DEF TypeOK
  <2>4. agentMount' \subseteq Ops /\ stuck' \subseteq Ops
    BY <1>12 DEF TypeOK, Mount
  <2>. QED
    BY <1>12, <2>1, <2>3, <2>4 DEF TypeOK, Mount
<1>13. ASSUME NEW o \in Ops, Prepare(o) PROVE TypeOK'
  BY <1>13 DEF TypeOK, Prepare, Goto, Stages, ExecuteStages
<1>14. ASSUME NEW o \in Ops, GetCurrentOwner(o) PROVE TypeOK'
  <2>1. GroupOfOp(o) \in Groups /\ owner[GroupOfOp(o)] \in Owners
    BY OpsAssumption DEF TypeOK, GroupOfOp
  <2>2. saved' \in [Ops -> Owners] /\ ownerFailed' \subseteq Groups
    BY <1>14, <2>1 DEF TypeOK, GetCurrentOwner
  <2>. QED
    BY <1>14, <2>2 DEF TypeOK, GetCurrentOwner, Goto, Stages, ExecuteStages
<1>15. ASSUME NEW o \in Ops, FixDatastore(o) PROVE TypeOK'
  <2>1. "plus" \in Owners
    BY DEF Owners
  <2>. QED
    BY <1>15, <2>1, OwnerType DEF TypeOK, FixDatastore, Goto, Stages, ExecuteStages
<1>16. ASSUME NEW o \in Ops, StartClient(o) PROVE TypeOK'
  BY <1>16 DEF TypeOK, StartClient, Goto, Stages, ExecuteStages, Clients
<1>17. ASSUME NEW o \in Ops, RestoreFirst(o) PROVE TypeOK'
  BY <1>17, RestoreType DEF TypeOK, RestoreFirst, Goto, Stages, ExecuteStages
<1>18. ASSUME NEW o \in Ops, DetectTask(o) PROVE TypeOK'
  BY <1>18 DEF TypeOK, DetectTask, Goto, Stages, ExecuteStages, Clients
<1>19. ASSUME NEW o \in Ops, RecordStart(o) PROVE TypeOK'
  BY <1>19 DEF TypeOK, RecordStart, Goto, BgGoto, Stages, ExecuteStages, BgStages
<1>20. ASSUME NEW o \in Ops, CleanUpUnlock(o) PROVE TypeOK'
  BY <1>20 DEF TypeOK, CleanUpUnlock, Goto, Stages, ExecuteStages, Unlock
<1>21. ASSUME NEW o \in Ops, CleanUpUnmount(o) PROVE TypeOK'
  BY <1>21, UnmountType DEF TypeOK, CleanUpUnmount, Goto, Stages, ExecuteStages
<1>22. ASSUME NEW o \in Ops, RestoreLast(o) PROVE TypeOK'
  BY <1>22, RestoreType DEF TypeOK, RestoreLast, Goto, Stages, ExecuteStages
<1>23. ASSUME NEW o \in Ops, ReturnFromExecute(o) PROVE TypeOK'
  BY <1>23 DEF TypeOK, ReturnFromExecute, Goto, Stages, AfterStages
<1>24. ASSUME NEW o \in Ops, CreateError(o) PROVE TypeOK'
  BY <1>24 DEF TypeOK, CreateError, Goto, Stages, AfterStages
<1>25. ASSUME NEW o \in Ops, Wait(o) PROVE TypeOK'
  BY <1>25 DEF TypeOK, Wait, Goto, Stages, AfterStages
<1>26. ASSUME NEW o \in Ops, Release(o) PROVE TypeOK'
  BY <1>26 DEF TypeOK, Release, Goto, Stages, FinalStages
<1>27. ASSUME NEW o \in Ops, ClientExit(o) PROVE TypeOK'
  BY <1>27 DEF TypeOK, ClientExit, Clients
<1>28. ASSUME NEW o \in Ops, ClientWait(o) PROVE TypeOK'
  BY <1>28 DEF TypeOK, ClientWait, BgGoto, BgStages
<1>29. ASSUME NEW o \in Ops, Finish(o) PROVE TypeOK'
  BY <1>29 DEF TypeOK, Finish, BgGoto, BgStages
<1>30. ASSUME NEW o \in Ops, RestoreOwner(o) PROVE TypeOK'
  BY <1>30, RestoreType DEF TypeOK, RestoreOwner, BgGoto, BgStages
<1>31. ASSUME NEW o \in Ops, Unmount(o) PROVE TypeOK'
  BY <1>31, UnmountType DEF TypeOK, Unmount, BgGoto, BgStages
<1>32. ASSUME NEW o \in Ops, BgUnlock(o) PROVE TypeOK'
  BY <1>32 DEF TypeOK, BgUnlock, BgGoto, BgStages, Unlock
<1>33. ASSUME WorkerTake PROVE TypeOK'
  BY <1>33 DEF TypeOK, WorkerTake, Goto, Stages, WaitStages
<1>34. ASSUME WorkerExit PROVE TypeOK'
  BY <1>34 DEF TypeOK, WorkerExit
<1>35. ASSUME Close PROVE TypeOK'
  BY <1>35 DEF TypeOK, Close
<1>36. ASSUME UNCHANGED vars PROVE TypeOK'
  BY <1>36 DEF TypeOK
<1>. QED
  BY <1>1, <1>3, <1>4, <1>5, <1>6, <1>7, <1>8, <1>9, <1>10, <1>11, <1>12, <1>13, <1>14,
     <1>15, <1>16, <1>17, <1>18, <1>19, <1>20, <1>21, <1>22, <1>23, <1>24, <1>25, <1>26,
     <1>27, <1>28, <1>29, <1>30, <1>31, <1>32, <1>33, <1>34, <1>35, <1>36
  DEF Next, Step, BgStep

\* Every variable keeps its type, whatever the goroutines do.
THEOREM TypeCorrect == Spec => []TypeOK
  BY TypeInit, TypeStep, PTL DEF Spec

-----------------------------------------------------------------------------
(* Execute is exclusive *)

\* Only the owner of executeMu is inside Execute, and it is: the invariant is inductive
\* by itself.
LEMMA ExecuteStep == TypeOK /\ ExecuteExclusive /\ [Next]_vars => ExecuteExclusive'
<1> SUFFICES ASSUME TypeOK, ExecuteExclusive, [Next]_vars PROVE ExecuteExclusive'
  OBVIOUS
<1> USE DEF vars, sysVars
<1>a. pc \in [Ops -> Stages] /\ NoOp \notin Ops
  BY OpsAssumption DEF TypeOK
<1>1. ASSUME NEW o \in Ops, Submit(o) PROVE ExecuteExclusive'
  BY <1>1, <1>a DEF Submit, Goto, ExecuteExclusive, ExecuteStages
<1>3. ASSUME NEW o \in Ops, TryLock(o) PROVE ExecuteExclusive'
  BY <1>3, <1>a DEF TryLock, Goto, ExecuteExclusive, ExecuteStages
<1>4. ASSUME NEW o \in Ops, Announce(o) PROVE ExecuteExclusive'
  BY <1>4, <1>a DEF Announce, Goto, ExecuteExclusive, ExecuteStages
<1>5. ASSUME NEW o \in Ops, Admit(o) PROVE ExecuteExclusive'
  BY <1>5, <1>a DEF Admit, Goto, ExecuteExclusive, ExecuteStages
<1>6. ASSUME NEW o \in Ops, RejectClosed(o) PROVE ExecuteExclusive'
  BY <1>6, <1>a DEF RejectClosed, Goto, ExecuteExclusive, ExecuteStages
<1>7. ASSUME NEW o \in Ops, RejectFull(o) PROVE ExecuteExclusive'
  BY <1>7, <1>a DEF RejectFull, Goto, ExecuteExclusive, ExecuteStages
<1>8. ASSUME NEW o \in Ops, AcquireSlot(o) PROVE ExecuteExclusive'
  BY <1>8, <1>a DEF AcquireSlot, Goto, ExecuteExclusive, ExecuteStages
<1>9. ASSUME NEW o \in Ops, Abort(o) PROVE ExecuteExclusive'
  BY <1>9, <1>a DEF Abort, Goto, ExecuteExclusive, ExecuteStages
<1>10. ASSUME NEW o \in Ops, BeginExecute(o) PROVE ExecuteExclusive'
  BY <1>10, <1>a DEF BeginExecute, Goto, ExecuteExclusive, ExecuteStages
<1>11. ASSUME NEW o \in Ops, GetTarget(o) PROVE ExecuteExclusive'
  BY <1>11, <1>a DEF GetTarget, Goto, ExecuteExclusive, ExecuteStages
<1>12. ASSUME NEW o \in Ops, Mount(o) PROVE ExecuteExclusive'
  BY <1>12, <1>a DEF Mount, Goto, ExecuteExclusive, ExecuteStages
<1>13. ASSUME NEW o \in Ops, Prepare(o) PROVE ExecuteExclusive'
  BY <1>13, <1>a DEF Prepare, Goto, ExecuteExclusive, ExecuteStages
<1>14. ASSUME NEW o \in Ops, GetCurrentOwner(o) PROVE ExecuteExclusive'
  BY <1>14, <1>a DEF GetCurrentOwner, Goto, ExecuteExclusive, ExecuteStages
<1>15. ASSUME NEW o \in Ops, FixDatastore(o) PROVE ExecuteExclusive'
  BY <1>15, <1>a DEF FixDatastore, Goto, ExecuteExclusive, ExecuteStages
<1>16. ASSUME NEW o \in Ops, StartClient(o) PROVE ExecuteExclusive'
  BY <1>16, <1>a DEF StartClient, Goto, ExecuteExclusive, ExecuteStages
<1>17. ASSUME NEW o \in Ops, RestoreFirst(o) PROVE ExecuteExclusive'
  BY <1>17, <1>a DEF RestoreFirst, Goto, ExecuteExclusive, ExecuteStages
<1>18. ASSUME NEW o \in Ops, DetectTask(o) PROVE ExecuteExclusive'
  BY <1>18, <1>a DEF DetectTask, Goto, ExecuteExclusive, ExecuteStages
<1>19. ASSUME NEW o \in Ops, RecordStart(o) PROVE ExecuteExclusive'
  BY <1>19, <1>a DEF RecordStart, Goto, ExecuteExclusive, ExecuteStages
<1>20. ASSUME NEW o \in Ops, CleanUpUnlock(o) PROVE ExecuteExclusive'
  BY <1>20, <1>a DEF CleanUpUnlock, Goto, ExecuteExclusive, ExecuteStages
<1>21. ASSUME NEW o \in Ops, CleanUpUnmount(o) PROVE ExecuteExclusive'
  BY <1>21, <1>a DEF CleanUpUnmount, Goto, ExecuteExclusive, ExecuteStages
<1>22. ASSUME NEW o \in Ops, RestoreLast(o) PROVE ExecuteExclusive'
  BY <1>22, <1>a DEF RestoreLast, Goto, ExecuteExclusive, ExecuteStages
<1>23. ASSUME NEW o \in Ops, ReturnFromExecute(o) PROVE ExecuteExclusive'
  BY <1>23, <1>a DEF ReturnFromExecute, Goto, ExecuteExclusive, ExecuteStages
<1>24. ASSUME NEW o \in Ops, CreateError(o) PROVE ExecuteExclusive'
  BY <1>24, <1>a DEF CreateError, Goto, ExecuteExclusive, ExecuteStages
<1>25. ASSUME NEW o \in Ops, Wait(o) PROVE ExecuteExclusive'
  BY <1>25, <1>a DEF Wait, Goto, ExecuteExclusive, ExecuteStages
<1>26. ASSUME NEW o \in Ops, Release(o) PROVE ExecuteExclusive'
  BY <1>26, <1>a DEF Release, Goto, ExecuteExclusive, ExecuteStages
<1>27. ASSUME NEW o \in Ops, ClientExit(o) PROVE ExecuteExclusive'
  BY <1>27 DEF ClientExit, ExecuteExclusive
<1>28. ASSUME NEW o \in Ops, ClientWait(o) PROVE ExecuteExclusive'
  BY <1>28 DEF ClientWait, ExecuteExclusive
<1>29. ASSUME NEW o \in Ops, Finish(o) PROVE ExecuteExclusive'
  BY <1>29 DEF Finish, ExecuteExclusive
<1>30. ASSUME NEW o \in Ops, RestoreOwner(o) PROVE ExecuteExclusive'
  BY <1>30 DEF RestoreOwner, ExecuteExclusive
<1>31. ASSUME NEW o \in Ops, Unmount(o) PROVE ExecuteExclusive'
  BY <1>31 DEF Unmount, ExecuteExclusive
<1>32. ASSUME NEW o \in Ops, BgUnlock(o) PROVE ExecuteExclusive'
  BY <1>32 DEF BgUnlock, ExecuteExclusive
<1>33. ASSUME WorkerTake PROVE ExecuteExclusive'
  BY <1>33, <1>a DEF WorkerTake, Goto, ExecuteExclusive, ExecuteStages
<1>34. ASSUME WorkerExit PROVE ExecuteExclusive'
  BY <1>34 DEF WorkerExit, ExecuteExclusive
<1>35. ASSUME Close PROVE ExecuteExclusive'
  BY <1>35 DEF Close, ExecuteExclusive
<1>36. ASSUME UNCHANGED vars PROVE ExecuteExclusive'
  BY <1>36 DEF ExecuteExclusive
<1>. QED
  BY <1>1, <1>3, <1>4, <1>5, <1>6, <1>7, <1>8, <1>9, <1>10, <1>11, <1>12,
     <1>13, <1>14, <1>15, <1>16, <1>17, <1>18, <1>19, <1>20, <1>21, <1>22, <1>23,
     <1>24, <1>25, <1>26, <1>27, <1>28, <1>29, <1>30, <1>31, <1>32, <1>33, <1>34,
     <1>35, <1>36
  DEF Next, Step, BgStep

\* One operation at a time is inside Execute, whatever number of goroutines wait for it.
THEOREM ExecuteIsExclusive == Spec => []ExecuteExclusive
<1>1. Init => ExecuteExclusive
  BY OpsAssumption DEF Init, ExecuteExclusive, ExecuteStages
<1>. QED
  BY <1>1, TypeCorrect, ExecuteStep, PTL DEF Spec

-----------------------------------------------------------------------------
(* The two goroutines of an operation, and the mutex it was given *)

LEMMA StageStep ==
  TypeOK /\ BgInv /\ MutexInv /\ [Next]_vars => BgInv' /\ MutexInv'
<1> SUFFICES ASSUME TypeOK, BgInv, MutexInv, [Next]_vars PROVE BgInv' /\ MutexInv'
  OBVIOUS
<1> USE DEF vars, sysVars, lockVars
<1>a. /\ pc \in [Ops -> Stages] /\ bg \in [Ops -> BgStages]
      /\ seenClosed \in [Ops -> BOOLEAN] /\ closed \in BOOLEAN
  BY DEF TypeOK
<1>1. ASSUME NEW o \in Ops, Submit(o) PROVE BgInv' /\ MutexInv'
  BY <1>1, <1>a DEF Submit, Goto, BgInv, MutexInv, WaitStages, ExecuteStages, AfterStages
<1>3. ASSUME NEW o \in Ops, TryLock(o) PROVE BgInv' /\ MutexInv'
  BY <1>3, <1>a DEF TryLock, Goto, BgInv, MutexInv, WaitStages, ExecuteStages, AfterStages
<1>4. ASSUME NEW o \in Ops, Announce(o) PROVE BgInv' /\ MutexInv'
  BY <1>4, <1>a DEF Announce, Goto, BgInv, MutexInv, WaitStages, ExecuteStages, AfterStages
<1>5. ASSUME NEW o \in Ops, Admit(o) PROVE BgInv' /\ MutexInv'
  BY <1>5, <1>a DEF Admit, Goto, BgInv, MutexInv, WaitStages, ExecuteStages, AfterStages
<1>6. ASSUME NEW o \in Ops, RejectClosed(o) PROVE BgInv' /\ MutexInv'
  BY <1>6, <1>a DEF RejectClosed, Goto, BgInv, MutexInv, WaitStages, ExecuteStages, AfterStages
<1>7. ASSUME NEW o \in Ops, RejectFull(o) PROVE BgInv' /\ MutexInv'
  BY <1>7, <1>a DEF RejectFull, Goto, BgInv, MutexInv, WaitStages, ExecuteStages, AfterStages
<1>8. ASSUME NEW o \in Ops, AcquireSlot(o) PROVE BgInv' /\ MutexInv'
  BY <1>8, <1>a DEF AcquireSlot, Goto, BgInv, MutexInv, WaitStages, ExecuteStages, AfterStages
<1>9. ASSUME NEW o \in Ops, Abort(o) PROVE BgInv' /\ MutexInv'
  BY <1>9, <1>a DEF Abort, Goto, BgInv, MutexInv, WaitStages, ExecuteStages, AfterStages
<1>10. ASSUME NEW o \in Ops, BeginExecute(o) PROVE BgInv' /\ MutexInv'
  BY <1>10, <1>a DEF BeginExecute, Goto, BgInv, MutexInv, WaitStages, ExecuteStages, AfterStages
<1>11. ASSUME NEW o \in Ops, GetTarget(o) PROVE BgInv' /\ MutexInv'
  BY <1>11, <1>a DEF GetTarget, Goto, BgInv, MutexInv, WaitStages, ExecuteStages, AfterStages
<1>12. ASSUME NEW o \in Ops, Mount(o) PROVE BgInv' /\ MutexInv'
  BY <1>12, <1>a DEF Mount, Goto, BgInv, MutexInv, WaitStages, ExecuteStages, AfterStages
<1>13. ASSUME NEW o \in Ops, Prepare(o) PROVE BgInv' /\ MutexInv'
  BY <1>13, <1>a DEF Prepare, Goto, BgInv, MutexInv, WaitStages, ExecuteStages, AfterStages
<1>14. ASSUME NEW o \in Ops, GetCurrentOwner(o) PROVE BgInv' /\ MutexInv'
  BY <1>14, <1>a DEF GetCurrentOwner, Goto, BgInv, MutexInv, WaitStages, ExecuteStages, AfterStages
<1>15. ASSUME NEW o \in Ops, FixDatastore(o) PROVE BgInv' /\ MutexInv'
  BY <1>15, <1>a DEF FixDatastore, Goto, BgInv, MutexInv, WaitStages, ExecuteStages, AfterStages
<1>16. ASSUME NEW o \in Ops, StartClient(o) PROVE BgInv' /\ MutexInv'
  BY <1>16, <1>a DEF StartClient, Goto, BgInv, MutexInv, WaitStages, ExecuteStages, AfterStages
<1>17. ASSUME NEW o \in Ops, RestoreFirst(o) PROVE BgInv' /\ MutexInv'
  BY <1>17, <1>a DEF RestoreFirst, Goto, BgInv, MutexInv, WaitStages, ExecuteStages, AfterStages
<1>18. ASSUME NEW o \in Ops, DetectTask(o) PROVE BgInv' /\ MutexInv'
  BY <1>18, <1>a DEF DetectTask, Goto, BgInv, MutexInv, WaitStages, ExecuteStages, AfterStages
<1>19. ASSUME NEW o \in Ops, RecordStart(o) PROVE BgInv' /\ MutexInv'
  BY <1>19, <1>a DEF RecordStart, Goto, BgGoto, BgInv, MutexInv, WaitStages, ExecuteStages, AfterStages
<1>20. ASSUME NEW o \in Ops, CleanUpUnlock(o) PROVE BgInv' /\ MutexInv'
  BY <1>20, <1>a DEF CleanUpUnlock, Goto, BgInv, MutexInv, WaitStages, ExecuteStages, AfterStages
<1>21. ASSUME NEW o \in Ops, CleanUpUnmount(o) PROVE BgInv' /\ MutexInv'
  BY <1>21, <1>a DEF CleanUpUnmount, Goto, BgInv, MutexInv, WaitStages, ExecuteStages, AfterStages
<1>22. ASSUME NEW o \in Ops, RestoreLast(o) PROVE BgInv' /\ MutexInv'
  BY <1>22, <1>a DEF RestoreLast, Goto, BgInv, MutexInv, WaitStages, ExecuteStages, AfterStages
<1>23. ASSUME NEW o \in Ops, ReturnFromExecute(o) PROVE BgInv' /\ MutexInv'
  BY <1>23, <1>a DEF ReturnFromExecute, Goto, BgInv, MutexInv, WaitStages, ExecuteStages, AfterStages
<1>24. ASSUME NEW o \in Ops, CreateError(o) PROVE BgInv' /\ MutexInv'
  BY <1>24, <1>a DEF CreateError, Goto, BgInv, MutexInv, WaitStages, ExecuteStages, AfterStages
<1>25. ASSUME NEW o \in Ops, Wait(o) PROVE BgInv' /\ MutexInv'
  BY <1>25, <1>a DEF Wait, Goto, BgInv, MutexInv, WaitStages, ExecuteStages, AfterStages
<1>26. ASSUME NEW o \in Ops, Release(o) PROVE BgInv' /\ MutexInv'
  BY <1>26, <1>a DEF Release, Goto, BgInv, MutexInv, WaitStages, ExecuteStages, AfterStages
<1>27. ASSUME NEW o \in Ops, ClientExit(o) PROVE BgInv' /\ MutexInv'
  BY <1>27 DEF ClientExit, BgInv, MutexInv
<1>28. ASSUME NEW o \in Ops, ClientWait(o) PROVE BgInv' /\ MutexInv'
  BY <1>28, <1>a DEF ClientWait, BgGoto, BgInv, MutexInv
<1>29. ASSUME NEW o \in Ops, Finish(o) PROVE BgInv' /\ MutexInv'
  BY <1>29, <1>a DEF Finish, BgGoto, BgInv, MutexInv
<1>30. ASSUME NEW o \in Ops, RestoreOwner(o) PROVE BgInv' /\ MutexInv'
  BY <1>30, <1>a DEF RestoreOwner, BgGoto, BgInv, MutexInv
<1>31. ASSUME NEW o \in Ops, Unmount(o) PROVE BgInv' /\ MutexInv'
  BY <1>31, <1>a DEF Unmount, BgGoto, BgInv, MutexInv
<1>32. ASSUME NEW o \in Ops, BgUnlock(o) PROVE BgInv' /\ MutexInv'
  BY <1>32, <1>a DEF BgUnlock, BgGoto, BgInv, MutexInv
<1>33. ASSUME WorkerTake PROVE BgInv' /\ MutexInv'
  BY <1>33, <1>a DEF WorkerTake, Goto, BgInv, MutexInv, WaitStages, ExecuteStages, AfterStages
<1>34. ASSUME WorkerExit PROVE BgInv' /\ MutexInv'
  BY <1>34 DEF WorkerExit, BgInv, MutexInv
<1>35. ASSUME Close PROVE BgInv' /\ MutexInv'
  BY <1>35, <1>a DEF Close, BgInv, MutexInv
<1>36. ASSUME UNCHANGED vars PROVE BgInv' /\ MutexInv'
  BY <1>36 DEF BgInv, MutexInv
<1>. QED
  BY <1>1, <1>3, <1>4, <1>5, <1>6, <1>7, <1>8, <1>9, <1>10, <1>11, <1>12,
     <1>13, <1>14, <1>15, <1>16, <1>17, <1>18, <1>19, <1>20, <1>21, <1>22, <1>23,
     <1>24, <1>25, <1>26, <1>27, <1>28, <1>29, <1>30, <1>31, <1>32, <1>33, <1>34,
     <1>35, <1>36
  DEF Next, Step, BgStep

\* Execute's goroutine outlives Execute and not Wait; a mutex that was made after Close
\* is never the one of an operation that runs.
THEOREM StagesCorrect == Spec => [](BgInv /\ MutexInv)
<1>1. Init => BgInv /\ MutexInv
  BY DEF Init, BgInv, MutexInv
<1>. QED
  BY <1>1, TypeCorrect, StageStep, PTL DEF Spec

-----------------------------------------------------------------------------
(* Who owns a job mutex *)

\* A step that moves nobody in or out of the stages that own a mutex
LEMMA LockKept ==
  ASSUME LockOwned, UNCHANGED lockVars,
         \A p \in Ops : HoldsLock(p)' <=> HoldsLock(p)
  PROVE  LockOwned'
  BY DEF LockOwned, Mutex, lockVars

\* A step that unlocks the mutex of an operation that owned it
LEMMA LockGivenBack ==
  ASSUME LockOwned, NEW o \in Ops, HoldsLock(o), ~HoldsLock(o)', Unlock(o),
         UNCHANGED seenClosed,
         \A p \in Ops \ {o} : HoldsLock(p)' <=> HoldsLock(p)
  PROVE  LockOwned'
<1>1. \A p \in Ops : Mutex(p)' = Mutex(p)
  BY DEF Mutex
<1>2. locked' = locked \ {Mutex(o)}
  BY DEF Unlock
<1>3. ASSUME NEW p \in Ops, HoldsLock(p)' PROVE Mutex(p)' \in locked'
  BY <1>1, <1>2, <1>3 DEF LockOwned
<1>4. ASSUME NEW m \in locked' PROVE \E p \in Ops : HoldsLock(p)' /\ Mutex(p)' = m
  BY <1>1, <1>2, <1>4 DEF LockOwned
<1>5. ASSUME NEW p \in Ops, NEW q \in Ops, HoldsLock(p)', HoldsLock(q)', Mutex(p)' = Mutex(q)'
      PROVE  p = q
  BY <1>1, <1>5 DEF LockOwned
<1>. QED
  BY <1>3, <1>4, <1>5 DEF LockOwned

LEMMA LockStep ==
  TypeOK /\ BgInv /\ LockOwned /\ [Next]_vars => LockOwned'
<1> SUFFICES ASSUME TypeOK, BgInv, LockOwned, [Next]_vars PROVE LockOwned'
  OBVIOUS
<1> USE DEF vars, sysVars, lockVars
<1>a. /\ pc \in [Ops -> Stages] /\ bg \in [Ops -> BgStages]
      /\ seenClosed \in [Ops -> BOOLEAN]
  BY DEF TypeOK
<1>b. BgInv
  OBVIOUS
<1>1. ASSUME NEW o \in Ops, Submit(o) PROVE LockOwned'
  <2>1. \A p \in Ops : HoldsLock(p)' <=> HoldsLock(p)
    BY <1>1, <1>a DEF Submit, Goto, HoldsLock, LockStages, WaitStages, ExecuteStages
  <2>. QED
    BY <1>1, <2>1, LockKept DEF Submit
<1>3. ASSUME NEW o \in Ops, TryLock(o) PROVE LockOwned'
  <2>1. ~HoldsLock(o)
    BY <1>3, <1>b DEF TryLock, Goto, BgInv, HoldsLock, LockStages, WaitStages, ExecuteStages
  <2>2. \A p \in Ops \ {o} : (HoldsLock(p)' <=> HoldsLock(p)) /\ Mutex(p)' = Mutex(p)
    BY <1>3, <1>a DEF TryLock, Goto, HoldsLock, LockStages, WaitStages, ExecuteStages, Mutex
  <2>3. Mutex(o)' = <<JobOf[o], closed>>
    BY <1>3, <1>a DEF TryLock, Mutex
  <2>4. CASE <<JobOf[o], closed>> \in locked
    <3>1. ~HoldsLock(o)' /\ locked' = locked
      BY <1>3, <1>a, <1>b, <2>4 DEF TryLock, Goto, BgInv, HoldsLock, LockStages, WaitStages,
         ExecuteStages
    <3>. QED
      BY <2>1, <2>2, <3>1 DEF LockOwned
  <2>5. CASE <<JobOf[o], closed>> \notin locked
    <3>1. HoldsLock(o)' /\ locked' = locked \cup {Mutex(o)'}
      BY <1>3, <1>a, <2>3, <2>5 DEF TryLock, Goto, HoldsLock, LockStages
    <3>. QED
      BY <2>1, <2>2, <2>3, <2>5, <3>1 DEF LockOwned
  <2>. QED
    BY <2>4, <2>5
<1>4. ASSUME NEW o \in Ops, Announce(o) PROVE LockOwned'
  <2>1. \A p \in Ops : HoldsLock(p)' <=> HoldsLock(p)
    BY <1>4, <1>a DEF Announce, Goto, HoldsLock, LockStages, WaitStages, ExecuteStages
  <2>. QED
    BY <1>4, <2>1, LockKept DEF Announce
<1>5. ASSUME NEW o \in Ops, Admit(o) PROVE LockOwned'
  <2>1. \A p \in Ops : HoldsLock(p)' <=> HoldsLock(p)
    BY <1>5, <1>a DEF Admit, Goto, HoldsLock, LockStages, WaitStages, ExecuteStages
  <2>. QED
    BY <1>5, <2>1, LockKept DEF Admit
<1>6. ASSUME NEW o \in Ops, RejectClosed(o) PROVE LockOwned'
  <2>1. \A p \in Ops : HoldsLock(p)' <=> HoldsLock(p)
    BY <1>6, <1>a DEF RejectClosed, Goto, HoldsLock, LockStages, WaitStages, ExecuteStages
  <2>. QED
    BY <1>6, <2>1, LockKept DEF RejectClosed
<1>7. ASSUME NEW o \in Ops, RejectFull(o) PROVE LockOwned'
  <2>1. HoldsLock(o) /\ ~HoldsLock(o)'
    BY <1>7, <1>a, <1>b DEF RejectFull, Goto, BgInv, HoldsLock, LockStages, WaitStages, ExecuteStages
  <2>2. \A p \in Ops \ {o} : HoldsLock(p)' <=> HoldsLock(p)
    BY <1>7, <1>a DEF RejectFull, Goto, HoldsLock, LockStages, WaitStages, ExecuteStages
  <2>. QED
    BY <1>7, <2>1, <2>2, LockGivenBack DEF RejectFull
<1>8. ASSUME NEW o \in Ops, AcquireSlot(o) PROVE LockOwned'
  <2>1. \A p \in Ops : HoldsLock(p)' <=> HoldsLock(p)
    BY <1>8, <1>a DEF AcquireSlot, Goto, HoldsLock, LockStages, WaitStages, ExecuteStages
  <2>. QED
    BY <1>8, <2>1, LockKept DEF AcquireSlot
<1>9. ASSUME NEW o \in Ops, Abort(o) PROVE LockOwned'
  <2>1. HoldsLock(o) /\ ~HoldsLock(o)'
    BY <1>9, <1>a, <1>b DEF Abort, Goto, BgInv, HoldsLock, LockStages, WaitStages, ExecuteStages
  <2>2. \A p \in Ops \ {o} : HoldsLock(p)' <=> HoldsLock(p)
    BY <1>9, <1>a DEF Abort, Goto, HoldsLock, LockStages, WaitStages, ExecuteStages
  <2>. QED
    BY <1>9, <2>1, <2>2, LockGivenBack DEF Abort
<1>10. ASSUME NEW o \in Ops, BeginExecute(o) PROVE LockOwned'
  <2>1. \A p \in Ops : HoldsLock(p)' <=> HoldsLock(p)
    BY <1>10, <1>a DEF BeginExecute, Goto, HoldsLock, LockStages, WaitStages, ExecuteStages
  <2>. QED
    BY <1>10, <2>1, LockKept DEF BeginExecute
<1>11. ASSUME NEW o \in Ops, GetTarget(o) PROVE LockOwned'
  <2>1. \A p \in Ops : HoldsLock(p)' <=> HoldsLock(p)
    BY <1>11, <1>a DEF GetTarget, Goto, HoldsLock, LockStages, WaitStages, ExecuteStages
  <2>. QED
    BY <1>11, <2>1, LockKept DEF GetTarget
<1>12. ASSUME NEW o \in Ops, Mount(o) PROVE LockOwned'
  <2>1. \A p \in Ops : HoldsLock(p)' <=> HoldsLock(p)
    BY <1>12, <1>a DEF Mount, Goto, HoldsLock, LockStages, WaitStages, ExecuteStages
  <2>. QED
    BY <1>12, <2>1, LockKept DEF Mount
<1>13. ASSUME NEW o \in Ops, Prepare(o) PROVE LockOwned'
  <2>1. \A p \in Ops : HoldsLock(p)' <=> HoldsLock(p)
    BY <1>13, <1>a DEF Prepare, Goto, HoldsLock, LockStages, WaitStages, ExecuteStages
  <2>. QED
    BY <1>13, <2>1, LockKept DEF Prepare
<1>14. ASSUME NEW o \in Ops, GetCurrentOwner(o) PROVE LockOwned'
  <2>1. \A p \in Ops : HoldsLock(p)' <=> HoldsLock(p)
    BY <1>14, <1>a DEF GetCurrentOwner, Goto, HoldsLock, LockStages, WaitStages, ExecuteStages
  <2>. QED
    BY <1>14, <2>1, LockKept DEF GetCurrentOwner
<1>15. ASSUME NEW o \in Ops, FixDatastore(o) PROVE LockOwned'
  <2>1. \A p \in Ops : HoldsLock(p)' <=> HoldsLock(p)
    BY <1>15, <1>a DEF FixDatastore, Goto, HoldsLock, LockStages, WaitStages, ExecuteStages
  <2>. QED
    BY <1>15, <2>1, LockKept DEF FixDatastore
<1>16. ASSUME NEW o \in Ops, StartClient(o) PROVE LockOwned'
  <2>1. \A p \in Ops : HoldsLock(p)' <=> HoldsLock(p)
    BY <1>16, <1>a DEF StartClient, Goto, HoldsLock, LockStages, WaitStages, ExecuteStages
  <2>. QED
    BY <1>16, <2>1, LockKept DEF StartClient
<1>17. ASSUME NEW o \in Ops, RestoreFirst(o) PROVE LockOwned'
  <2>1. \A p \in Ops : HoldsLock(p)' <=> HoldsLock(p)
    BY <1>17, <1>a DEF RestoreFirst, Goto, HoldsLock, LockStages, WaitStages, ExecuteStages
  <2>. QED
    BY <1>17, <2>1, LockKept DEF RestoreFirst
<1>18. ASSUME NEW o \in Ops, DetectTask(o) PROVE LockOwned'
  <2>1. \A p \in Ops : HoldsLock(p)' <=> HoldsLock(p)
    BY <1>18, <1>a DEF DetectTask, Goto, HoldsLock, LockStages, WaitStages, ExecuteStages
  <2>. QED
    BY <1>18, <2>1, LockKept DEF DetectTask
<1>19. ASSUME NEW o \in Ops, RecordStart(o) PROVE LockOwned'
  <2>1. \A p \in Ops : HoldsLock(p)' <=> HoldsLock(p)
    BY <1>19, <1>a DEF RecordStart, Goto, BgGoto, HoldsLock, LockStages, WaitStages, ExecuteStages
  <2>. QED
    BY <1>19, <2>1, LockKept DEF RecordStart
<1>20. ASSUME NEW o \in Ops, CleanUpUnlock(o) PROVE LockOwned'
  <2>1. HoldsLock(o) /\ ~HoldsLock(o)'
    BY <1>20, <1>a, <1>b DEF CleanUpUnlock, Goto, BgInv, HoldsLock, LockStages, WaitStages, ExecuteStages
  <2>2. \A p \in Ops \ {o} : HoldsLock(p)' <=> HoldsLock(p)
    BY <1>20, <1>a DEF CleanUpUnlock, Goto, HoldsLock, LockStages, WaitStages, ExecuteStages
  <2>. QED
    BY <1>20, <2>1, <2>2, LockGivenBack DEF CleanUpUnlock
<1>21. ASSUME NEW o \in Ops, CleanUpUnmount(o) PROVE LockOwned'
  <2>1. \A p \in Ops : HoldsLock(p)' <=> HoldsLock(p)
    BY <1>21, <1>a DEF CleanUpUnmount, Goto, HoldsLock, LockStages, WaitStages, ExecuteStages
  <2>. QED
    BY <1>21, <2>1, LockKept DEF CleanUpUnmount
<1>22. ASSUME NEW o \in Ops, RestoreLast(o) PROVE LockOwned'
  <2>1. \A p \in Ops : HoldsLock(p)' <=> HoldsLock(p)
    BY <1>22, <1>a DEF RestoreLast, Goto, HoldsLock, LockStages, WaitStages, ExecuteStages
  <2>. QED
    BY <1>22, <2>1, LockKept DEF RestoreLast
<1>23. ASSUME NEW o \in Ops, ReturnFromExecute(o) PROVE LockOwned'
  <2>1. \A p \in Ops : HoldsLock(p)' <=> HoldsLock(p)
    BY <1>23, <1>a DEF ReturnFromExecute, Goto, HoldsLock, LockStages, WaitStages, ExecuteStages
  <2>. QED
    BY <1>23, <2>1, LockKept DEF ReturnFromExecute
<1>24. ASSUME NEW o \in Ops, CreateError(o) PROVE LockOwned'
  <2>1. \A p \in Ops : HoldsLock(p)' <=> HoldsLock(p)
    BY <1>24, <1>a DEF CreateError, Goto, HoldsLock, LockStages, WaitStages, ExecuteStages
  <2>. QED
    BY <1>24, <2>1, LockKept DEF CreateError
<1>25. ASSUME NEW o \in Ops, Wait(o) PROVE LockOwned'
  <2>1. \A p \in Ops : HoldsLock(p)' <=> HoldsLock(p)
    BY <1>25, <1>a DEF Wait, Goto, HoldsLock, LockStages, WaitStages, ExecuteStages
  <2>. QED
    BY <1>25, <2>1, LockKept DEF Wait
<1>26. ASSUME NEW o \in Ops, Release(o) PROVE LockOwned'
  <2>1. \A p \in Ops : HoldsLock(p)' <=> HoldsLock(p)
    BY <1>26, <1>a DEF Release, Goto, HoldsLock, LockStages, WaitStages, ExecuteStages
  <2>. QED
    BY <1>26, <2>1, LockKept DEF Release
<1>27. ASSUME NEW o \in Ops, ClientExit(o) PROVE LockOwned'
  BY <1>27, LockKept DEF ClientExit, HoldsLock
<1>28. ASSUME NEW o \in Ops, ClientWait(o) PROVE LockOwned'
  <2>1. \A p \in Ops : HoldsLock(p)' <=> HoldsLock(p)
    BY <1>28, <1>a DEF ClientWait, BgGoto, HoldsLock, LockStages, WaitStages, ExecuteStages
  <2>. QED
    BY <1>28, <2>1, LockKept DEF ClientWait
<1>29. ASSUME NEW o \in Ops, Finish(o) PROVE LockOwned'
  <2>1. \A p \in Ops : HoldsLock(p)' <=> HoldsLock(p)
    BY <1>29, <1>a DEF Finish, BgGoto, HoldsLock, LockStages, WaitStages, ExecuteStages
  <2>. QED
    BY <1>29, <2>1, LockKept DEF Finish
<1>30. ASSUME NEW o \in Ops, RestoreOwner(o) PROVE LockOwned'
  <2>1. \A p \in Ops : HoldsLock(p)' <=> HoldsLock(p)
    BY <1>30, <1>a DEF RestoreOwner, BgGoto, HoldsLock, LockStages, WaitStages, ExecuteStages
  <2>. QED
    BY <1>30, <2>1, LockKept DEF RestoreOwner
<1>31. ASSUME NEW o \in Ops, Unmount(o) PROVE LockOwned'
  <2>1. \A p \in Ops : HoldsLock(p)' <=> HoldsLock(p)
    BY <1>31, <1>a DEF Unmount, BgGoto, HoldsLock, LockStages, WaitStages, ExecuteStages
  <2>. QED
    BY <1>31, <2>1, LockKept DEF Unmount
<1>32. ASSUME NEW o \in Ops, BgUnlock(o) PROVE LockOwned'
  <2>1. HoldsLock(o) /\ ~HoldsLock(o)'
    BY <1>32, <1>a, <1>b DEF BgUnlock, BgGoto, BgInv, HoldsLock, LockStages, WaitStages, ExecuteStages
  <2>2. \A p \in Ops \ {o} : HoldsLock(p)' <=> HoldsLock(p)
    BY <1>32, <1>a DEF BgUnlock, BgGoto, HoldsLock, LockStages, WaitStages, ExecuteStages
  <2>. QED
    BY <1>32, <2>1, <2>2, LockGivenBack DEF BgUnlock
<1>33. ASSUME WorkerTake PROVE LockOwned'
  <2>1. \A p \in Ops : HoldsLock(p)' <=> HoldsLock(p)
    BY <1>33, <1>a DEF WorkerTake, Goto, HoldsLock, LockStages, WaitStages, ExecuteStages
  <2>. QED
    BY <1>33, <2>1, LockKept DEF WorkerTake
<1>34. ASSUME WorkerExit PROVE LockOwned'
  BY <1>34, LockKept DEF WorkerExit, HoldsLock
<1>35. ASSUME Close PROVE LockOwned'
  BY <1>35, LockKept DEF Close, HoldsLock
<1>36. ASSUME UNCHANGED vars PROVE LockOwned'
  BY <1>36, LockKept DEF HoldsLock
<1>. QED
  BY <1>1, <1>3, <1>4, <1>5, <1>6, <1>7, <1>8, <1>9, <1>10, <1>11, <1>12,
     <1>13, <1>14, <1>15, <1>16, <1>17, <1>18, <1>19, <1>20, <1>21, <1>22, <1>23,
     <1>24, <1>25, <1>26, <1>27, <1>28, <1>29, <1>30, <1>31, <1>32, <1>33, <1>34,
     <1>35, <1>36
  DEF Next, Step, BgStep

\* Each locked mutex has one owner and each owner a locked mutex: nothing is unlocked
\* twice or for somebody else.
LEMMA LocksOwned == Spec => []LockOwned
<1>1. Init => LockOwned
  BY DEF Init, LockOwned, HoldsLock, LockStages, WaitStages, ExecuteStages
<1>2. TypeOK /\ (BgInv /\ MutexInv) /\ LockOwned /\ [Next]_vars => LockOwned'
  BY LockStep
<1>. QED
  BY <1>1, <1>2, TypeCorrect, StagesCorrect, PTL DEF Spec

\* A locked mutex has one owner that is still to unlock it, before Close; after Close the
\* two ways out that leave it locked are those LockAccount names.
THEOREM LocksAccounted == Spec => []LockAccount
<1>1. MutexInv /\ LockOwned => LockAccount
  <2> SUFFICES ASSUME MutexInv, LockOwned PROVE LockAccount
    OBVIOUS
  <2>1. ASSUME NEW o \in Ops, LeftLocked(o) PROVE closed
    BY <2>1 DEF MutexInv, LeftLocked
  <2>. QED
    BY <2>1 DEF LockOwned, LockAccount
<1>2. (BgInv /\ MutexInv) => MutexInv
  OBVIOUS
<1>. QED
  BY <1>1, <1>2, StagesCorrect, LocksOwned, PTL

-----------------------------------------------------------------------------
(* The mount of a job *)

\* Whoever comes to Mount finds no mount of its job: an operation that has one is inside
\* Execute, and only one is, or owns the mutex of the job, and only one does.
LEMMA MountAlone ==
  ASSUME TypeOK, ExecuteExclusive, BgInv, MutexInv, LockOwned, MountInv,
         NEW o \in Ops, pc[o] = "mount"
  PROVE  \A p \in agentMount : JobOf[p] # JobOf[o]
<1> SUFFICES ASSUME NEW p \in agentMount, JobOf[p] = JobOf[o] PROVE FALSE
  OBVIOUS
<1>1. p \in Ops
  BY DEF TypeOK
<1>2. bg[o] = "none"
  BY DEF BgInv
<1>3. CASE pc[p] \in MountedStages
  <2>1. pc[p] \in ExecuteStages /\ pc[o] \in ExecuteStages
    BY <1>3 DEF MountedStages, ExecuteStages
  <2>2. p = o
    BY <1>1, <2>1 DEF ExecuteExclusive
  <2>. QED
    BY <1>3, <2>2 DEF MountedStages
<1>4. CASE bg[p] \in MountedBgStages
  <2>1. HoldsLock(p) /\ HoldsLock(o)
    BY <1>1, <1>4 DEF HoldsLock, LockStages, ExecuteStages, MountedBgStages
  <2>2. pc[p] \in {"returnOk", "wait", "release", "done"} /\ bg[p] \notin {"none", "done"}
    BY <1>1, <1>4 DEF BgInv, MountedBgStages
  <2>3. pc[p] \in ExecuteStages \cup AfterStages /\ pc[o] \in ExecuteStages
    BY <1>1, <2>2 DEF ExecuteStages, AfterStages, BgInv
  <2>4. seenClosed[p] = FALSE /\ seenClosed[o] = FALSE
    BY <1>1, <2>3 DEF MutexInv, TypeOK
  <2>5. p = o
    BY <1>1, <2>1, <2>4 DEF LockOwned, Mutex
  <2>. QED
    BY <1>2, <1>4, <2>5 DEF MountedBgStages
<1>. QED
  BY <1>1, <1>3, <1>4 DEF MountInv

\* The mounts of an operation's job are all of that job; below the one shown first they are
\* left over from failed unmounts.
LEMMA Below ==
  ASSUME TypeOK, NEW m \in Seq(Ops), m # <<>>
  PROVE  /\ Unmounted(m) = Tail(m) /\ Len(Tail(m)) = Len(m) - 1
         /\ \A i \in 1..Len(Tail(m)) : i + 1 \in 2..Len(m) /\ Tail(m)[i] = m[i + 1]
  BY DEF Unmounted

LEMMA Above ==
  ASSUME TypeOK, NEW o \in Ops, NEW m \in Seq(Ops)
  PROVE  /\ <<o>> \o m # <<>> /\ Head(<<o>> \o m) = o
         /\ Len(<<o>> \o m) = Len(m) + 1 /\ (<<o>> \o m)[1] = o
         /\ \A i \in 2..Len(<<o>> \o m) : i - 1 \in 1..Len(m) /\ (<<o>> \o m)[i] = m[i - 1]
<1>1. <<o>> \in Seq(Ops) /\ Len(<<o>>) = 1 /\ <<o>>[1] = o
  OBVIOUS
<1>2. <<o>> \o m \in Seq(Ops) /\ Len(<<o>> \o m) = Len(m) + 1
  BY <1>1
<1>3. (<<o>> \o m)[1] = o
  BY <1>1
<1>4. \A i \in 2..Len(<<o>> \o m) : i - 1 \in 1..Len(m) /\ (<<o>> \o m)[i] = m[i - 1]
  BY <1>1, <1>2
<1>. QED
  BY <1>2, <1>3, <1>4

\* What Mount may find on its path, before it mounts: nothing but what failed unmounts left.
LEMMA OnlyLeftovers ==
  ASSUME TypeOK, ExecuteExclusive, BgInv, MutexInv, LockOwned, MountInv,
         NEW o \in Ops, pc[o] = "mount",
         NEW m \in {mounted[JobOf[o]], Unmounted(mounted[JobOf[o]]),
                    Unmounted(Unmounted(mounted[JobOf[o]]))}
  PROVE  /\ m \in Seq(Ops)
         /\ \A i \in 1..Len(m) : m[i] \in stuck /\ JobOf[m[i]] = JobOf[o]
<1> DEFINE n == mounted[JobOf[o]]
<1>1. n \in Seq(Ops) /\ JobOf[o] \in Jobs
  BY MountType
<1>2. \A i \in 1..Len(n) : n[i] \in stuck /\ JobOf[n[i]] = JobOf[o]
  BY <1>1, MountAlone DEF MountInv, MountIntact
<1> HIDE DEF n
<1>3. ASSUME NEW k \in Seq(Ops), \A i \in 1..Len(k) : k[i] \in stuck /\ JobOf[k[i]] = JobOf[o]
      PROVE  /\ Unmounted(k) \in Seq(Ops)
             /\ \A i \in 1..Len(Unmounted(k)) :
                  Unmounted(k)[i] \in stuck /\ JobOf[Unmounted(k)[i]] = JobOf[o]
  <2>1. CASE k = <<>>
    BY <2>1, <1>3 DEF Unmounted
  <2>2. CASE k # <<>>
    <3>1. /\ Unmounted(k) = Tail(k) /\ Tail(k) \in Seq(Ops)
          /\ \A i \in 1..Len(Tail(k)) : i + 1 \in 2..Len(k) /\ Tail(k)[i] = k[i + 1]
      BY <2>2, Below
    <3>2. \A i \in 2..Len(k) : i \in 1..Len(k)
      OBVIOUS
    <3>. QED
      BY <1>3, <3>1, <3>2
  <2>. QED
    BY <2>1, <2>2
<1>4. m \in {n, Unmounted(n), Unmounted(Unmounted(n))}
  BY DEF n
<1>. QED
  BY <1>1, <1>2, <1>3, <1>4

\* Unmounting by path takes down the operation's own mount and no other.
LEMMA UnmountTakesOwn ==
  ASSUME TypeOK, MountInv, NEW o \in Ops, UnmountOwn(o)
  PROVE  /\ agentMount' = agentMount \ {o}
         /\ MountIntact'
         /\ \A j \in Jobs : \A i \in 1..Len(mounted'[j]) : JobOf[mounted'[j][i]] = j
<1> DEFINE j0 == JobOf[o]
           m == mounted[j0]
<1>0. agentMount' = agentMount \ {o}
  BY DEF UnmountOwn
<1>1. m \in Seq(Ops) /\ j0 \in Jobs
  BY MountType
<1>2. CASE o \notin agentMount
  <2>1. mounted' = mounted /\ stuck' = stuck /\ agentMount' = agentMount
    BY <1>2 DEF UnmountOwn
  <2>. QED
    BY <1>0, <2>1 DEF MountInv, MountIntact
<1>3. CASE o \in agentMount
  <2>1. m # <<>> /\ Head(m) = o /\ m[1] = o
    BY <1>1, <1>3 DEF MountInv, MountIntact
  <2>2. ASSUME NEW p \in agentMount \ {o} PROVE JobOf[p] # j0
    <3>1. Head(mounted[JobOf[p]]) = p
      BY <2>2 DEF MountInv, MountIntact
    <3>. QED
      BY <2>1, <2>2, <3>1
  <2>3. CASE mounted' = mounted /\ stuck' = stuck \cup {o}
    BY <1>0, <1>1, <2>1, <2>3 DEF MountInv, MountIntact
  <2>4. CASE mounted' = [mounted EXCEPT ![j0] = Unmounted(m)] /\ stuck' = stuck
    <3>0. stuck' = stuck
      BY <2>4
    <3>1. /\ Unmounted(m) = Tail(m)
          /\ \A i \in 1..Len(Tail(m)) : i + 1 \in 2..Len(m) /\ Tail(m)[i] = m[i + 1]
      BY <1>1, <2>1, Below
    <3>2. /\ \A j \in Jobs \ {j0} : mounted'[j] = mounted[j]
          /\ mounted'[j0] = Tail(m)
      BY <1>1, <2>4, <3>1 DEF TypeOK
    <3>3. \A i \in 2..Len(m) : m[i] \in stuck /\ JobOf[m[i]] = j0
      BY <1>1 DEF MountInv, MountIntact
    <3>4. \A p \in agentMount' : JobOf[p] \in Jobs \ {j0}
      BY <1>0, <2>2, OpsAssumption DEF TypeOK
    <3>5. \A p \in agentMount' : mounted'[JobOf[p]] # <<>> /\ Head(mounted'[JobOf[p]]) = p
      BY <1>0, <3>2, <3>4 DEF MountInv, MountIntact
    <3>6. ASSUME NEW j \in Jobs, NEW i \in 1..Len(mounted'[j])
          PROVE  /\ \/ mounted'[j][i] \in stuck'
                    \/ i = 1 /\ mounted'[j][i] \in agentMount'
                 /\ JobOf[mounted'[j][i]] = j
      <4>1. CASE j = j0
        <5>1. mounted'[j] = Tail(m) /\ i \in 1..Len(Tail(m))
          BY <3>2, <3>6, <4>1
        <5>2. Tail(m)[i] \in stuck /\ JobOf[Tail(m)[i]] = j0
          BY <3>1, <3>3, <5>1
        <5>3. mounted'[j][i] = Tail(m)[i]
          BY <5>1
        <5>4. mounted'[j][i] \in stuck' /\ JobOf[mounted'[j][i]] = j
          BY <3>0, <4>1, <5>2, <5>3
        <5>. QED
          BY <5>4
      <4>2. CASE j # j0
        <5>1. mounted'[j] = mounted[j] /\ i \in 1..Len(mounted[j])
          BY <4>2, <3>2, <3>6
        <5>2. JobOf[mounted[j][i]] = j
          BY <5>1 DEF MountInv
        <5>3. mounted[j][i] # o
          BY <5>2, <4>2
        <5>. QED
          BY <1>0, <2>4, <5>1, <5>2, <5>3 DEF MountInv, MountIntact
      <4>. QED
        BY <4>1, <4>2
    <3>. QED
      BY <1>0, <3>5, <3>6 DEF MountIntact
  <2>. QED
    BY <1>3, <2>3, <2>4 DEF UnmountOwn
<1>. QED
  BY <1>2, <1>3

LEMMA MountStep ==
  /\ TypeOK /\ ExecuteExclusive /\ BgInv /\ MutexInv /\ LockOwned /\ MountInv
  /\ [Next]_vars
  => MountInv'
<1> SUFFICES ASSUME TypeOK, ExecuteExclusive, BgInv, MutexInv, LockOwned, MountInv,
                    [Next]_vars
             PROVE  MountInv'
  OBVIOUS
<1> USE DEF vars, sysVars, lockVars, mountVars
<1>a. /\ pc \in [Ops -> Stages] /\ bg \in [Ops -> BgStages]
      /\ mounted \in [Jobs -> Seq(Ops)] /\ agentMount \subseteq Ops
  BY DEF TypeOK
<1>1. ASSUME NEW o \in Ops, Submit(o) PROVE MountInv'
  BY <1>1, <1>a DEF Submit, Goto, MountInv, MountIntact, MountedStages, MountedBgStages
<1>3. ASSUME NEW o \in Ops, TryLock(o) PROVE MountInv'
  BY <1>3, <1>a DEF TryLock, Goto, MountInv, MountIntact, MountedStages, MountedBgStages
<1>4. ASSUME NEW o \in Ops, Announce(o) PROVE MountInv'
  BY <1>4, <1>a DEF Announce, Goto, MountInv, MountIntact, MountedStages, MountedBgStages
<1>5. ASSUME NEW o \in Ops, Admit(o) PROVE MountInv'
  BY <1>5, <1>a DEF Admit, Goto, MountInv, MountIntact, MountedStages, MountedBgStages
<1>6. ASSUME NEW o \in Ops, RejectClosed(o) PROVE MountInv'
  BY <1>6, <1>a DEF RejectClosed, Goto, MountInv, MountIntact, MountedStages, MountedBgStages
<1>7. ASSUME NEW o \in Ops, RejectFull(o) PROVE MountInv'
  BY <1>7, <1>a DEF RejectFull, Goto, MountInv, MountIntact, MountedStages, MountedBgStages
<1>8. ASSUME NEW o \in Ops, AcquireSlot(o) PROVE MountInv'
  BY <1>8, <1>a DEF AcquireSlot, Goto, MountInv, MountIntact, MountedStages, MountedBgStages
<1>9. ASSUME NEW o \in Ops, Abort(o) PROVE MountInv'
  BY <1>9, <1>a DEF Abort, Goto, MountInv, MountIntact, MountedStages, MountedBgStages
<1>10. ASSUME NEW o \in Ops, BeginExecute(o) PROVE MountInv'
  BY <1>10, <1>a DEF BeginExecute, Goto, MountInv, MountIntact, MountedStages, MountedBgStages
<1>11. ASSUME NEW o \in Ops, GetTarget(o) PROVE MountInv'
  BY <1>11, <1>a DEF GetTarget, Goto, MountInv, MountIntact, MountedStages, MountedBgStages
<1>12. ASSUME NEW o \in Ops, Mount(o) PROVE MountInv'
  <2> DEFINE j0 == JobOf[o]
             m  == mounted'[j0]
  <2>1. /\ j0 \in Jobs /\ pc[o] = "mount"
        /\ \A p \in agentMount : p # o /\ JobOf[p] \in Jobs /\ JobOf[p] # j0
    BY <1>12, MountAlone, MountType, OpsAssumption, <1>a DEF Mount, Goto
  <2>2. \A j \in Jobs \ {j0} : mounted'[j] = mounted[j]
    BY <1>12, <1>a, <2>1 DEF Mount
  <2>3. \A p \in agentMount : pc'[p] = pc[p] /\ bg'[p] = bg[p]
    BY <1>12, <1>a, <2>1 DEF Mount, Goto
  <2>4. PICK below \in {mounted[j0], Unmounted(mounted[j0])} :
          \/ /\ mounted' = [mounted EXCEPT ![j0] = <<o>> \o below]
             /\ \/ Goto(o, "mount", "prepare") /\ agentMount' = agentMount \cup {o} /\ stuck' = stuck
                \/ agentMount' = agentMount /\ stuck' = stuck \cup {o}
          \/ /\ \E left \in {below, Unmounted(below)} : mounted' = [mounted EXCEPT ![j0] = left]
             /\ agentMount' = agentMount /\ stuck' = stuck
    BY <1>12 DEF Mount
  <2>5. /\ below \in Seq(Ops)
        /\ \A i \in 1..Len(below) : below[i] \in stuck /\ JobOf[below[i]] = j0
    BY <2>1, OnlyLeftovers
  <2>6. stuck \subseteq stuck' /\ agentMount \subseteq agentMount' /\ agentMount' \subseteq agentMount \cup {o}
    BY <2>4
  <2>7. ASSUME NEW i \in 1..Len(m)
        PROVE  /\ m[i] \in stuck' \/ (i = 1 /\ m[i] \in agentMount')
               /\ JobOf[m[i]] = j0
    <3>1. CASE m = <<o>> \o below /\ o \in agentMount' \cup stuck'
      <4>1. /\ m[1] = o
            /\ \A k \in 2..Len(m) : k - 1 \in 1..Len(below) /\ m[k] = below[k - 1]
        BY <2>5, <3>1, Above
      <4>2. i = 1 \/ i \in 2..Len(m)
        BY <2>7
      <4>. QED
        BY <2>5, <2>6, <3>1, <4>1, <4>2
    <3>2. CASE m \in {below, Unmounted(below)}
      <4>1. \A k \in 1..Len(m) : m[k] \in stuck /\ JobOf[m[k]] = j0
        BY <2>1, <2>4, <3>2, OnlyLeftovers
      <4>. QED
        BY <2>6, <2>7, <4>1
    <3>. QED
      BY <1>a, <2>1, <2>4, <3>1, <3>2
  <2>8. ASSUME NEW p \in agentMount'
        PROVE  /\ mounted'[JobOf[p]] # <<>> /\ Head(mounted'[JobOf[p]]) = p
               /\ pc'[p] \in MountedStages \/ bg'[p] \in MountedBgStages
    <3>1. CASE p \in agentMount
      BY <2>1, <2>2, <2>3, <3>1 DEF MountInv, MountIntact
    <3>2. CASE p \notin agentMount
      <4>1. p = o /\ Goto(o, "mount", "prepare") /\ m = <<o>> \o below
        BY <1>a, <2>1, <2>4, <2>8, <3>2
      <4>2. m # <<>> /\ Head(m) = o
        BY <2>5, <4>1, Above
      <4>. QED
        BY <1>a, <4>1, <4>2 DEF Goto, MountedStages
    <3>. QED
      BY <3>1, <3>2
  <2>9. ASSUME NEW j \in Jobs, NEW i \in 1..Len(mounted'[j])
        PROVE  /\ mounted'[j][i] \in stuck' \/ (i = 1 /\ mounted'[j][i] \in agentMount')
               /\ JobOf[mounted'[j][i]] = j
    <3>1. CASE j = j0
      BY <2>7, <3>1
    <3>2. CASE j # j0
      <4>1. mounted'[j] = mounted[j] /\ i \in 1..Len(mounted[j])
        BY <2>2, <2>9, <3>2
      <4>2. /\ mounted[j][i] \in stuck \/ (i = 1 /\ mounted[j][i] \in agentMount)
            /\ JobOf[mounted[j][i]] = j
        BY <4>1 DEF MountInv, MountIntact
      <4>. QED
        BY <2>6, <4>1, <4>2
    <3>. QED
      BY <3>1, <3>2
  <2>. QED
    BY <2>8, <2>9 DEF MountInv, MountIntact
<1>13. ASSUME NEW o \in Ops, Prepare(o) PROVE MountInv'
  BY <1>13, <1>a DEF Prepare, Goto, MountInv, MountIntact, MountedStages, MountedBgStages
<1>14. ASSUME NEW o \in Ops, GetCurrentOwner(o) PROVE MountInv'
  BY <1>14, <1>a DEF GetCurrentOwner, Goto, MountInv, MountIntact, MountedStages, MountedBgStages
<1>15. ASSUME NEW o \in Ops, FixDatastore(o) PROVE MountInv'
  BY <1>15, <1>a DEF FixDatastore, Goto, MountInv, MountIntact, MountedStages, MountedBgStages
<1>16. ASSUME NEW o \in Ops, StartClient(o) PROVE MountInv'
  BY <1>16, <1>a DEF StartClient, Goto, MountInv, MountIntact, MountedStages, MountedBgStages
<1>17. ASSUME NEW o \in Ops, RestoreFirst(o) PROVE MountInv'
  BY <1>17, <1>a DEF RestoreFirst, Goto, MountInv, MountIntact, MountedStages, MountedBgStages
<1>18. ASSUME NEW o \in Ops, DetectTask(o) PROVE MountInv'
  BY <1>18, <1>a DEF DetectTask, Goto, MountInv, MountIntact, MountedStages, MountedBgStages
<1>19. ASSUME NEW o \in Ops, RecordStart(o) PROVE MountInv'
  BY <1>19, <1>a DEF RecordStart, Goto, BgGoto, MountInv, MountIntact, MountedStages, MountedBgStages
<1>20. ASSUME NEW o \in Ops, CleanUpUnlock(o) PROVE MountInv'
  BY <1>20, <1>a DEF CleanUpUnlock, Goto, MountInv, MountIntact, MountedStages, MountedBgStages
<1>21. ASSUME NEW o \in Ops, CleanUpUnmount(o) PROVE MountInv'
  <2>1. /\ agentMount' = agentMount \ {o} /\ MountIntact'
        /\ \A j \in Jobs : \A i \in 1..Len(mounted'[j]) : JobOf[mounted'[j][i]] = j
    BY <1>21, UnmountTakesOwn DEF CleanUpUnmount
  <2>2. \A p \in agentMount' : pc'[p] = pc[p] /\ bg'[p] = bg[p]
    BY <1>21, <1>a, <2>1 DEF CleanUpUnmount, Goto
  <2>. QED
    BY <2>1, <2>2 DEF MountInv
<1>22. ASSUME NEW o \in Ops, RestoreLast(o) PROVE MountInv'
  BY <1>22, <1>a DEF RestoreLast, Goto, MountInv, MountIntact, MountedStages, MountedBgStages
<1>23. ASSUME NEW o \in Ops, ReturnFromExecute(o) PROVE MountInv'
  BY <1>23, <1>a DEF ReturnFromExecute, Goto, MountInv, MountIntact, MountedStages, MountedBgStages
<1>24. ASSUME NEW o \in Ops, CreateError(o) PROVE MountInv'
  BY <1>24, <1>a DEF CreateError, Goto, MountInv, MountIntact, MountedStages, MountedBgStages
<1>25. ASSUME NEW o \in Ops, Wait(o) PROVE MountInv'
  BY <1>25, <1>a DEF Wait, Goto, MountInv, MountIntact, MountedStages, MountedBgStages
<1>26. ASSUME NEW o \in Ops, Release(o) PROVE MountInv'
  BY <1>26, <1>a DEF Release, Goto, MountInv, MountIntact, MountedStages, MountedBgStages
<1>27. ASSUME NEW o \in Ops, ClientExit(o) PROVE MountInv'
  BY <1>27 DEF ClientExit, MountInv, MountIntact
<1>28. ASSUME NEW o \in Ops, ClientWait(o) PROVE MountInv'
  BY <1>28, <1>a DEF ClientWait, BgGoto, MountInv, MountIntact, MountedStages, MountedBgStages
<1>29. ASSUME NEW o \in Ops, Finish(o) PROVE MountInv'
  BY <1>29, <1>a DEF Finish, BgGoto, MountInv, MountIntact, MountedStages, MountedBgStages
<1>30. ASSUME NEW o \in Ops, RestoreOwner(o) PROVE MountInv'
  BY <1>30, <1>a DEF RestoreOwner, BgGoto, MountInv, MountIntact, MountedStages, MountedBgStages
<1>31. ASSUME NEW o \in Ops, Unmount(o) PROVE MountInv'
  <2>1. /\ agentMount' = agentMount \ {o} /\ MountIntact'
        /\ \A j \in Jobs : \A i \in 1..Len(mounted'[j]) : JobOf[mounted'[j][i]] = j
    BY <1>31, UnmountTakesOwn DEF Unmount
  <2>2. \A p \in agentMount' : pc'[p] = pc[p] /\ bg'[p] = bg[p]
    BY <1>31, <1>a, <2>1 DEF Unmount, BgGoto
  <2>. QED
    BY <2>1, <2>2 DEF MountInv
<1>32. ASSUME NEW o \in Ops, BgUnlock(o) PROVE MountInv'
  BY <1>32, <1>a DEF BgUnlock, BgGoto, MountInv, MountIntact, MountedStages, MountedBgStages
<1>33. ASSUME WorkerTake PROVE MountInv'
  BY <1>33, <1>a DEF WorkerTake, Goto, MountInv, MountIntact, MountedStages, MountedBgStages
<1>34. ASSUME WorkerExit PROVE MountInv'
  BY <1>34 DEF WorkerExit, MountInv, MountIntact
<1>35. ASSUME Close PROVE MountInv'
  BY <1>35 DEF Close, MountInv, MountIntact
<1>36. ASSUME UNCHANGED vars PROVE MountInv'
  BY <1>36 DEF MountInv, MountIntact
<1>. QED
  BY <1>1, <1>3, <1>4, <1>5, <1>6, <1>7, <1>8, <1>9, <1>10, <1>11, <1>12,
     <1>13, <1>14, <1>15, <1>16, <1>17, <1>18, <1>19, <1>20, <1>21, <1>22, <1>23,
     <1>24, <1>25, <1>26, <1>27, <1>28, <1>29, <1>30, <1>31, <1>32, <1>33, <1>34,
     <1>35, <1>36
  DEF Next, Step, BgStep

\* The strengthening of the invariants is inductive.
THEOREM Inductive == Spec => []IInv
<1>1. Init => MountInv
  BY DEF Init, MountInv, MountIntact
<1>2. TypeOK /\ ExecuteExclusive /\ (BgInv /\ MutexInv) /\ LockOwned => (MountInv /\ [Next]_vars => MountInv')
  BY MountStep
<1>3. Spec => []MountInv
  BY <1>1, <1>2, TypeCorrect, ExecuteIsExclusive, StagesCorrect, LocksOwned, PTL DEF Spec
<1>. QED
  BY <1>3, TypeCorrect, ExecuteIsExclusive, StagesCorrect, LocksOwned, PTL DEF IInv

\* The mount an operation made is what the path of its job shows until that operation takes
\* it down, whatever unmounts failed before; the error path's early unlock does not let
\* another operation mount over it.
THEOREM MountStaysIntact == Spec => []MountIntact
<1>1. IInv => MountIntact
  BY DEF IInv, MountInv
<1>. QED
  BY <1>1, Inductive, PTL

-----------------------------------------------------------------------------
(* What holds of proxmox-backup-client when updateJobStatus never fails    *)
(* after the client has started: the client runs only for an operation     *)
(* that owns its job, with its mount in place, and once per job.  Without  *)
(* that assumption both are false (see the README).                        *)

\* ClientInv is preserved by every step.
LEMMA ClientStep ==
  ASSUME "status" \notin MayFail, TypeOK, BgInv, MountInv, ClientInv, [Next]_vars
  PROVE  ClientInv'
<1> USE DEF vars, sysVars, lockVars, mountVars
<1>a. /\ pc \in [Ops -> Stages] /\ bg \in [Ops -> BgStages]
      /\ client \in [Ops -> Clients] /\ agentMount \subseteq Ops /\ BgInv
  BY DEF TypeOK
<1>1. ASSUME NEW o \in Ops, Submit(o) PROVE ClientInv'
  BY <1>1, <1>a DEF Submit, Goto, ClientInv, IsAgent, BgInv, MountedBgStages
<1>3. ASSUME NEW o \in Ops, TryLock(o) PROVE ClientInv'
  BY <1>3, <1>a DEF TryLock, Goto, ClientInv, IsAgent, BgInv, MountedBgStages
<1>4. ASSUME NEW o \in Ops, Announce(o) PROVE ClientInv'
  BY <1>4, <1>a DEF Announce, Goto, ClientInv, IsAgent, BgInv, MountedBgStages
<1>5. ASSUME NEW o \in Ops, Admit(o) PROVE ClientInv'
  BY <1>5, <1>a DEF Admit, Goto, ClientInv, IsAgent, BgInv, MountedBgStages
<1>6. ASSUME NEW o \in Ops, RejectClosed(o) PROVE ClientInv'
  BY <1>6, <1>a DEF RejectClosed, Goto, ClientInv, IsAgent, BgInv, MountedBgStages
<1>7. ASSUME NEW o \in Ops, RejectFull(o) PROVE ClientInv'
  BY <1>7, <1>a DEF RejectFull, Goto, ClientInv, IsAgent, BgInv, MountedBgStages
<1>8. ASSUME NEW o \in Ops, AcquireSlot(o) PROVE ClientInv'
  BY <1>8, <1>a DEF AcquireSlot, Goto, ClientInv, IsAgent, BgInv, MountedBgStages
<1>9. ASSUME NEW o \in Ops, Abort(o) PROVE ClientInv'
  BY <1>9, <1>a DEF Abort, Goto, ClientInv, IsAgent, BgInv, MountedBgStages
<1>10. ASSUME NEW o \in Ops, BeginExecute(o) PROVE ClientInv'
  BY <1>10, <1>a DEF BeginExecute, Goto, ClientInv, IsAgent, BgInv, MountedBgStages
<1>11. ASSUME NEW o \in Ops, GetTarget(o) PROVE ClientInv'
  BY <1>11, <1>a DEF GetTarget, Goto, ClientInv, IsAgent, BgInv, MountedBgStages
<1>12. ASSUME NEW o \in Ops, Mount(o) PROVE ClientInv'
  BY <1>12, <1>a DEF Mount, Goto, ClientInv, IsAgent, BgInv, MountedBgStages
<1>13. ASSUME NEW o \in Ops, Prepare(o) PROVE ClientInv'
  BY <1>13, <1>a DEF Prepare, Goto, ClientInv, IsAgent, BgInv, MountedBgStages
<1>14. ASSUME NEW o \in Ops, GetCurrentOwner(o) PROVE ClientInv'
  BY <1>14, <1>a DEF GetCurrentOwner, Goto, ClientInv, IsAgent, BgInv, MountedBgStages
<1>15. ASSUME NEW o \in Ops, FixDatastore(o) PROVE ClientInv'
  BY <1>15, <1>a DEF FixDatastore, Goto, ClientInv, IsAgent, BgInv, MountedBgStages
<1>16. ASSUME NEW o \in Ops, StartClient(o) PROVE ClientInv'
  BY <1>16, <1>a DEF StartClient, Goto, ClientInv, IsAgent, BgInv, MountedBgStages
<1>17. ASSUME NEW o \in Ops, RestoreFirst(o) PROVE ClientInv'
  BY <1>17, <1>a DEF RestoreFirst, Goto, ClientInv, IsAgent, BgInv, MountedBgStages
<1>18. ASSUME NEW o \in Ops, DetectTask(o) PROVE ClientInv'
  BY <1>18, <1>a DEF DetectTask, Goto, ClientInv, IsAgent, BgInv, MountedBgStages
<1>19. ASSUME NEW o \in Ops, RecordStart(o) PROVE ClientInv'
  BY <1>19, <1>a DEF RecordStart, Goto, BgGoto, ClientInv, IsAgent, BgInv, MountedBgStages
<1>20. ASSUME NEW o \in Ops, CleanUpUnlock(o) PROVE ClientInv'
  BY <1>20, <1>a DEF CleanUpUnlock, Goto, ClientInv, IsAgent, BgInv, MountedBgStages
<1>21. ASSUME NEW o \in Ops, CleanUpUnmount(o) PROVE ClientInv'
  <2>1. agentMount' = agentMount \ {o}
    BY <1>21, UnmountTakesOwn DEF CleanUpUnmount
  <2>. QED
    BY <1>21, <2>1, <1>a DEF CleanUpUnmount, Goto, ClientInv, IsAgent, BgInv, MountedBgStages
<1>22. ASSUME NEW o \in Ops, RestoreLast(o) PROVE ClientInv'
  BY <1>22, <1>a DEF RestoreLast, Goto, ClientInv, IsAgent, BgInv, MountedBgStages
<1>23. ASSUME NEW o \in Ops, ReturnFromExecute(o) PROVE ClientInv'
  BY <1>23, <1>a DEF ReturnFromExecute, Goto, ClientInv, IsAgent, BgInv, MountedBgStages
<1>24. ASSUME NEW o \in Ops, CreateError(o) PROVE ClientInv'
  BY <1>24, <1>a DEF CreateError, Goto, ClientInv, IsAgent, BgInv, MountedBgStages
<1>25. ASSUME NEW o \in Ops, Wait(o) PROVE ClientInv'
  BY <1>25, <1>a DEF Wait, Goto, ClientInv, IsAgent, BgInv, MountedBgStages
<1>26. ASSUME NEW o \in Ops, Release(o) PROVE ClientInv'
  BY <1>26, <1>a DEF Release, Goto, ClientInv, IsAgent, BgInv, MountedBgStages
<1>27. ASSUME NEW o \in Ops, ClientExit(o) PROVE ClientInv'
  BY <1>27, <1>a DEF ClientExit, ClientInv, IsAgent
<1>28. ASSUME NEW o \in Ops, ClientWait(o) PROVE ClientInv'
  BY <1>28, <1>a DEF ClientWait, BgGoto, ClientInv, IsAgent, BgInv, MountedBgStages
<1>29. ASSUME NEW o \in Ops, Finish(o) PROVE ClientInv'
  BY <1>29, <1>a DEF Finish, BgGoto, ClientInv, IsAgent, BgInv, MountedBgStages
<1>30. ASSUME NEW o \in Ops, RestoreOwner(o) PROVE ClientInv'
  BY <1>30, <1>a DEF RestoreOwner, BgGoto, ClientInv, IsAgent, BgInv, MountedBgStages
<1>31. ASSUME NEW o \in Ops, Unmount(o) PROVE ClientInv'
  <2>1. agentMount' = agentMount \ {o}
    BY <1>31, UnmountTakesOwn DEF Unmount
  <2>. QED
    BY <1>31, <2>1, <1>a DEF Unmount, BgGoto, ClientInv, IsAgent, BgInv, MountedBgStages
<1>32. ASSUME NEW o \in Ops, BgUnlock(o) PROVE ClientInv'
  BY <1>32, <1>a DEF BgUnlock, BgGoto, ClientInv, IsAgent, BgInv, MountedBgStages
<1>33. ASSUME WorkerTake PROVE ClientInv'
  BY <1>33, <1>a DEF WorkerTake, Goto, ClientInv, IsAgent, BgInv, MountedBgStages
<1>34. ASSUME WorkerExit PROVE ClientInv'
  BY <1>34 DEF WorkerExit, ClientInv, IsAgent
<1>35. ASSUME Close PROVE ClientInv'
  BY <1>35 DEF Close, ClientInv, IsAgent
<1>36. ASSUME UNCHANGED vars PROVE ClientInv'
  BY <1>36 DEF ClientInv, IsAgent
<1>. QED
  BY <1>1, <1>3, <1>4, <1>5, <1>6, <1>7, <1>8, <1>9, <1>10, <1>11, <1>12,
     <1>13, <1>14, <1>15, <1>16, <1>17, <1>18, <1>19, <1>20, <1>21, <1>22, <1>23,
     <1>24, <1>25, <1>26, <1>27, <1>28, <1>29, <1>30, <1>31, <1>32, <1>33, <1>34,
     <1>35, <1>36
  DEF Next, Step, BgStep


\* The clients' invariant holds together with the one of BackupManagerProofs.
LEMMA ClientInductive == ASSUME "status" \notin MayFail PROVE Spec => []ClientInv
<1>1. Init => ClientInv
  BY DEF Init, ClientInv, MountedBgStages
<1>2. IInv /\ ClientInv /\ [Next]_vars => ClientInv'
  BY ClientStep DEF IInv
<1>. QED
  BY <1>1, <1>2, Inductive, PTL DEF Spec

\* A running client's operation owns the mutex of its job and, on an agent, has its mount.
THEOREM ClientsCovered == ASSUME "status" \notin MayFail PROVE Spec => []ClientCovered
<1>1. IInv /\ ClientInv => ClientCovered
  <2> SUFFICES ASSUME IInv, ClientInv, NEW o \in Ops, client[o] = "running"
               PROVE  /\ HoldsLock(o)
                      /\ IsAgent(o) => mounted[JobOf[o]] # <<>> /\ Head(mounted[JobOf[o]]) = o
    BY DEF ClientCovered
  <2>1. pc[o] \in {"detect", "status"} \/ bg[o] = "client"
    BY DEF ClientInv
  <2>2. HoldsLock(o)
    BY <2>1 DEF HoldsLock, LockStages, ExecuteStages
  <2>3. IsAgent(o) => o \in agentMount
    BY <2>1 DEF ClientInv, MountedBgStages
  <2>. QED
    BY <2>2, <2>3 DEF IInv, MountInv, MountIntact
<1>. QED
  BY <1>1, Inductive, ClientInductive, PTL

\* Two clients never run for one job.
THEOREM OneClient == ASSUME "status" \notin MayFail PROVE Spec => []OneClientPerJob
<1>1. IInv /\ ClientInv => OneClientPerJob
  <2> SUFFICES ASSUME IInv, ClientInv, NEW o \in Ops, NEW p \in Ops,
                      client[o] = "running", client[p] = "running", JobOf[o] = JobOf[p]
               PROVE  o = p
    BY DEF OneClientPerJob
  <2>1. ASSUME NEW q \in Ops, client[q] = "running" PROVE HoldsLock(q) /\ ~seenClosed[q]
    <3>1. pc[q] \in {"detect", "status"} \/ bg[q] = "client"
      BY <2>1 DEF ClientInv
    <3>2. pc[q] \in {"detect", "status", "returnOk", "wait"}
      BY <3>1 DEF IInv, BgInv
    <3>. QED
      BY <3>1, <3>2 DEF IInv, MutexInv, HoldsLock, LockStages, ExecuteStages, AfterStages
  <2>2. Mutex(o) = Mutex(p)
    <3>1. seenClosed[o] = FALSE /\ seenClosed[p] = FALSE
      BY <2>1 DEF IInv, TypeOK
    <3>. QED
      BY <3>1 DEF Mutex
  <2>. QED
    BY <2>1, <2>2 DEF IInv, LockOwned
<1>. QED
  BY <1>1, Inductive, ClientInductive, PTL

-----------------------------------------------------------------------------
(* The channel and the semaphore *)

\* What most steps do to both: nothing.
Undisturbed ==
  /\ UNCHANGED <<queue, slots>>
  /\ \A p \in Ops : /\ pc'[p] = "queued" <=> pc[p] = "queued"
                    /\ pc'[p] \in SlotStages <=> pc[p] \in SlotStages

LEMMA FewDisturb ==
  TypeOK /\ [Next]_vars =>
    Undisturbed \/ WorkerTake \/ \E o \in Ops : Admit(o) \/ AcquireSlot(o) \/ Release(o)
<1> SUFFICES ASSUME TypeOK, [Next]_vars
             PROVE  Undisturbed \/ WorkerTake
                      \/ \E o \in Ops : Admit(o) \/ AcquireSlot(o) \/ Release(o)
  OBVIOUS
<1>a. pc \in [Ops -> Stages]
  BY DEF TypeOK
<1> USE DEF vars, sysVars
<1>1. ASSUME NEW o \in Ops, Submit(o) PROVE Undisturbed
  BY <1>1, <1>a DEF Submit, Goto, Undisturbed, SlotStages, ExecuteStages, AfterStages
<1>3. ASSUME NEW o \in Ops, TryLock(o) PROVE Undisturbed
  BY <1>3, <1>a DEF TryLock, Goto, Undisturbed, SlotStages, ExecuteStages, AfterStages
<1>4. ASSUME NEW o \in Ops, Announce(o) PROVE Undisturbed
  BY <1>4, <1>a DEF Announce, Goto, Undisturbed, SlotStages, ExecuteStages, AfterStages
<1>5. ASSUME NEW o \in Ops, RejectClosed(o) PROVE Undisturbed
  BY <1>5, <1>a DEF RejectClosed, Goto, Undisturbed, SlotStages, ExecuteStages, AfterStages
<1>6. ASSUME NEW o \in Ops, RejectFull(o) PROVE Undisturbed
  BY <1>6, <1>a DEF RejectFull, Goto, Undisturbed, SlotStages, ExecuteStages, AfterStages
<1>7. ASSUME NEW o \in Ops, Abort(o) PROVE Undisturbed
  BY <1>7, <1>a DEF Abort, Goto, Undisturbed, SlotStages, ExecuteStages, AfterStages
<1>8. ASSUME NEW o \in Ops, BeginExecute(o) PROVE Undisturbed
  BY <1>8, <1>a DEF BeginExecute, Goto, Undisturbed, SlotStages, ExecuteStages, AfterStages
<1>9. ASSUME NEW o \in Ops, GetTarget(o) PROVE Undisturbed
  BY <1>9, <1>a DEF GetTarget, Goto, Undisturbed, SlotStages, ExecuteStages, AfterStages
<1>10. ASSUME NEW o \in Ops, Mount(o) PROVE Undisturbed
  BY <1>10, <1>a DEF Mount, Goto, Undisturbed, SlotStages, ExecuteStages, AfterStages
<1>11. ASSUME NEW o \in Ops, Prepare(o) PROVE Undisturbed
  BY <1>11, <1>a DEF Prepare, Goto, Undisturbed, SlotStages, ExecuteStages, AfterStages
<1>12. ASSUME NEW o \in Ops, GetCurrentOwner(o) PROVE Undisturbed
  BY <1>12, <1>a DEF GetCurrentOwner, Goto, Undisturbed, SlotStages, ExecuteStages, AfterStages
<1>13. ASSUME NEW o \in Ops, FixDatastore(o) PROVE Undisturbed
  BY <1>13, <1>a DEF FixDatastore, Goto, Undisturbed, SlotStages, ExecuteStages, AfterStages
<1>14. ASSUME NEW o \in Ops, StartClient(o) PROVE Undisturbed
  BY <1>14, <1>a DEF StartClient, Goto, Undisturbed, SlotStages, ExecuteStages, AfterStages
<1>15. ASSUME NEW o \in Ops, RestoreFirst(o) PROVE Undisturbed
  BY <1>15, <1>a DEF RestoreFirst, Goto, Undisturbed, SlotStages, ExecuteStages, AfterStages
<1>16. ASSUME NEW o \in Ops, DetectTask(o) PROVE Undisturbed
  BY <1>16, <1>a DEF DetectTask, Goto, Undisturbed, SlotStages, ExecuteStages, AfterStages
<1>17. ASSUME NEW o \in Ops, RecordStart(o) PROVE Undisturbed
  BY <1>17, <1>a DEF RecordStart, Goto, Undisturbed, SlotStages, ExecuteStages, AfterStages
<1>18. ASSUME NEW o \in Ops, CleanUpUnlock(o) PROVE Undisturbed
  BY <1>18, <1>a DEF CleanUpUnlock, Goto, Undisturbed, SlotStages, ExecuteStages, AfterStages
<1>19. ASSUME NEW o \in Ops, CleanUpUnmount(o) PROVE Undisturbed
  BY <1>19, <1>a DEF CleanUpUnmount, Goto, Undisturbed, SlotStages, ExecuteStages, AfterStages
<1>20. ASSUME NEW o \in Ops, RestoreLast(o) PROVE Undisturbed
  BY <1>20, <1>a DEF RestoreLast, Goto, Undisturbed, SlotStages, ExecuteStages, AfterStages
<1>21. ASSUME NEW o \in Ops, ReturnFromExecute(o) PROVE Undisturbed
  BY <1>21, <1>a DEF ReturnFromExecute, Goto, Undisturbed, SlotStages, ExecuteStages, AfterStages
<1>22. ASSUME NEW o \in Ops, CreateError(o) PROVE Undisturbed
  BY <1>22, <1>a DEF CreateError, Goto, Undisturbed, SlotStages, ExecuteStages, AfterStages
<1>23. ASSUME NEW o \in Ops, Wait(o) PROVE Undisturbed
  BY <1>23, <1>a DEF Wait, Goto, Undisturbed, SlotStages, ExecuteStages, AfterStages
<1>24. ASSUME NEW o \in Ops, ClientExit(o) \/ BgStep(o) PROVE Undisturbed
  BY <1>24 DEF ClientExit, ClientWait, Finish, RestoreOwner, Unmount, BgUnlock, BgStep, Undisturbed
<1>25. CASE WorkerExit \/ Close \/ UNCHANGED vars
  BY <1>25 DEF WorkerExit, Close, Undisturbed
<1> QED
  BY <1>1, <1>3, <1>4, <1>5, <1>6, <1>7, <1>8, <1>9, <1>10, <1>11, <1>12, <1>13,
     <1>14, <1>15, <1>16, <1>17, <1>18, <1>19, <1>20, <1>21, <1>22, <1>23, <1>24, <1>25 DEF Next, Step

LEMMA QueueInit == Init => QueueSound
BY OpsAssumption DEF Init, QueueSound

LEMMA QueueStep == TypeOK /\ QueueSound /\ [Next]_vars => QueueSound'
<1> SUFFICES ASSUME TypeOK, QueueSound, [Next]_vars PROVE QueueSound'
  OBVIOUS
<1>a. pc \in [Ops -> Stages] /\ queue \in Seq(Ops) /\ QueueSize \in Nat
  BY OpsAssumption DEF TypeOK
<1>1. CASE Undisturbed
  BY <1>1 DEF Undisturbed, QueueSound
<1>2. ASSUME NEW o \in Ops, AcquireSlot(o) \/ Release(o) PROVE QueueSound'
  <2>1. queue' = queue /\ \A p \in Ops : pc'[p] = "queued" <=> pc[p] = "queued"
    BY <1>2, <1>a DEF AcquireSlot, Release, Goto
  <2> QED BY <2>1 DEF QueueSound
<1>3. ASSUME NEW o \in Ops, Admit(o) PROVE QueueSound'
  <2>1. CASE Goto(o, "admit", "queued") /\ queue' = Append(queue, o)
    <3>1. \A i \in 1 .. Len(queue) : queue[i] # o
      BY <2>1 DEF Goto, QueueSound
    <3>2. /\ Len(queue') = Len(queue) + 1
          /\ \A i \in 1 .. Len(queue) : queue'[i] = queue[i]
          /\ queue'[Len(queue) + 1] = o
      BY <1>a, <2>1
    <3>3. Len(queue') <= QueueSize
      BY <1>3, <1>a, <2>1, <3>2 DEF Admit, Goto
    <3>4. \A p \in Ops : pc'[p] = "queued" <=> \E i \in 1 .. Len(queue') : queue'[i] = p
      <4> TAKE p \in Ops
      <4>1. CASE p = o
        BY <1>a, <2>1, <3>2, <4>1 DEF Goto
      <4>2. CASE p # o
        BY <1>a, <2>1, <3>2, <4>2 DEF Goto, QueueSound
      <4> QED BY <4>1, <4>2
    <3>5. \A i, k \in 1 .. Len(queue') : queue'[i] = queue'[k] => i = k
      BY <1>a, <3>1, <3>2 DEF QueueSound
    <3> QED BY <3>3, <3>4, <3>5 DEF QueueSound
  <2>2. CASE queue' = queue /\ (Goto(o, "admit", "rejectClosed") \/ Goto(o, "admit", "rejectFull"))
    <3>1. \A p \in Ops : pc'[p] = "queued" <=> pc[p] = "queued"
      BY <2>2, <1>a DEF Goto
    <3> QED BY <2>2, <3>1 DEF QueueSound
  <2> QED BY <1>3, <2>1, <2>2 DEF Admit
<1>4. CASE WorkerTake
  <2> DEFINE h == Head(queue)
  <2>1. /\ queue # <<>> /\ Len(queue) \in Nat \ {0} /\ h = queue[1] /\ h \in Ops
        /\ pc' = [pc EXCEPT ![h] = "semaphore"]
        /\ Len(queue') = Len(queue) - 1
        /\ \A i \in 1 .. Len(queue') : queue'[i] = queue[i + 1]
    BY <1>4, <1>a DEF WorkerTake, Goto
  <2> HIDE DEF h
  <2>2. \A i \in 2 .. Len(queue) : queue[i] # h
    BY <2>1 DEF QueueSound
  <2>3. \A p \in Ops : pc'[p] = "queued" <=> \E i \in 1 .. Len(queue') : queue'[i] = p
    <3> TAKE p \in Ops
    <3>1. CASE p = h
      BY <1>a, <2>1, <2>2, <3>1
    <3>2. CASE p # h
      <4>1. pc'[p] = pc[p]
        BY <1>a, <2>1, <3>2
      <4>2. (\E i \in 1 .. Len(queue) : queue[i] = p) <=> \E i \in 2 .. Len(queue) : queue[i] = p
        BY <2>1, <3>2
      <4>3. (\E i \in 1 .. Len(queue') : queue'[i] = p) <=> \E i \in 2 .. Len(queue) : queue[i] = p
        <5>1. ASSUME NEW i \in 2 .. Len(queue), queue[i] = p
              PROVE  \E k \in 1 .. Len(queue') : queue'[k] = p
          <6>1. i - 1 \in 1 .. Len(queue')
            BY <2>1
          <6>2. queue'[i - 1] = queue[i - 1 + 1] /\ i - 1 + 1 = i
            BY <2>1, <6>1
          <6> QED BY <5>1, <6>1, <6>2
        <5> QED BY <2>1, <5>1
      <4> QED BY <4>1, <4>2, <4>3 DEF QueueSound
    <3> QED BY <3>1, <3>2
  <2>4. \A i, k \in 1 .. Len(queue') : queue'[i] = queue'[k] => i = k
    BY <2>1 DEF QueueSound
  <2>5. Len(queue') <= QueueSize
    BY <1>a, <2>1 DEF QueueSound
  <2> QED BY <2>3, <2>4, <2>5 DEF QueueSound
<1> QED BY <1>1, <1>2, <1>3, <1>4, FewDisturb

\* The channel holds each operation that waits in it once and nothing else, and never more
\* than it has room for (manager.go 81-86).
THEOREM QueueIsSound == Spec => []QueueSound
BY TypeCorrect, QueueInit, QueueStep, PTL DEF Spec

Holders == {o \in Ops : pc[o] \in SlotStages}

SlotInv == IsFiniteSet(Holders) /\ SlotAccount

LEMMA SlotInit == Init => SlotInv
<1> SUFFICES ASSUME Init PROVE SlotInv
  OBVIOUS
<1>1. Holders = {}
  BY DEF Init, Holders, SlotStages, ExecuteStages, AfterStages
<1>2. IsFiniteSet(Holders) /\ Cardinality(Holders) = 0
  BY <1>1, FS_EmptySet
<1>3. slots = 0 /\ 0 <= MaxConcurrent
  BY OpsAssumption DEF Init
<1> QED BY <1>2, <1>3 DEF SlotInv, SlotAccount, Holders

LEMMA SlotStep == TypeOK /\ SlotInv /\ [Next]_vars => SlotInv'
<1> SUFFICES ASSUME TypeOK, SlotInv, [Next]_vars PROVE SlotInv'
  OBVIOUS
<1>a. pc \in [Ops -> Stages] /\ MaxConcurrent \in Nat /\ slots \in Int
  BY OpsAssumption DEF TypeOK
<1>b. slots = Cardinality(Holders) /\ slots <= MaxConcurrent /\ IsFiniteSet(Holders)
  BY DEF SlotInv, SlotAccount, Holders
<1>c. slots' = Cardinality(Holders') /\ slots' <= MaxConcurrent /\ IsFiniteSet(Holders') => SlotInv'
  BY DEF SlotInv, SlotAccount, Holders
<1> USE DEF SlotStages, ExecuteStages, AfterStages
<1>1. CASE Undisturbed
  <2>1. Holders' = Holders
    BY <1>1 DEF Undisturbed, Holders
  <2> QED BY <1>1, <1>b, <1>c, <2>1 DEF Undisturbed
<1>2. CASE WorkerTake
  <2>1. Holders' = Holders
    BY <1>2, <1>a DEF WorkerTake, Goto, Holders
  <2> QED BY <1>2, <1>b, <1>c, <2>1 DEF WorkerTake
<1>3. ASSUME NEW o \in Ops, Admit(o) PROVE SlotInv'
  <2>1. Holders' = Holders
    BY <1>3, <1>a DEF Admit, Goto, Holders
  <2> QED BY <1>3, <1>b, <1>c, <2>1 DEF Admit
<1>4. ASSUME NEW o \in Ops, AcquireSlot(o) PROVE SlotInv'
  <2>1. Holders' = Holders \cup {o} /\ o \notin Holders
    BY <1>4, <1>a DEF AcquireSlot, Goto, Holders
  <2>2. IsFiniteSet(Holders') /\ Cardinality(Holders') = Cardinality(Holders) + 1
    BY <1>b, <2>1, FS_AddElement
  <2>3. slots' = slots + 1 /\ slots < MaxConcurrent
    BY <1>4 DEF AcquireSlot
  <2> QED BY <1>a, <1>b, <1>c, <2>2, <2>3
<1>5. ASSUME NEW o \in Ops, Release(o) PROVE SlotInv'
  <2>1. Holders' = Holders \ {o} /\ o \in Holders
    BY <1>5, <1>a DEF Release, Goto, Holders
  <2>2. IsFiniteSet(Holders') /\ Cardinality(Holders') = Cardinality(Holders) - 1
    BY <1>b, <2>1, FS_RemoveElement
  <2>3. slots' = slots - 1
    BY <1>5 DEF Release
  <2> QED BY <1>a, <1>b, <1>c, <2>2, <2>3
<1> QED BY <1>1, <1>2, <1>3, <1>4, <1>5, FewDisturb

\* The tokens in the semaphore are those of the operations that have one, and never more
\* than maxConcurrentJobs (manager.go 101-115).
THEOREM SlotsAccounted == Spec => []SlotAccount
<1>1. SlotInv => SlotAccount
  BY DEF SlotInv
<1> QED BY <1>1, TypeCorrect, SlotInit, SlotStep, PTL DEF Spec

-----------------------------------------------------------------------------
(* Nobody waits in vain *)

\* Manager.mu is held over a refusal and nothing else: inductive by itself.
LEMMA MuStep == TypeOK /\ MuInv /\ [Next]_vars => MuInv'
<1> SUFFICES ASSUME TypeOK, MuInv, [Next]_vars PROVE MuInv'
  OBVIOUS
<1> USE DEF vars, sysVars
<1>a. pc \in [Ops -> Stages] /\ NoOp \notin Ops
  BY OpsAssumption DEF TypeOK
<1>1. ASSUME NEW o \in Ops, Submit(o) PROVE MuInv'
  BY <1>1, <1>a DEF Submit, Goto, MuInv
<1>3. ASSUME NEW o \in Ops, TryLock(o) PROVE MuInv'
  BY <1>3, <1>a DEF TryLock, Goto, MuInv
<1>4. ASSUME NEW o \in Ops, Announce(o) PROVE MuInv'
  BY <1>4, <1>a DEF Announce, Goto, MuInv
<1>5. ASSUME NEW o \in Ops, Admit(o) PROVE MuInv'
  BY <1>5, <1>a DEF Admit, Goto, MuInv
<1>6. ASSUME NEW o \in Ops, RejectClosed(o) PROVE MuInv'
  BY <1>6, <1>a DEF RejectClosed, Goto, MuInv
<1>7. ASSUME NEW o \in Ops, RejectFull(o) PROVE MuInv'
  BY <1>7, <1>a DEF RejectFull, Goto, MuInv
<1>8. ASSUME NEW o \in Ops, AcquireSlot(o) PROVE MuInv'
  BY <1>8, <1>a DEF AcquireSlot, Goto, MuInv
<1>9. ASSUME NEW o \in Ops, Abort(o) PROVE MuInv'
  BY <1>9, <1>a DEF Abort, Goto, MuInv
<1>10. ASSUME NEW o \in Ops, BeginExecute(o) PROVE MuInv'
  BY <1>10, <1>a DEF BeginExecute, Goto, MuInv
<1>11. ASSUME NEW o \in Ops, GetTarget(o) PROVE MuInv'
  BY <1>11, <1>a DEF GetTarget, Goto, MuInv
<1>12. ASSUME NEW o \in Ops, Mount(o) PROVE MuInv'
  BY <1>12, <1>a DEF Mount, Goto, MuInv
<1>13. ASSUME NEW o \in Ops, Prepare(o) PROVE MuInv'
  BY <1>13, <1>a DEF Prepare, Goto, MuInv
<1>14. ASSUME NEW o \in Ops, GetCurrentOwner(o) PROVE MuInv'
  BY <1>14, <1>a DEF GetCurrentOwner, Goto, MuInv
<1>15. ASSUME NEW o \in Ops, FixDatastore(o) PROVE MuInv'
  BY <1>15, <1>a DEF FixDatastore, Goto, MuInv
<1>16. ASSUME NEW o \in Ops, StartClient(o) PROVE MuInv'
  BY <1>16, <1>a DEF StartClient, Goto, MuInv
<1>17. ASSUME NEW o \in Ops, RestoreFirst(o) PROVE MuInv'
  BY <1>17, <1>a DEF RestoreFirst, Goto, MuInv
<1>18. ASSUME NEW o \in Ops, DetectTask(o) PROVE MuInv'
  BY <1>18, <1>a DEF DetectTask, Goto, MuInv
<1>19. ASSUME NEW o \in Ops, RecordStart(o) PROVE MuInv'
  BY <1>19, <1>a DEF RecordStart, Goto, MuInv
<1>20. ASSUME NEW o \in Ops, CleanUpUnlock(o) PROVE MuInv'
  BY <1>20, <1>a DEF CleanUpUnlock, Goto, MuInv
<1>21. ASSUME NEW o \in Ops, CleanUpUnmount(o) PROVE MuInv'
  BY <1>21, <1>a DEF CleanUpUnmount, Goto, MuInv
<1>22. ASSUME NEW o \in Ops, RestoreLast(o) PROVE MuInv'
  BY <1>22, <1>a DEF RestoreLast, Goto, MuInv
<1>23. ASSUME NEW o \in Ops, ReturnFromExecute(o) PROVE MuInv'
  BY <1>23, <1>a DEF ReturnFromExecute, Goto, MuInv
<1>24. ASSUME NEW o \in Ops, CreateError(o) PROVE MuInv'
  BY <1>24, <1>a DEF CreateError, Goto, MuInv
<1>25. ASSUME NEW o \in Ops, Wait(o) PROVE MuInv'
  BY <1>25, <1>a DEF Wait, Goto, MuInv
<1>26. ASSUME NEW o \in Ops, Release(o) PROVE MuInv'
  BY <1>26, <1>a DEF Release, Goto, MuInv
<1>27. ASSUME NEW o \in Ops, ClientExit(o) \/ BgStep(o) PROVE MuInv'
  BY <1>27 DEF ClientExit, ClientWait, Finish, RestoreOwner, Unmount, BgUnlock, BgStep, MuInv
<1>28. CASE WorkerTake
  BY <1>28, <1>a DEF WorkerTake, Goto, MuInv
<1>29. CASE WorkerExit \/ Close \/ UNCHANGED vars
  BY <1>29 DEF WorkerExit, Close, MuInv
<1>. QED
  BY <1>1, <1>3, <1>4, <1>5, <1>6, <1>7, <1>8, <1>9, <1>10, <1>11, <1>12,
     <1>13, <1>14, <1>15, <1>16, <1>17, <1>18, <1>19, <1>20, <1>21, <1>22, <1>23,
     <1>24, <1>25, <1>26, <1>27, <1>28, <1>29
  DEF Next, Step

\* A waiting operation and the one it waits for are two steps apart at most: whoever has a
\* token of the semaphore waits for executeMu at worst, and its holder never waits.
LEMMA Unblocked ==
  TypeOK /\ ExecuteExclusive /\ BgInv /\ MuInv /\ QueueSound /\ SlotInv => NobodyStuck
<1> SUFFICES ASSUME TypeOK, ExecuteExclusive, BgInv, MuInv, QueueSound, SlotInv,
                    NEW o \in Ops, pc[o] \notin {"idle"} \cup FinalStages
             PROVE  \/ CanStep(o)
                    \/ \E p \in Ops : WaitsFor(o, p) /\ CanStep(p)
                    \/ pc[o] = "queued" /\ ~worker
  BY DEF NobodyStuck
<1>a. /\ pc \in [Ops -> Stages] /\ mu \in Ops \cup {NoOp} /\ executeMu \in Ops \cup {NoOp}
      /\ queue \in Seq(Ops) /\ slots \in Int /\ MaxConcurrent \in Nat \ {0}
  BY OpsAssumption DEF TypeOK
<1>b. ASSUME NEW p \in Ops, pc[p] \in ExecuteStages \cup AfterStages PROVE CanStep(p)
  <2>1. CASE pc[p] = "wait"
    BY <2>1 DEF BgInv, CanStep
  <2>2. CASE pc[p] # "wait"
    BY <1>b, <2>2 DEF CanStep, Blocking, FinalStages, ExecuteStages, AfterStages
  <2> QED BY <2>1, <2>2
<1>c. ASSUME NEW p \in Ops, pc[p] = "executeMu"
      PROVE  \/ CanStep(p)
             \/ executeMu \in Holders /\ CanStep(executeMu)
  <2>1. CASE executeMu = NoOp
    BY <1>c, <2>1 DEF CanStep
  <2>2. CASE executeMu # NoOp
    <3>1. executeMu \in Ops /\ pc[executeMu] \in ExecuteStages
      BY <1>a, <2>2 DEF ExecuteExclusive
    <3> QED BY <1>b, <3>1 DEF Holders, SlotStages
  <2> QED BY <2>1, <2>2
<1>1. CASE pc[o] = "admit"
  <2>1. CASE mu = NoOp
    BY <1>1, <2>1 DEF CanStep
  <2>2. CASE mu # NoOp
    <3>1. mu \in Ops /\ pc[mu] \in {"rejectClosed", "rejectFull"}
      BY <1>a, <2>2 DEF MuInv
    <3>2. CanStep(mu)
      BY <3>1 DEF CanStep, Blocking, FinalStages
    <3> QED BY <1>1, <3>1, <3>2 DEF WaitsFor
  <2> QED BY <2>1, <2>2
<1>2. CASE pc[o] = "queued" /\ worker
  <2>1. queue # <<>> /\ Head(queue) = queue[1] /\ 1 \in 1 .. Len(queue) /\ queue[1] \in Ops
    BY <1>a, <1>2 DEF QueueSound
  <2>2. pc[Head(queue)] = "queued"
    BY <2>1 DEF QueueSound
  <2>3. CanStep(Head(queue))
    BY <1>2, <2>2 DEF CanStep
  <2> QED BY <1>2, <2>1, <2>3 DEF WaitsFor
<1>3. CASE pc[o] = "semaphore"
  <2>1. CASE slots < MaxConcurrent
    BY <1>3, <2>1 DEF CanStep
  <2>2. CASE ~(slots < MaxConcurrent)
    <3>1. Cardinality(Holders) # 0
      BY <1>a, <2>2 DEF SlotInv, SlotAccount, Holders
    <3>2. PICK p \in Holders : TRUE
      BY <3>1, FS_EmptySet
    <3>3. p \in Ops /\ (pc[p] = "executeMu" \/ pc[p] \in ExecuteStages \cup AfterStages)
      BY <3>2 DEF Holders, SlotStages
    <3>4. \E q \in Holders : CanStep(q)
      BY <1>b, <1>c, <3>2, <3>3
    <3> QED BY <1>3, <3>4 DEF WaitsFor, Holders
  <2> QED BY <2>1, <2>2
<1>4. CASE pc[o] = "executeMu"
  <2>1. ASSUME ~CanStep(o) PROVE executeMu \in Ops /\ CanStep(executeMu)
    BY <1>c, <1>4, <2>1 DEF Holders
  <2>2. CASE ~CanStep(o)
    BY <1>4, <2>1, <2>2 DEF WaitsFor
  <2> QED BY <2>2
<1>5. CASE pc[o] = "wait"
  BY <1>b, <1>5 DEF AfterStages
<1>6. CASE pc[o] \notin Blocking
  BY <1>6 DEF CanStep
<1> QED BY <1>1, <1>2, <1>3, <1>4, <1>5, <1>6 DEF Blocking

\* No operation waits in vain: one that has been submitted and is not over can go on, or
\* waits for another that can; a worker that Close stopped is the only exception.
THEOREM NoDeadlock == Spec => []NobodyStuck
<1>1. Init => MuInv
  BY OpsAssumption DEF Init, MuInv
<1> QED
  BY <1>1, MuStep, Unblocked, TypeCorrect, ExecuteIsExclusive, StagesCorrect, QueueIsSound,
     SlotInit, SlotStep, PTL DEF Spec

-----------------------------------------------------------------------------
(* The owner of a backup group comes back *)

\* What most steps do to the owners: nothing.
OwnersKept ==
  /\ UNCHANGED <<owner, saved, ownerFailed>>
  /\ \A p \in Ops : /\ OwesOwner(p) => OwesOwner(p)'
                    /\ pc'[p] = "fixOwner" => pc[p] = "fixOwner"

LEMMA FewTouchOwners ==
  TypeOK /\ BgInv /\ [Next]_vars =>
    \/ OwnersKept
    \/ \E o \in Ops : \/ GetCurrentOwner(o) \/ FixDatastore(o) \/ RestoreFirst(o)
                      \/ RestoreLast(o) \/ RestoreOwner(o)
<1> SUFFICES ASSUME TypeOK, BgInv, [Next]_vars
             PROVE  \/ OwnersKept
                    \/ \E o \in Ops : \/ GetCurrentOwner(o) \/ FixDatastore(o) \/ RestoreFirst(o)
                                      \/ RestoreLast(o) \/ RestoreOwner(o)
  OBVIOUS
<1>a. pc \in [Ops -> Stages] /\ bg \in [Ops -> BgStages]
  BY DEF TypeOK
<1> USE DEF vars, ownerVars, OwnersKept, OwesOwner
<1>1. ASSUME NEW o \in Ops, Submit(o) PROVE OwnersKept
  BY <1>1, <1>a DEF Submit, Goto
<1>3. ASSUME NEW o \in Ops, TryLock(o) PROVE OwnersKept
  BY <1>3, <1>a DEF TryLock, Goto
<1>4. ASSUME NEW o \in Ops, Announce(o) PROVE OwnersKept
  BY <1>4, <1>a DEF Announce, Goto
<1>5. ASSUME NEW o \in Ops, Admit(o) PROVE OwnersKept
  BY <1>5, <1>a DEF Admit, Goto
<1>6. ASSUME NEW o \in Ops, RejectClosed(o) PROVE OwnersKept
  BY <1>6, <1>a DEF RejectClosed, Goto
<1>7. ASSUME NEW o \in Ops, RejectFull(o) PROVE OwnersKept
  BY <1>7, <1>a DEF RejectFull, Goto
<1>8. ASSUME NEW o \in Ops, AcquireSlot(o) PROVE OwnersKept
  BY <1>8, <1>a DEF AcquireSlot, Goto
<1>9. ASSUME NEW o \in Ops, Abort(o) PROVE OwnersKept
  BY <1>9, <1>a DEF Abort, Goto
<1>10. ASSUME NEW o \in Ops, BeginExecute(o) PROVE OwnersKept
  BY <1>10, <1>a DEF BeginExecute, Goto
<1>11. ASSUME NEW o \in Ops, GetTarget(o) PROVE OwnersKept
  BY <1>11, <1>a DEF GetTarget, Goto
<1>12. ASSUME NEW o \in Ops, Mount(o) PROVE OwnersKept
  BY <1>12, <1>a DEF Mount, Goto
<1>13. ASSUME NEW o \in Ops, Prepare(o) PROVE OwnersKept
  BY <1>13, <1>a DEF Prepare, Goto
<1>14. ASSUME NEW o \in Ops, StartClient(o) PROVE OwnersKept
  BY <1>14, <1>a DEF StartClient, Goto
<1>15. ASSUME NEW o \in Ops, DetectTask(o) PROVE OwnersKept
  BY <1>15, <1>a DEF DetectTask, Goto
<1>16. ASSUME NEW o \in Ops, RecordStart(o) PROVE OwnersKept
  BY <1>16, <1>a DEF RecordStart, Goto, BgGoto
<1>17. ASSUME NEW o \in Ops, CleanUpUnlock(o) PROVE OwnersKept
  BY <1>17, <1>a DEF CleanUpUnlock, Goto
<1>18. ASSUME NEW o \in Ops, CleanUpUnmount(o) PROVE OwnersKept
  BY <1>18, <1>a DEF CleanUpUnmount, Goto
<1>19. ASSUME NEW o \in Ops, ReturnFromExecute(o) PROVE OwnersKept
  BY <1>19, <1>a DEF ReturnFromExecute, Goto
<1>20. ASSUME NEW o \in Ops, CreateError(o) PROVE OwnersKept
  BY <1>20, <1>a DEF CreateError, Goto
<1>21. ASSUME NEW o \in Ops, Wait(o) PROVE OwnersKept
  BY <1>21, <1>a DEF Wait, Goto
<1>22. ASSUME NEW o \in Ops, Release(o) PROVE OwnersKept
  BY <1>22, <1>a DEF Release, Goto
<1>23. ASSUME NEW o \in Ops, ClientWait(o) PROVE OwnersKept
  BY <1>23, <1>a DEF ClientWait, BgGoto
<1>24. ASSUME NEW o \in Ops, Finish(o) PROVE OwnersKept
  BY <1>24, <1>a DEF Finish, BgGoto
<1>25. ASSUME NEW o \in Ops, Unmount(o) PROVE OwnersKept
  BY <1>25, <1>a DEF Unmount, BgGoto
<1>26. ASSUME NEW o \in Ops, BgUnlock(o) PROVE OwnersKept
  BY <1>26, <1>a DEF BgUnlock, BgGoto
<1>27. CASE WorkerTake
  BY <1>27, <1>a DEF WorkerTake, Goto
<1>28. CASE WorkerExit \/ Close \/ UNCHANGED vars
  BY <1>28 DEF WorkerExit, Close
<1>29. ASSUME NEW o \in Ops, ClientExit(o) PROVE OwnersKept
  BY <1>29 DEF ClientExit
<1>. QED
  BY <1>1, <1>3, <1>4, <1>5, <1>6, <1>7, <1>8, <1>9, <1>10, <1>11, <1>12,
     <1>13, <1>14, <1>15, <1>16, <1>17, <1>18, <1>19, <1>20, <1>21, <1>22, <1>23,
     <1>24, <1>25, <1>26, <1>27, <1>28, <1>29
  DEF Next, Step, BgStep

\* While an operation is at fixOwner or at getOwner no other operation of its job owes the
\* group its owner: that one would be inside Execute, too, or hold the mutex of the job.
LEMMA NobodyElseOwes ==
  ASSUME IInv, NEW o \in Ops, pc[o] = "getOwner", NEW p \in Ops, OwesOwner(p),
         JobOf[p] = JobOf[o]
  PROVE  FALSE
<1>1. pc[o] \in ExecuteStages /\ HoldsLock(o) /\ executeMu = o
  BY DEF IInv, ExecuteExclusive, ExecuteStages, HoldsLock, LockStages
<1>2. CASE pc[p] \in {"fixOwner", "start", "restoreFirst", "detect", "status", "unlock",
                     "unmount", "restoreLast"}
  <2>1. pc[p] \in ExecuteStages
    BY <1>2 DEF ExecuteStages
  <2>2. executeMu = p
    BY <2>1 DEF IInv, ExecuteExclusive
  <2>. QED
    BY <1>1, <1>2, <2>2
<1>3. CASE bg[p] \in {"client", "finish", "owner"}
  <2>1. HoldsLock(p) /\ bg[p] # "none"
    BY <1>3 DEF HoldsLock
  <2>2. pc[p] \in {"returnOk", "wait", "release", "done"}
    BY <2>1 DEF IInv, BgInv
  <2>3. pc[p] \in {"returnOk", "wait"} /\ p # o
    BY <1>3, <2>2 DEF IInv, BgInv
  <2>4. ~seenClosed[p] /\ ~seenClosed[o]
    BY <1>1, <2>3 DEF IInv, MutexInv, ExecuteStages, AfterStages
  <2>5. seenClosed[p] = FALSE /\ seenClosed[o] = FALSE
    BY <2>4 DEF IInv, TypeOK
  <2>6. Mutex(p) = Mutex(o)
    BY <2>5 DEF Mutex
  <2>. QED
    BY <1>1, <2>1, <2>3, <2>6 DEF IInv, LockOwned
<1>. QED
  BY <1>2, <1>3 DEF OwesOwner

\* Giving an owner back: the group is the user's again, or was not touched.
\* A group whose owner can still be told: ownerFailed only grows.
Told(g) == g \notin NewGroups \cup ownerFailed /\ OneWriter(g)

\* OwnerInv, group by group and operation by operation
LEMMA OwnerInvParts ==
  OwnerInv <=>
    /\ \A g \in Groups : Told(g) /\ owner[g] = "plus" =>
         \E p \in Ops : GroupOfOp(p) = g /\ OwesOwner(p)
    /\ \A g \in Groups \ (NewGroups \cup ownerFailed) : owner[g] # "none"
    /\ \A p \in Ops : Told(GroupOfOp(p)) =>
         saved[p] # "plus" /\ (pc[p] = "fixOwner" => saved[p] = "user")
  BY DEF OwnerInv, OwnerOwed, Told

LEMMA OwnerInvParts2 ==
  ASSUME \A g \in Groups : Told(g)' /\ owner'[g] = "plus" =>
           \E p \in Ops : GroupOfOp(p) = g /\ OwesOwner(p)',
         \A g \in Groups \ (NewGroups \cup ownerFailed') : owner'[g] # "none",
         \A p \in Ops : Told(GroupOfOp(p))' =>
           saved'[p] # "plus" /\ (pc'[p] = "fixOwner" => saved'[p] = "user")
  PROVE  OwnerInv'
  BY DEF OwnerInv, OwnerOwed, Told, OneWriter, GroupOfOp

\* What a write of the owner file does to a group
LEMMA OwnerWritten ==
  ASSUME TypeOK, NEW o \in Ops, NEW who \in Owners, SetDatastoreOwner(o, who)
  PROVE  /\ ownerFailed \subseteq ownerFailed'
         /\ \A g \in Groups : \/ owner'[g] = owner[g]
                              \/ g = GroupOfOp(o) /\ (owner'[g] = who \/ g \in ownerFailed')
         /\ GroupOfOp(o) \in ownerFailed' \/ owner'[GroupOfOp(o)] = who
<1>1. GroupOfOp(o) \in Groups /\ owner \in [Groups -> Owners]
  BY OpsAssumption DEF GroupOfOp, TypeOK
<1>. QED
  BY <1>1 DEF SetDatastoreOwner

LEMMA ToldBefore ==
  ASSUME ownerFailed \subseteq ownerFailed', NEW g, Told(g)'
  PROVE  Told(g) /\ g \notin ownerFailed'
  BY DEF Told, OneWriter

\* Giving an owner back: the group is the user's again, or was not touched.
LEMMA GivenBack ==
  ASSUME TypeOK, OwnerInv, NEW o \in Ops, RestoreGroupOwner(o),
         \A p \in Ops : p # o => (OwesOwner(p) => OwesOwner(p)'),
         \A p \in Ops : pc'[p] = "fixOwner" => p # o /\ pc[p] = "fixOwner"
  PROVE  OwnerInv'
<1>a. saved \in [Ops -> Owners] /\ saved' = [saved EXCEPT ![o] = "none"]
  BY DEF TypeOK, RestoreGroupOwner
<1>b. saved[o] \in Owners
  BY <1>a
<1>c. ownerFailed \subseteq ownerFailed'
  BY <1>b, OwnerWritten DEF RestoreGroupOwner
<1>d. \A g \in Groups : \/ owner'[g] = owner[g] /\ (g = GroupOfOp(o) /\ g \notin ownerFailed' =>
                                                      saved[o] \in {"none", owner[g]})
                        \/ /\ g = GroupOfOp(o) /\ saved[o] # "none"
                           /\ owner'[g] = saved[o] \/ g \in ownerFailed'
  <2>1. CASE saved[o] # "none" /\ SetDatastoreOwner(o, saved[o])
    BY <1>b, <2>1, OwnerWritten
  <2>2. CASE saved[o] = "none" /\ UNCHANGED <<owner, ownerFailed>>
    BY <2>2
  <2>. QED
    BY <2>1, <2>2 DEF RestoreGroupOwner
<1>1. ASSUME NEW g \in Groups \ (NewGroups \cup ownerFailed') PROVE owner'[g] # "none"
  <2>1. owner[g] # "none"
    BY <1>1, <1>c, OwnerInvParts
  <2>. QED
    BY <1>1, <1>d, <2>1
<1>2. ASSUME NEW p \in Ops, Told(GroupOfOp(p))'
      PROVE  saved'[p] # "plus" /\ (pc'[p] = "fixOwner" => saved'[p] = "user")
  <2>1. Told(GroupOfOp(p))
    BY <1>2, <1>c DEF Told, OneWriter, GroupOfOp
  <2>2. saved[p] # "plus" /\ (pc[p] = "fixOwner" => saved[p] = "user")
    BY <2>1, OwnerInvParts
  <2>. QED
    BY <1>a, <1>2, <2>2
<1>3. ASSUME NEW g \in Groups, Told(g)', owner'[g] = "plus"
      PROVE  \E p \in Ops : GroupOfOp(p) = g /\ OwesOwner(p)'
  <2>0. Told(g) /\ g \notin ownerFailed'
    BY <1>3, <1>c, ToldBefore
  <2>1. ASSUME g = GroupOfOp(o) PROVE saved[o] # "plus"
    BY <2>0, <2>1, OwnerInvParts
  <2>2. owner[g] = "plus" /\ (g = GroupOfOp(o) => saved[o] = "none")
    BY <1>3, <1>d, <2>0, <2>1
  <2>3. PICK p \in Ops : GroupOfOp(p) = g /\ OwesOwner(p)
    BY <2>0, <2>2, OwnerInvParts
  <2>4. p # o
    BY <2>2, <2>3 DEF OwesOwner
  <2>. QED
    BY <2>3, <2>4
<1>. QED
  BY <1>1, <1>2, <1>3, OwnerInvParts2

LEMMA OwnerInvStep == IInv /\ OwnerInv /\ [Next]_vars => OwnerInv'
<1> SUFFICES ASSUME IInv, OwnerInv, [Next]_vars PROVE OwnerInv'
  OBVIOUS
<1> USE DEF vars, ownerVars
<1>a. /\ TypeOK /\ BgInv
      /\ pc \in [Ops -> Stages] /\ bg \in [Ops -> BgStages]
      /\ saved \in [Ops -> Owners] /\ owner \in [Groups -> Owners]
      /\ GroupOf \in [Jobs -> Groups] /\ JobOf \in [Ops -> Jobs]
  BY OpsAssumption DEF IInv, TypeOK
<1>1. CASE OwnersKept
  <2>1. /\ owner' = owner /\ saved' = saved /\ ownerFailed' = ownerFailed
        /\ \A p \in Ops : OwesOwner(p) => OwesOwner(p)'
        /\ \A p \in Ops : pc'[p] = "fixOwner" => pc[p] = "fixOwner"
    BY <1>1 DEF OwnersKept
  <2>2. OwnerOwed'
    BY <2>1 DEF OwnerInv, OwnerOwed, OneWriter, GroupOfOp
  <2>. QED
    BY <2>1, <2>2 DEF OwnerInv, OneWriter, GroupOfOp
<1>2. ASSUME NEW o \in Ops, GetCurrentOwner(o) PROVE OwnerInv'
  <2>1. /\ pc[o] = "getOwner" /\ pc' = [pc EXCEPT ![o] = "fixOwner"] /\ bg' = bg
        /\ owner' = owner
        /\ \/ saved' = [saved EXCEPT ![o] = owner[GroupOfOp(o)]] /\ ownerFailed' = ownerFailed
           \/ saved' = saved /\ ownerFailed' = ownerFailed \cup {GroupOfOp(o)}
    BY <1>2 DEF GetCurrentOwner, Goto
  <2>2. GroupOfOp(o) \in Groups /\ ownerFailed \subseteq ownerFailed'
    BY <1>a, <2>1 DEF GroupOfOp
  <2>3. ASSUME Told(GroupOfOp(o)) PROVE owner[GroupOfOp(o)] = "user"
    <3>1. ASSUME owner[GroupOfOp(o)] = "plus" PROVE FALSE
      <4>1. PICK p \in Ops : GroupOfOp(p) = GroupOfOp(o) /\ OwesOwner(p)
        BY <2>2, <2>3, <3>1, OwnerInvParts
      <4>2. JobOf[p] = JobOf[o]
        BY <1>a, <2>3, <4>1 DEF Told, OneWriter, GroupOfOp
      <4>. QED
        BY <2>1, <4>1, <4>2, NobodyElseOwes
    <3>2. owner[GroupOfOp(o)] # "none"
      BY <2>2, <2>3, OwnerInvParts DEF Told
    <3>. QED
      BY <1>a, <2>2, <3>1, <3>2 DEF Owners
  <2>4. ASSUME NEW p \in Ops, OwesOwner(p) PROVE OwesOwner(p)'
    <3>1. p # o
      BY <2>1, <2>4, NobodyElseOwes
    <3>. QED
      BY <1>a, <2>1, <2>4, <3>1 DEF OwesOwner
  <2>5. ASSUME NEW g \in Groups, Told(g)', owner'[g] = "plus"
        PROVE  \E p \in Ops : GroupOfOp(p) = g /\ OwesOwner(p)'
    <3>1. Told(g)
      BY <2>2, <2>5, ToldBefore
    <3>. QED
      BY <2>1, <2>4, <2>5, <3>1, OwnerInvParts
  <2>6. ASSUME NEW p \in Ops, Told(GroupOfOp(p))'
        PROVE  saved'[p] # "plus" /\ (pc'[p] = "fixOwner" => saved'[p] = "user")
    <3>0. Told(GroupOfOp(p)) /\ GroupOfOp(p) \notin ownerFailed'
      BY <2>2, <2>6 DEF Told, OneWriter, GroupOfOp
    <3>1. CASE p = o
      BY <1>a, <2>1, <2>3, <3>0, <3>1
    <3>2. CASE p # o
      BY <1>a, <2>1, <3>0, <3>2, OwnerInvParts
    <3>. QED
      BY <3>1, <3>2
  <2>7. ASSUME NEW g \in Groups \ (NewGroups \cup ownerFailed') PROVE owner'[g] # "none"
    BY <2>1, <2>2, <2>7, OwnerInvParts
  <2>. QED
    BY <2>5, <2>6, <2>7, OwnerInvParts2
<1>3. ASSUME NEW o \in Ops, FixDatastore(o) PROVE OwnerInv'
  <2>1. /\ pc[o] = "fixOwner" /\ pc' = [pc EXCEPT ![o] = "start"] /\ bg' = bg
        /\ saved' = saved /\ SetDatastoreOwner(o, "plus")
    BY <1>3 DEF FixDatastore, Goto
  <2>2. /\ ownerFailed \subseteq ownerFailed'
        /\ \A g \in Groups : \/ owner'[g] = owner[g]
                             \/ g = GroupOfOp(o) /\ (owner'[g] = "plus" \/ g \in ownerFailed')
    BY <1>a, <2>1, OwnerWritten DEF Owners
  <2>3. \A p \in Ops : OwesOwner(p) => OwesOwner(p)'
    BY <1>a, <2>1 DEF OwesOwner
  <2>4. ASSUME Told(GroupOfOp(o)) PROVE OwesOwner(o)'
    <3>1. saved[o] = "user"
      BY <2>1, <2>4, OwnerInvParts
    <3>. QED
      BY <1>a, <2>1, <3>1 DEF OwesOwner
  <2>5. ASSUME NEW g \in Groups, Told(g)', owner'[g] = "plus"
        PROVE  \E p \in Ops : GroupOfOp(p) = g /\ OwesOwner(p)'
    <3>1. Told(g)
      BY <2>2, <2>5, ToldBefore
    <3>2. CASE g = GroupOfOp(o)
      BY <2>4, <3>1, <3>2
    <3>3. CASE g # GroupOfOp(o)
      BY <2>2, <2>3, <2>5, <3>1, <3>3, OwnerInvParts
    <3>. QED
      BY <3>2, <3>3
  <2>6. ASSUME NEW p \in Ops, Told(GroupOfOp(p))'
        PROVE  saved'[p] # "plus" /\ (pc'[p] = "fixOwner" => saved'[p] = "user")
    <3>1. Told(GroupOfOp(p))
      BY <2>2, <2>6 DEF Told, OneWriter, GroupOfOp
    <3>. QED
      BY <1>a, <2>1, <3>1, OwnerInvParts
  <2>7. ASSUME NEW g \in Groups \ (NewGroups \cup ownerFailed') PROVE owner'[g] # "none"
    BY <2>2, <2>7, OwnerInvParts
  <2>. QED
    BY <2>5, <2>6, <2>7, OwnerInvParts2
<1>4. ASSUME NEW o \in Ops, RestoreFirst(o) \/ RestoreLast(o) \/ RestoreOwner(o) PROVE OwnerInv'
  <2>1. RestoreGroupOwner(o)
    BY <1>4 DEF RestoreFirst, RestoreLast, RestoreOwner
  <2>2. /\ \A p \in Ops : p # o => pc'[p] = pc[p] /\ bg'[p] = bg[p]
        /\ pc'[o] # "fixOwner"
    BY <1>4, <1>a DEF RestoreFirst, RestoreLast, RestoreOwner, Goto, BgGoto, BgInv
  <2>3. \A p \in Ops : p # o => saved'[p] = saved[p]
    BY <1>a, <2>1 DEF RestoreGroupOwner
  <2>4. \A p \in Ops : p # o => (OwesOwner(p) => OwesOwner(p)')
    BY <2>2, <2>3 DEF OwesOwner
  <2>. QED
    BY <1>a, <2>1, <2>2, <2>4, GivenBack
<1>. QED
  BY <1>1, <1>2, <1>3, <1>4, <1>a, FewTouchOwners

\* While a group belongs to PBS Plus, the operation that is to give it back to its owner
\* is under way: for every group only one job writes to.
THEOREM OwnersOwed == Spec => []OwnerOwed
<1>1. Init => OwnerInv
  BY DEF Init, OwnerInv, OwnerOwed
<1>2. OwnerInv => OwnerOwed
  BY DEF OwnerInv
<1>. QED
  BY <1>1, <1>2, OwnerInvStep, Inductive, PTL DEF Spec

-----------------------------------------------------------------------------
(* BackupManager implements JobExclusion, for every set of jobs and operations.  An operation *)
(* is "admitted" while it owns the mutex of its job, and "using" while its mount is on the   *)
(* path of its job.                                                                          *)

\* What the refinement mapping substitutes for JobExclusion's phase
AbstractPhases == [o \in Ops |-> Phase(o)]

\* A step that changes no phase, no mount and not the manager stutters.
LEMMA SamePhases ==
  ASSUME \A p \in Ops : Phase(p)' = Phase(p), agentMount' = agentMount, closed' = closed
  PROVE  [Abstract!Next]_(Abstract!vars)
<1>1. [o \in Ops |-> Phase(o)]' = [o \in Ops |-> Phase(o)]
  OBVIOUS
<1>. QED
  BY <1>1 DEF Abstract!vars

\* Every step of the manager is a step of JobExclusion or stutters.
LEMMA StepRefines == IInv /\ [Next]_vars => [Abstract!Next]_(Abstract!vars)
<1> SUFFICES ASSUME TypeOK, ExecuteExclusive, BgInv, MutexInv, LockOwned, MountInv,
                    [Next]_vars
             PROVE  [Abstract!Next]_(Abstract!vars)
  BY DEF IInv
<1> USE DEF vars, sysVars, lockVars, mountVars
<1>a. /\ pc \in [Ops -> Stages] /\ bg \in [Ops -> BgStages]
      /\ seenClosed \in [Ops -> BOOLEAN] /\ closed \in BOOLEAN
      /\ mounted \in [Jobs -> Seq(Ops)] /\ agentMount \subseteq Ops
      /\ BgInv
  BY DEF TypeOK
<1>1. ASSUME NEW o \in Ops, Submit(o) PROVE [Abstract!Next]_(Abstract!vars)
  <2>1. \A p \in Ops : Phase(p)' = Phase(p)
    BY <1>1, <1>a DEF Submit, Goto, Phase, BgInv, HoldsLock, LockStages, WaitStages, ExecuteStages
  <2>. QED
    BY <1>1, <2>1, SamePhases DEF Submit
<1>3. ASSUME NEW o \in Ops, TryLock(o) PROVE [Abstract!Next]_(Abstract!vars)
  <2>1. Phase(o) = "new"
    BY <1>3, <1>a DEF TryLock, Goto, Phase, BgInv, HoldsLock, LockStages, WaitStages,
       ExecuteStages
  <2>2. \A p \in Ops \ {o} : Phase(p)' = Phase(p)
    BY <1>3, <1>a DEF TryLock, Goto, Phase, HoldsLock, LockStages, WaitStages, ExecuteStages
  <2>3. CASE <<JobOf[o], closed>> \in locked
    <3>1. Phase(o)' = "refused"
      BY <1>3, <2>3, <1>a DEF TryLock, Goto, Phase, BgInv, HoldsLock, LockStages, WaitStages,
         ExecuteStages
    <3>2. AbstractPhases' = [AbstractPhases EXCEPT ![o] = "refused"]
      BY <3>1, <2>2 DEF AbstractPhases
    <3>3. PICK p \in Ops : HoldsLock(p) /\ Mutex(p) = <<JobOf[o], closed>>
      BY <2>3 DEF LockOwned
    <3>4. AbstractPhases[p] = "admitted" /\ JobOf[o] = JobOf[p]
      <4>1. Phase(p) = "admitted"
        BY <3>3, <1>a DEF Phase, HoldsLock, BgInv, LockStages, WaitStages, ExecuteStages
      <4>2. JobOf[o] = JobOf[p]
        BY <3>3 DEF Mutex
      <4>. QED
        BY <4>1, <4>2 DEF AbstractPhases
    <3>5. AbstractPhases[o] = "new"
      BY <2>1 DEF AbstractPhases
    <3>6. Abstract!Refuse(o)
      BY <1>3, <3>2, <3>4, <3>5 DEF TryLock, Abstract!Refuse, Abstract!SameJob, AbstractPhases
    <3>. QED
      BY <3>6 DEF Abstract!Next
  <2>4. CASE <<JobOf[o], closed>> \notin locked
    <3>1. Phase(o)' = "admitted"
      BY <1>3, <2>4, <1>a DEF TryLock, Goto, Phase, HoldsLock, LockStages
    <3>2. AbstractPhases' = [AbstractPhases EXCEPT ![o] = "admitted"]
      BY <3>1, <2>2 DEF AbstractPhases
    <3>3. ASSUME ~closed, NEW p \in Ops, HoldsLock(p), JobOf[o] = JobOf[p] PROVE FALSE
      <4>1. seenClosed[p] = FALSE /\ closed = FALSE
        BY <3>3, <1>a DEF MutexInv
      <4>2. Mutex(p) = <<JobOf[o], closed>>
        BY <3>3, <4>1 DEF Mutex
      <4>. QED
        BY <2>4, <3>3, <4>2 DEF LockOwned
    <3>4. ~closed => \A p \in Ops : AbstractPhases[p] = "admitted" => JobOf[o] # JobOf[p]
      BY <3>3 DEF AbstractPhases, Phase
    <3>5. AbstractPhases[o] = "new"
      BY <2>1 DEF AbstractPhases
    <3>6. Abstract!Admit(o)
      BY <1>3, <3>2, <3>4, <3>5 DEF TryLock, Abstract!Admit, Abstract!SameJob, AbstractPhases
    <3>. QED
      BY <3>6 DEF Abstract!Next
  <2>. QED
    BY <2>3, <2>4
<1>4. ASSUME NEW o \in Ops, Announce(o) PROVE [Abstract!Next]_(Abstract!vars)
  <2>1. \A p \in Ops : Phase(p)' = Phase(p)
    BY <1>4, <1>a DEF Announce, Goto, Phase, BgInv, HoldsLock, LockStages, WaitStages, ExecuteStages
  <2>. QED
    BY <1>4, <2>1, SamePhases DEF Announce
<1>5. ASSUME NEW o \in Ops, Admit(o) PROVE [Abstract!Next]_(Abstract!vars)
  <2>1. \A p \in Ops : Phase(p)' = Phase(p)
    BY <1>5, <1>a DEF Admit, Goto, Phase, BgInv, HoldsLock, LockStages, WaitStages, ExecuteStages
  <2>. QED
    BY <1>5, <2>1, SamePhases DEF Admit
<1>6. ASSUME NEW o \in Ops, RejectClosed(o) PROVE [Abstract!Next]_(Abstract!vars)
  <2>1. \A p \in Ops : Phase(p)' = Phase(p)
    BY <1>6, <1>a DEF RejectClosed, Goto, Phase, BgInv, HoldsLock, LockStages, WaitStages, ExecuteStages
  <2>. QED
    BY <1>6, <2>1, SamePhases DEF RejectClosed
<1>7. ASSUME NEW o \in Ops, RejectFull(o) PROVE [Abstract!Next]_(Abstract!vars)
  <2>1. Phase(o) = "admitted" /\ Phase(o)' = "gone"
    BY <1>7, <1>a DEF RejectFull, Goto, Phase, BgInv, HoldsLock, LockStages, WaitStages, ExecuteStages
  <2>2. \A p \in Ops \ {o} : Phase(p)' = Phase(p)
    BY <1>7, <1>a DEF RejectFull, Goto, Phase, HoldsLock, LockStages, WaitStages, ExecuteStages
  <2>3. AbstractPhases' = [AbstractPhases EXCEPT ![o] = "gone"]
    BY <2>1, <2>2 DEF AbstractPhases
  <2>. QED
    BY <1>7, <2>1, <2>3 DEF RejectFull, Abstract!Next, Abstract!Dismiss, AbstractPhases
<1>8. ASSUME NEW o \in Ops, AcquireSlot(o) PROVE [Abstract!Next]_(Abstract!vars)
  <2>1. \A p \in Ops : Phase(p)' = Phase(p)
    BY <1>8, <1>a DEF AcquireSlot, Goto, Phase, BgInv, HoldsLock, LockStages, WaitStages, ExecuteStages
  <2>. QED
    BY <1>8, <2>1, SamePhases DEF AcquireSlot
<1>9. ASSUME NEW o \in Ops, Abort(o) PROVE [Abstract!Next]_(Abstract!vars)
  <2>1. Phase(o) = "admitted" /\ Phase(o)' = "gone"
    BY <1>9, <1>a DEF Abort, Goto, Phase, BgInv, HoldsLock, LockStages, WaitStages, ExecuteStages
  <2>2. \A p \in Ops \ {o} : Phase(p)' = Phase(p)
    BY <1>9, <1>a DEF Abort, Goto, Phase, HoldsLock, LockStages, WaitStages, ExecuteStages
  <2>3. AbstractPhases' = [AbstractPhases EXCEPT ![o] = "gone"]
    BY <2>1, <2>2 DEF AbstractPhases
  <2>. QED
    BY <1>9, <2>1, <2>3 DEF Abort, Abstract!Next, Abstract!Dismiss, AbstractPhases
<1>10. ASSUME NEW o \in Ops, BeginExecute(o) PROVE [Abstract!Next]_(Abstract!vars)
  <2>1. \A p \in Ops : Phase(p)' = Phase(p)
    BY <1>10, <1>a DEF BeginExecute, Goto, Phase, BgInv, HoldsLock, LockStages, WaitStages, ExecuteStages
  <2>. QED
    BY <1>10, <2>1, SamePhases DEF BeginExecute
<1>11. ASSUME NEW o \in Ops, GetTarget(o) PROVE [Abstract!Next]_(Abstract!vars)
  <2>1. \A p \in Ops : Phase(p)' = Phase(p)
    BY <1>11, <1>a DEF GetTarget, Goto, Phase, BgInv, HoldsLock, LockStages, WaitStages, ExecuteStages
  <2>. QED
    BY <1>11, <2>1, SamePhases DEF GetTarget
<1>12. ASSUME NEW o \in Ops, Mount(o) PROVE [Abstract!Next]_(Abstract!vars)
  <2>1. \A p \in agentMount : JobOf[p] # JobOf[o]
    BY <1>12, MountAlone DEF Mount, Goto
  <2>2. \A p \in Ops : Phase(p)' = Phase(p)
    BY <1>12, <1>a DEF Mount, Goto, Phase, BgInv, HoldsLock, LockStages, WaitStages, ExecuteStages
  <2>3. CASE agentMount' = agentMount \cup {o}
    <3>1. AbstractPhases[o] = "admitted"
      BY <1>12 DEF Mount, Goto, AbstractPhases, Phase, HoldsLock, LockStages, ExecuteStages
    <3>2. AbstractPhases' = AbstractPhases
      BY <2>2 DEF AbstractPhases
    <3>3. Abstract!Use(o)
      BY <1>12, <2>1, <2>3, <3>1, <3>2 DEF Mount, Abstract!Use, Abstract!SameJob, AbstractPhases
    <3>. QED
      BY <3>3 DEF Abstract!Next
  <2>4. CASE agentMount' = agentMount
    BY <1>12, <2>2, <2>4, SamePhases DEF Mount
  <2>. QED
    BY <1>12, <2>3, <2>4 DEF Mount
<1>13. ASSUME NEW o \in Ops, Prepare(o) PROVE [Abstract!Next]_(Abstract!vars)
  <2>1. \A p \in Ops : Phase(p)' = Phase(p)
    BY <1>13, <1>a DEF Prepare, Goto, Phase, BgInv, HoldsLock, LockStages, WaitStages, ExecuteStages
  <2>. QED
    BY <1>13, <2>1, SamePhases DEF Prepare
<1>14. ASSUME NEW o \in Ops, GetCurrentOwner(o) PROVE [Abstract!Next]_(Abstract!vars)
  <2>1. \A p \in Ops : Phase(p)' = Phase(p)
    BY <1>14, <1>a DEF GetCurrentOwner, Goto, Phase, BgInv, HoldsLock, LockStages, WaitStages, ExecuteStages
  <2>. QED
    BY <1>14, <2>1, SamePhases DEF GetCurrentOwner
<1>15. ASSUME NEW o \in Ops, FixDatastore(o) PROVE [Abstract!Next]_(Abstract!vars)
  <2>1. \A p \in Ops : Phase(p)' = Phase(p)
    BY <1>15, <1>a DEF FixDatastore, Goto, Phase, BgInv, HoldsLock, LockStages, WaitStages, ExecuteStages
  <2>. QED
    BY <1>15, <2>1, SamePhases DEF FixDatastore
<1>16. ASSUME NEW o \in Ops, StartClient(o) PROVE [Abstract!Next]_(Abstract!vars)
  <2>1. \A p \in Ops : Phase(p)' = Phase(p)
    BY <1>16, <1>a DEF StartClient, Goto, Phase, BgInv, HoldsLock, LockStages, WaitStages, ExecuteStages
  <2>. QED
    BY <1>16, <2>1, SamePhases DEF StartClient
<1>17. ASSUME NEW o \in Ops, RestoreFirst(o) PROVE [Abstract!Next]_(Abstract!vars)
  <2>1. \A p \in Ops : Phase(p)' = Phase(p)
    BY <1>17, <1>a DEF RestoreFirst, Goto, Phase, BgInv, HoldsLock, LockStages, WaitStages, ExecuteStages
  <2>. QED
    BY <1>17, <2>1, SamePhases DEF RestoreFirst
<1>18. ASSUME NEW o \in Ops, DetectTask(o) PROVE [Abstract!Next]_(Abstract!vars)
  <2>1. \A p \in Ops : Phase(p)' = Phase(p)
    BY <1>18, <1>a DEF DetectTask, Goto, Phase, BgInv, HoldsLock, LockStages, WaitStages, ExecuteStages
  <2>. QED
    BY <1>18, <2>1, SamePhases DEF DetectTask
<1>19. ASSUME NEW o \in Ops, RecordStart(o) PROVE [Abstract!Next]_(Abstract!vars)
  <2>1. \A p \in Ops : Phase(p)' = Phase(p)
    BY <1>19, <1>a DEF RecordStart, Goto, BgGoto, Phase, BgInv, HoldsLock, LockStages, WaitStages, ExecuteStages
  <2>. QED
    BY <1>19, <2>1, SamePhases DEF RecordStart
<1>20. ASSUME NEW o \in Ops, CleanUpUnlock(o) PROVE [Abstract!Next]_(Abstract!vars)
  <2>1. Phase(o) = "admitted" /\ Phase(o)' = "gone"
    BY <1>20, <1>a DEF CleanUpUnlock, Goto, Phase, BgInv, HoldsLock, LockStages, WaitStages, ExecuteStages
  <2>2. \A p \in Ops \ {o} : Phase(p)' = Phase(p)
    BY <1>20, <1>a DEF CleanUpUnlock, Goto, Phase, HoldsLock, LockStages, WaitStages, ExecuteStages
  <2>3. AbstractPhases' = [AbstractPhases EXCEPT ![o] = "gone"]
    BY <2>1, <2>2 DEF AbstractPhases
  <2>. QED
    BY <1>20, <2>1, <2>3 DEF CleanUpUnlock, Abstract!Next, Abstract!Dismiss, AbstractPhases
<1>21. ASSUME NEW o \in Ops, CleanUpUnmount(o) PROVE [Abstract!Next]_(Abstract!vars)
  <2>1. agentMount' = agentMount \ {o}
    BY <1>21 DEF CleanUpUnmount, UnmountOwn
  <2>2. \A p \in Ops : Phase(p)' = Phase(p)
    BY <1>21, <1>a DEF CleanUpUnmount, Goto, Phase, BgInv, HoldsLock, LockStages, WaitStages, ExecuteStages
  <2>3. CASE o \in agentMount
    <3>1. AbstractPhases' = AbstractPhases
      BY <2>2 DEF AbstractPhases
    <3>. QED
      BY <1>21, <2>1, <2>3, <3>1 DEF CleanUpUnmount, Abstract!Next, Abstract!StopUsing, AbstractPhases
  <2>4. CASE o \notin agentMount
    <3>1. agentMount' = agentMount
      BY <2>1, <2>4
    <3>. QED
      BY <1>21, <2>2, <3>1, SamePhases DEF CleanUpUnmount
  <2>. QED
    BY <2>3, <2>4
<1>22. ASSUME NEW o \in Ops, RestoreLast(o) PROVE [Abstract!Next]_(Abstract!vars)
  <2>1. \A p \in Ops : Phase(p)' = Phase(p)
    BY <1>22, <1>a DEF RestoreLast, Goto, Phase, BgInv, HoldsLock, LockStages, WaitStages, ExecuteStages
  <2>. QED
    BY <1>22, <2>1, SamePhases DEF RestoreLast
<1>23. ASSUME NEW o \in Ops, ReturnFromExecute(o) PROVE [Abstract!Next]_(Abstract!vars)
  <2>1. \A p \in Ops : Phase(p)' = Phase(p)
    BY <1>23, <1>a DEF ReturnFromExecute, Goto, Phase, BgInv, HoldsLock, LockStages, WaitStages, ExecuteStages
  <2>. QED
    BY <1>23, <2>1, SamePhases DEF ReturnFromExecute
<1>24. ASSUME NEW o \in Ops, CreateError(o) PROVE [Abstract!Next]_(Abstract!vars)
  <2>1. \A p \in Ops : Phase(p)' = Phase(p)
    BY <1>24, <1>a DEF CreateError, Goto, Phase, BgInv, HoldsLock, LockStages, WaitStages, ExecuteStages
  <2>. QED
    BY <1>24, <2>1, SamePhases DEF CreateError
<1>25. ASSUME NEW o \in Ops, Wait(o) PROVE [Abstract!Next]_(Abstract!vars)
  <2>1. \A p \in Ops : Phase(p)' = Phase(p)
    BY <1>25, <1>a DEF Wait, Goto, Phase, BgInv, HoldsLock, LockStages, WaitStages, ExecuteStages
  <2>. QED
    BY <1>25, <2>1, SamePhases DEF Wait
<1>26. ASSUME NEW o \in Ops, Release(o) PROVE [Abstract!Next]_(Abstract!vars)
  <2>1. \A p \in Ops : Phase(p)' = Phase(p)
    BY <1>26, <1>a DEF Release, Goto, Phase, BgInv, HoldsLock, LockStages, WaitStages, ExecuteStages
  <2>. QED
    BY <1>26, <2>1, SamePhases DEF Release
<1>27. ASSUME NEW o \in Ops, ClientExit(o) PROVE [Abstract!Next]_(Abstract!vars)
  BY <1>27, SamePhases DEF ClientExit, HoldsLock, Phase
<1>28. ASSUME NEW o \in Ops, ClientWait(o) PROVE [Abstract!Next]_(Abstract!vars)
  <2>1. \A p \in Ops : Phase(p)' = Phase(p)
    BY <1>28, <1>a DEF ClientWait, BgGoto, Phase, BgInv, HoldsLock, LockStages, WaitStages, ExecuteStages
  <2>. QED
    BY <1>28, <2>1, SamePhases DEF ClientWait
<1>29. ASSUME NEW o \in Ops, Finish(o) PROVE [Abstract!Next]_(Abstract!vars)
  <2>1. \A p \in Ops : Phase(p)' = Phase(p)
    BY <1>29, <1>a DEF Finish, BgGoto, Phase, BgInv, HoldsLock, LockStages, WaitStages, ExecuteStages
  <2>. QED
    BY <1>29, <2>1, SamePhases DEF Finish
<1>30. ASSUME NEW o \in Ops, RestoreOwner(o) PROVE [Abstract!Next]_(Abstract!vars)
  <2>1. \A p \in Ops : Phase(p)' = Phase(p)
    BY <1>30, <1>a DEF RestoreOwner, BgGoto, Phase, BgInv, HoldsLock, LockStages, WaitStages, ExecuteStages
  <2>. QED
    BY <1>30, <2>1, SamePhases DEF RestoreOwner
<1>31. ASSUME NEW o \in Ops, Unmount(o) PROVE [Abstract!Next]_(Abstract!vars)
  <2>1. agentMount' = agentMount \ {o}
    BY <1>31 DEF Unmount, UnmountOwn
  <2>2. \A p \in Ops : Phase(p)' = Phase(p)
    BY <1>31, <1>a DEF Unmount, BgGoto, Phase, BgInv, HoldsLock, LockStages, WaitStages, ExecuteStages
  <2>3. CASE o \in agentMount
    <3>1. AbstractPhases' = AbstractPhases
      BY <2>2 DEF AbstractPhases
    <3>. QED
      BY <1>31, <2>1, <2>3, <3>1 DEF Unmount, Abstract!Next, Abstract!StopUsing, AbstractPhases
  <2>4. CASE o \notin agentMount
    <3>1. agentMount' = agentMount
      BY <2>1, <2>4
    <3>. QED
      BY <1>31, <2>2, <3>1, SamePhases DEF Unmount
  <2>. QED
    BY <2>3, <2>4
<1>32. ASSUME NEW o \in Ops, BgUnlock(o) PROVE [Abstract!Next]_(Abstract!vars)
  <2>1. Phase(o) = "admitted" /\ Phase(o)' = "gone"
    BY <1>32, <1>a DEF BgUnlock, BgGoto, Phase, BgInv, HoldsLock, LockStages, WaitStages, ExecuteStages
  <2>2. \A p \in Ops \ {o} : Phase(p)' = Phase(p)
    BY <1>32, <1>a DEF BgUnlock, BgGoto, Phase, HoldsLock, LockStages, WaitStages, ExecuteStages
  <2>3. AbstractPhases' = [AbstractPhases EXCEPT ![o] = "gone"]
    BY <2>1, <2>2 DEF AbstractPhases
  <2>. QED
    BY <1>32, <2>1, <2>3 DEF BgUnlock, Abstract!Next, Abstract!Dismiss, AbstractPhases
<1>33. ASSUME WorkerTake PROVE [Abstract!Next]_(Abstract!vars)
  <2>1. \A p \in Ops : Phase(p)' = Phase(p)
    BY <1>33, <1>a DEF WorkerTake, Goto, Phase, BgInv, HoldsLock, LockStages, WaitStages, ExecuteStages
  <2>. QED
    BY <1>33, <2>1, SamePhases DEF WorkerTake
<1>34. ASSUME WorkerExit PROVE [Abstract!Next]_(Abstract!vars)
  BY <1>34, SamePhases DEF WorkerExit, HoldsLock, Phase
<1>35. ASSUME Close PROVE [Abstract!Next]_(Abstract!vars)
  <2>1. AbstractPhases' = AbstractPhases
    BY <1>35 DEF Close, AbstractPhases, Phase, HoldsLock
  <2>. QED
    BY <1>35, <2>1 DEF Close, Abstract!Next, Abstract!Close, AbstractPhases
<1>36. ASSUME UNCHANGED vars PROVE [Abstract!Next]_(Abstract!vars)
  BY <1>36, SamePhases DEF HoldsLock, Phase
<1>. QED
  BY <1>1, <1>3, <1>4, <1>5, <1>6, <1>7, <1>8, <1>9, <1>10, <1>11, <1>12,
     <1>13, <1>14, <1>15, <1>16, <1>17, <1>18, <1>19, <1>20, <1>21, <1>22, <1>23,
     <1>24, <1>25, <1>26, <1>27, <1>28, <1>29, <1>30, <1>31, <1>32, <1>33, <1>34,
     <1>35, <1>36
  DEF Next, Step, BgStep

\* A job is refused only while another operation of it is admitted, only admitted
\* operations mount, and two operations of one job never have a mount together.
THEOREM Refinement == Spec => ImplementsJobExclusion
<1>1. Init => Abstract!Init
  BY DEF Init, Abstract!Init, Phase, HoldsLock, LockStages, WaitStages, ExecuteStages
<1>. QED
  BY <1>1, StepRefines, Inductive, PTL DEF Spec, Abstract!Spec, ImplementsJobExclusion

\* Two operations of one job never have a mount on the job's path together.
THEOREM MountsExclusive == Spec => []Abstract!ExclusiveUse
<1>1. IInv => Abstract!ExclusiveUse
  BY DEF IInv, MountInv, MountIntact, Abstract!ExclusiveUse, Abstract!SameJob
<1>. QED
  BY <1>1, Inductive, PTL
=============================================================================
