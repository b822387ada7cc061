-------------------------- MODULE AgentBackupsProofs --------------------------
(***************************************************************************)
(* The safety properties of AgentBackups for every set of jobs and child   *)
(* processes and any number of faults.                                     *)
(***************************************************************************)
EXTENDS AgentBackups, TLAPS

ChildType ==
  [job : Jobs \cup {NoJob}, stage : ChildStages, mode : {"none", "direct", "snapshot"},
   conn : {"none", "open", "lost"}, serves : Procs \cup {NoProc, NoJob},
   serving : BOOLEAN, torn : BOOLEAN, waits : BOOLEAN]

-----------------------------------------------------------------------------
(* Types *)

\* The types, and that a child is one of a job.
TypeInv ==
  /\ BackupsTypeOK
  /\ \A p \in Procs :
       IF child[p].stage = "none"
       THEN child[p].conn = "none" /\ child[p].serves = NoProc /\ ~ child[p].waits
       ELSE child[p].job \in Jobs

LEMMA NewChildType ==
  /\ NoChild \in ChildType /\ \A j \in Jobs : Started(j) \in ChildType
BY DEF NoChild, Started, ChildType, ChildStages

LEMMA BackupsTypeInit == BackupsInit => TypeInv
BY NewChildType DEF BackupsInit, TypeInv, BackupsTypeOK, ChildType, OpStages, NoChild

LEMMA ChildrenType == TypeInv => child \in [Procs -> ChildType]
BY DEF TypeInv, BackupsTypeOK, ChildType

\* The end of an operation.
LEMMA OpDoneEffect ==
  ASSUME TypeInv, NEW j \in Jobs, op[j] \in {"cleanup", "quit"}, OpDone(j)
  PROVE  /\ op' \in [Jobs -> OpStages] /\ exec' \in Jobs \cup {NoJob}
         /\ own' \in [Jobs -> Procs \cup {NoProc}] /\ mnt' \in [Jobs -> Procs \cup {NoProc}]
         /\ op'[j] = "idle" /\ own'[j] = NoProc
         /\ \A i \in Jobs \ {j} : op'[i] = op[i] /\ own'[i] = own[i] /\ mnt'[i] = mnt[i]
         /\ \A i \in Jobs : op'[i] \in {"call", "answered", "mounted"} => exec' = i
BY BackupsAssumption DEF TypeInv, BackupsTypeOK, OpDone, Release, OpStages

\* The snapshot of a job is removed, if cond.
Removed(j, cond) == \A i \in Jobs : snapshot'[i] = IF i = j /\ cond THEN NoProc ELSE snapshot[i]

\* What a step of a child's own changes, field by field.
ChildSteps(p) ==
  LET c == child[p]
      d == child'[p]
      j == c.job
  IN \/ /\ ConnectToServer(p) /\ c.stage = "start" /\ UNCHANGED <<snapshot, store, cut>>
        /\ d.mode = c.mode /\ d.serving = c.serving /\ d.torn = c.torn
        /\ \/ d.stage = "joined" /\ d.conn = "open"
           \/ d.stage = "failed" /\ d.conn = c.conn
     \/ /\ StartBackup(p) /\ c.stage = "joined" /\ store' = store \cup {j} /\ cut' = cut
        /\ d.conn = c.conn /\ d.serving = c.serving /\ d.torn = c.torn
        /\ \/ d.stage = "made" /\ d.mode = "direct" /\ Removed(j, FALSE)
           \/ d.stage = "snap" /\ d.mode = "snapshot" /\ Removed(j, TRUE)
     \/ /\ BackupFails(p) /\ c.stage = "joined" /\ store' \subseteq store /\ UNCHANGED <<snapshot, cut>>
        /\ d.stage = "failed" /\ d.conn = "lost" /\ ~ d.serving /\ d.torn = c.torn /\ d.mode = c.mode
     \/ /\ CreateSnapshot(p) /\ c.stage = "snap" /\ UNCHANGED <<store, cut>>
        /\ d.stage = "made" /\ d.conn = c.conn /\ d.serving = c.serving /\ d.torn = c.torn
        /\ \/ d.mode = c.mode /\ snapshot' = [snapshot EXCEPT ![j] = p]
           \/ d.mode = "direct" /\ Removed(j, TRUE)
     \/ /\ RegisterHandlers(p) /\ c.stage = "made" /\ UNCHANGED <<snapshot, store, cut>>
        /\ d.stage = "ready" /\ d.conn = c.conn /\ d.serving = c.serving /\ d.torn = c.torn
        /\ d.mode = c.mode
     \/ /\ ServeEnds(p) /\ c.conn = "lost" /\ c.serving /\ cut' = cut
        /\ d.stage = c.stage /\ d.conn = c.conn /\ ~ d.serving /\ d.mode = c.mode
        /\ IF c.stage = "joined" THEN d.torn = c.torn /\ UNCHANGED <<snapshot, store>>
           ELSE /\ d.torn /\ store' = IF c.torn THEN store ELSE store \ {j}
                /\ Removed(j, ~ c.torn /\ c.stage = "ready" /\ c.mode = "snapshot")
     \/ /\ MainReturns(p) /\ c.stage = "ready" /\ ~ c.serving /\ UNCHANGED <<snapshot, store, cut>>
        /\ d.stage = "gone" /\ d.conn = c.conn /\ d.serving = c.serving /\ d.torn = c.torn
        /\ d.mode = c.mode
     \/ /\ Quit(p) /\ c.stage = "ready" /\ cut' = cut
        /\ d.stage = "gone" /\ d.conn = "lost" /\ ~ d.serving /\ d.torn /\ d.mode = c.mode
        /\ store' = IF c.torn THEN store ELSE store \ {j}
        /\ Removed(j, ~ c.torn /\ c.mode = "snapshot")
     \/ /\ Kill(p) /\ c.stage = "ready" /\ UNCHANGED <<snapshot, store>> /\ cut' = cut \cup {p}
        /\ d.stage = "gone" /\ d.conn = "lost" /\ ~ d.serving /\ d.torn = c.torn /\ d.mode = c.mode

LEMMA ChildEffect ==
  ASSUME TypeInv, NEW p \in Procs, ChildStep(p)
  PROVE  /\ child' \in [Procs -> ChildType]
         /\ \A q \in Procs \ {p} : child'[q] = child[q]
         /\ child[p].stage # "none" /\ child'[p].stage # "none" /\ Live(p)
         /\ child'[p].job = child[p].job /\ child'[p].waits = child[p].waits
         /\ UNCHANGED <<op, own, exec, sess, conns, mnt, host, pids, abandoned, faults>>
         /\ ChildSteps(p)
<1>c. child \in [Procs -> ChildType] /\ child[p] \in ChildType
  BY ChildrenType
<1>n. snapshot \in [Jobs -> Procs \cup {NoProc}]
  BY DEF TypeInv, BackupsTypeOK
<1>r. ASSUME NEW j, NEW cond \in BOOLEAN,
             snapshot' = [snapshot EXCEPT ![j] = IF cond THEN NoProc ELSE @]
      PROVE  Removed(j, cond)
  BY <1>n, <1>r DEF Removed
<1> USE DEF serverVars, mainVars, diskVars, history, At, Step, Live, ChildSteps, ChildType, ChildStages
<1>1. CASE ConnectToServer(p)
  BY <1>1, <1>c DEF ConnectToServer
<1>2. CASE StartBackup(p)
  BY <1>2, <1>c, <1>n DEF StartBackup, Removed
<1>3. CASE BackupFails(p)
  BY <1>3, <1>c DEF BackupFails
<1>4. CASE CreateSnapshot(p)
  BY <1>4, <1>c, <1>n DEF CreateSnapshot, Removed
<1>5. CASE RegisterHandlers(p)
  BY <1>5, <1>c DEF RegisterHandlers
<1>6. CASE ServeEnds(p)
  <2> DEFINE torn == IF child[p].stage = "joined" THEN child[p].torn ELSE TRUE
             d == [child[p] EXCEPT !.serving = FALSE, !.torn = torn]
  <2>1. child' = [child EXCEPT ![p] = d]
    <3>1. CASE child[p].stage = "joined"
      BY <1>6, <1>c, <3>1 DEF ServeEnds
    <3>2. CASE child[p].stage # "joined"
      BY <1>6, <1>c, <3>2 DEF ServeEnds
    <3> QED BY <3>1, <3>2
  <2>2. d \in ChildType /\ d.stage = child[p].stage /\ d.conn = child[p].conn /\ d.serving = FALSE
        /\ d.torn = torn /\ d.mode = child[p].mode /\ d.job = child[p].job /\ d.waits = child[p].waits
    BY <1>c
  <2>3. Live(p) /\ child[p].conn = "lost" /\ child[p].serving
        /\ UNCHANGED <<op, own, exec, sess, conns, mnt, host, pids, abandoned, faults>>
    BY <1>6 DEF ServeEnds
  <2> HIDE DEF d, ChildType
  <2>4. child' \in [Procs -> ChildType] /\ child'[p] = d /\ \A q \in Procs \ {p} : child'[q] = child[q]
    BY <1>c, <2>1, <2>2
  <2>5. CASE child[p].stage = "joined"
    <3>1. child'[p].torn = child[p].torn /\ UNCHANGED <<snapshot, store, cut>>
      BY <1>6, <2>2, <2>4, <2>5 DEF ServeEnds
    <3> QED BY <1>6, <2>2, <2>3, <2>4, <2>5, <3>1, Zenon
  <2>6. CASE child[p].stage # "joined"
    <3> DEFINE cond == ~ child[p].torn /\ child[p].stage = "ready" /\ child[p].mode = "snapshot"
    <3>1. child'[p].torn /\ cut' = cut
      BY <1>6, <2>2, <2>4, <2>6 DEF ServeEnds
    <3>2. Removed(child[p].job, cond)
      BY <1>6, <1>r, <2>6 DEF ServeEnds, Close
    <3>3. store' = IF child[p].torn THEN store ELSE store \ {child[p].job}
      BY <1>6, <2>6 DEF ServeEnds, Close
    <3> QED BY <1>6, <2>2, <2>3, <2>4, <2>6, <3>1, <3>2, <3>3, Zenon
  <2> QED BY <2>5, <2>6
<1>7. CASE MainReturns(p)
  BY <1>7, <1>c DEF MainReturns
<1>8. CASE Quit(p)
  <2> DEFINE cond == ~ child[p].torn /\ child[p].mode = "snapshot"
  <2>1. Removed(child[p].job, cond)
    BY <1>8, <1>r DEF Quit, Close
  <2>2. store' = IF child[p].torn THEN store ELSE store \ {child[p].job}
    BY <1>8 DEF Quit, Close
  <2>3. /\ Live(p) /\ child[p].stage = "ready"
        /\ child' = [child EXCEPT ![p].stage = "gone", ![p].torn = TRUE, ![p].conn = "lost",
                                  ![p].serving = FALSE]
        /\ UNCHANGED <<op, own, exec, sess, conns, mnt, host, pids, abandoned, cut, faults>>
    BY <1>8 DEF Quit
  <2>4. /\ child' \in [Procs -> ChildType] /\ \A q \in Procs \ {p} : child'[q] = child[q]
        /\ child'[p].stage = "gone" /\ child'[p].torn /\ child'[p].conn = "lost" /\ ~ child'[p].serving
        /\ child'[p].mode = child[p].mode /\ child'[p].job = child[p].job
        /\ child'[p].waits = child[p].waits
    BY <1>c, <2>3
  <2> QED BY <1>8, <2>1, <2>2, <2>3, <2>4, Zenon
<1>9. CASE Kill(p)
  BY <1>9, <1>c DEF Kill
<1> QED BY <1>1, <1>2, <1>3, <1>4, <1>5, <1>6, <1>7, <1>8, <1>9 DEF ChildStep

\* Only whether the main process waits for a child, whom its handler serves or its connection
\* changes; a connection that was open is lost.
Disturbed(p) ==
  LET c == child[p]
      d == child'[p]
  IN  /\ c.stage = "none" => d.conn = c.conn /\ d.serves = c.serves
      /\ d.stage = c.stage /\ d.job = c.job /\ d.mode = c.mode
      /\ d.serving = c.serving /\ d.torn = c.torn
      /\ d.waits => c.waits
      /\ d.conn = c.conn \/ (c.conn = "open" /\ d.conn = "lost")

LEMMA LoseEffect ==
  ASSUME TypeInv, NEW p \in Procs, Lose(p) \/ HandlerEnds(p)
  PROVE  /\ child' \in [Procs -> ChildType] /\ \A q \in Procs : Disturbed(q)
         /\ \A q \in Procs : child'[q].waits = child[q].waits
         /\ cut \subseteq cut' /\ cut' \subseteq Procs /\ \A q \in cut' \ cut : Starting(q)
         /\ \A q \in Procs : child'[q].conn # child[q].conn /\ Starting(q) => q \in cut'
         /\ UNCHANGED <<op, own, exec, mnt, host, pids, snapshot, store, abandoned>>
         /\ \A j \in Jobs : sess'[j] \in {sess[j], NoProc} /\ conns'[j] \in {conns[j], NoProc}
         /\ sess' \in [Jobs -> Procs \cup {NoProc}] /\ conns' \in [Jobs -> Procs \cup {NoProc}]
<1>c. child \in [Procs -> ChildType] /\ child[p] \in ChildType
  BY ChildrenType
<1>n. \A q \in Procs : child[q].stage = "none" => child[q].conn = "none" /\ child[q].serves = NoProc
  BY DEF TypeInv, NoChild
<1> USE DEF serverVars, mainVars, diskVars, history, Starting, Disturbed
<1>1. CASE Lose(p)
  <2>1. child' = Hang({p}) /\ cut' = cut \cup {q \in {p} : Starting(q)}
        /\ UNCHANGED <<op, own, exec, sess, conns, mnt, host, pids, snapshot, store, abandoned>>
    BY <1>1 DEF Lose
  <2>2. /\ child' \in [Procs -> ChildType] /\ \A q \in Procs : Disturbed(q)
        /\ \A q \in Procs : child'[q].waits = child[q].waits /\ (q # p => child'[q] = child[q])
    BY <1>c, <1>n, <2>1 DEF Hang, ChildType
  <2>3. \A q \in Procs : child'[q].conn # child[q].conn => q = p
    BY <2>2
  <2>4. cut \subseteq Procs /\ sess \in [Jobs -> Procs \cup {NoProc}] /\ conns \in [Jobs -> Procs \cup {NoProc}]
    BY DEF TypeInv, BackupsTypeOK
  <2> HIDE DEF Starting, Disturbed
  <2> QED BY <2>1, <2>2, <2>3, <2>4
<1>2. CASE HandlerEnds(p)
  <2> DEFINE j == child[p].job
             ps == {sess[j], conns[j]}
  <2>1. /\ child' = [Hang(ps) EXCEPT ![p].serves = NoJob]
        /\ cut' = cut \cup {q \in ps \ {NoProc} : Starting(q)}
        /\ sess' = [sess EXCEPT ![j] = NoProc] /\ conns' = [conns EXCEPT ![j] = NoProc]
        /\ UNCHANGED <<op, own, exec, mnt, host, pids, snapshot, store, abandoned>>
    BY <1>2 DEF HandlerEnds
  <2>j. j \in Jobs
    BY <1>2, BackupsAssumption DEF HandlerEnds, TypeInv, NoChild
  <2>p. ps \subseteq Procs \cup {NoProc}
    BY <2>j DEF TypeInv, BackupsTypeOK
  <2> HIDE DEF ps, j
  <2>2. /\ Hang(ps) \in [Procs -> ChildType]
        /\ \A q \in Procs : /\ Hang(ps)[q] = IF q \in ps /\ child[q].conn = "open"
                                             THEN [child[q] EXCEPT !.conn = "lost"] ELSE child[q]
    BY <1>c DEF Hang, ChildType
  <2>3. child' \in [Procs -> ChildType]
    BY <2>1, <2>2 DEF ChildType
  <2>4. \A q \in Procs :
          /\ Disturbed(q) /\ child'[q].waits = child[q].waits
          /\ child'[q].conn # child[q].conn => q \in ps
    <3> SUFFICES ASSUME NEW q \in Procs
                 PROVE  /\ Disturbed(q) /\ child'[q].waits = child[q].waits
                        /\ child'[q].conn # child[q].conn => q \in ps
      OBVIOUS
    <3>1. child[q] \in ChildType /\ Hang(ps)[q] \in ChildType
      BY <1>c, <2>2
    <3>2. child'[q] = IF q = p THEN [Hang(ps)[q] EXCEPT !.serves = NoJob] ELSE Hang(ps)[q]
      BY <2>1, <2>2
    <3>n. child[p].stage # "none"
      BY <1>2, <1>n, BackupsAssumption DEF HandlerEnds
    <3>3. CASE q \in ps /\ child[q].conn = "open"
      BY <1>n, <2>2, <3>n, <3>1, <3>2, <3>3 DEF ChildType
    <3>4. CASE ~ (q \in ps /\ child[q].conn = "open")
      BY <1>n, <2>2, <3>n, <3>1, <3>2, <3>4 DEF ChildType
    <3> QED BY <3>3, <3>4
  <2>5. sess' \in [Jobs -> Procs \cup {NoProc}] /\ conns' \in [Jobs -> Procs \cup {NoProc}]
        /\ \A i \in Jobs : sess'[i] \in {sess[i], NoProc} /\ conns'[i] \in {conns[i], NoProc}
    BY <2>1 DEF TypeInv, BackupsTypeOK
  <2>6. cut \subseteq cut' /\ cut' \subseteq Procs /\ \A q \in cut' \ cut : Starting(q)
    BY <2>1, <2>p DEF TypeInv, BackupsTypeOK
  <2>7. \A q \in Procs : q \in ps /\ Starting(q) => q \in cut'
    BY <2>1, BackupsAssumption
  <2> QED BY <2>1, <2>3, <2>4, <2>5, <2>6, <2>7
<1> QED BY <1>1, <1>2

LEMMA RegisterEffect ==
  ASSUME TypeInv, NEW p \in Procs, Register(p)
  PROVE  /\ child' \in [Procs -> ChildType] /\ \A q \in Procs : Disturbed(q)
         /\ \A q \in Procs : child'[q].waits = child[q].waits /\ child'[q].conn = child[q].conn
         /\ UNCHANGED <<op, own, exec, conns, mnt, host, pids, snapshot, store, abandoned, cut>>
         /\ child[p].conn # "none"
         /\ sess' \in [Jobs -> Procs \cup {NoProc}]
         /\ \A j \in Jobs : sess'[j] = sess[j] \/ (sess[j] = NoProc /\ sess'[j] = p /\ j = child[p].job)
<1>c. child \in [Procs -> ChildType] /\ child[p] \in ChildType
  BY ChildrenType
<1> DEFINE j == child[p].job
           s == IF sess[j] = NoProc THEN p ELSE sess[j]
<1>1. /\ child[p].conn # "none"
      /\ sess' = [sess EXCEPT ![j] = s] /\ child' = [child EXCEPT ![p].serves = s]
      /\ UNCHANGED <<op, own, exec, conns, mnt, host, pids, snapshot, store, abandoned, cut>>
  BY DEF Register, mainVars, diskVars, history
<1>2. j \in Jobs
  BY <1>1 DEF TypeInv, NoChild
<1>3. s \in Procs
  BY <1>2 DEF TypeInv, BackupsTypeOK
<1>4. /\ child' \in [Procs -> ChildType] /\ \A q \in Procs : Disturbed(q)
      /\ \A q \in Procs : child'[q].waits = child[q].waits /\ child'[q].conn = child[q].conn
  <2>1. child[p].stage # "none"
    BY <1>1 DEF TypeInv, NoChild
  <2> HIDE DEF s
  <2> QED BY <1>1, <1>c, <1>3, <2>1 DEF Disturbed, ChildType
<1>5. sess' \in [Jobs -> Procs \cup {NoProc}]
      /\ \A i \in Jobs : sess'[i] = sess[i] \/ (sess[i] = NoProc /\ sess'[i] = p /\ i = j)
  BY <1>1, <1>2 DEF TypeInv, BackupsTypeOK
<1> QED BY <1>1, <1>4, <1>5

\* The main process stops waiting for a child.
LEMMA AnswerEffect ==
  ASSUME TypeInv, NEW p \in Procs, Answer(p) \/ AnswerError(p)
  PROVE  /\ child' \in [Procs -> ChildType] /\ \A q \in Procs : Disturbed(q)
         /\ child[p].waits /\ ~ child'[p].waits /\ child[p].job \in Jobs
         /\ \A q \in Procs \ {p} : child'[q] = child[q]
         /\ \A q \in Procs : child'[q].conn = child[q].conn
         /\ UNCHANGED <<own, exec, sess, conns, mnt, host, snapshot, store, abandoned, cut>>
         /\ op' \in [Jobs -> OpStages] /\ pids' \in [Jobs -> Procs \cup {NoProc}]
         /\ Answer(p) => pids' = [pids EXCEPT ![child[p].job] = p] /\ child[p].stage \in {"ready", "gone"}
         /\ AnswerError(p) => pids' = pids /\ child[p].stage = "failed"
         /\ \A j \in Jobs : op'[j] = op[j] \/ (op[j] = "call" /\ j = child[p].job
                                               /\ op'[j] \in {"answered", "cleanup"})
<1>c. child \in [Procs -> ChildType] /\ child[p] \in ChildType
  BY ChildrenType
<1>1. child' = [child EXCEPT ![p].waits = FALSE] /\ child[p].waits /\ child[p].stage # "none"
      /\ UNCHANGED <<own, exec, sess, conns, mnt, host, snapshot, store, abandoned, cut>>
  BY DEF Answer, AnswerError, diskVars, history, mainVars
<1>2. child[p].job \in Jobs
  BY <1>1 DEF TypeInv
<1>3. /\ child' \in [Procs -> ChildType] /\ \A q \in Procs : Disturbed(q)
      /\ \A q \in Procs \ {p} : child'[q] = child[q]
      /\ \A q \in Procs : child'[q].conn = child[q].conn
      /\ ~ child'[p].waits
  BY <1>1, <1>c DEF Disturbed, ChildType
<1>4. /\ Answer(p) => pids' = [pids EXCEPT ![child[p].job] = p] /\ child[p].stage \in {"ready", "gone"}
      /\ AnswerError(p) => pids' = pids /\ child[p].stage = "failed"
  BY DEF Answer, AnswerError, mainVars
<1>5. pids' \in [Jobs -> Procs \cup {NoProc}]
  BY <1>2, <1>4 DEF TypeInv, BackupsTypeOK
<1>6. op' = op \/ (op[child[p].job] = "call"
                   /\ \E to \in {"answered", "cleanup"} : op' = [op EXCEPT ![child[p].job] = to])
  BY DEF Answer, AnswerError
<1>7. op' \in [Jobs -> OpStages]
  BY <1>6 DEF TypeInv, BackupsTypeOK, OpStages
<1>8. \A j \in Jobs : op'[j] = op[j] \/ (op[j] = "call" /\ j = child[p].job
                                         /\ op'[j] \in {"answered", "cleanup"})
  BY <1>6 DEF TypeInv, BackupsTypeOK
<1> QED BY <1>1, <1>2, <1>3, <1>4, <1>5, <1>7, <1>8

LEMMA RecycleEffect ==
  ASSUME TypeInv, NEW p \in Procs, Recycle(p)
  PROVE  /\ child' \in [Procs -> ChildType] /\ child'[p] = NoChild
         /\ \A q \in Procs \ {p} : child'[q] = child[q]
         /\ \A j \in Jobs : p \notin {own[j], sess[j], conns[j], mnt[j], pids[j], snapshot[j]}
         /\ child[p].stage \in {"gone", "failed"} /\ cut' = cut \ {p}
         /\ p \in cut => child[p].job \notin store
         /\ UNCHANGED <<op, own, exec, sess, conns, mnt, host, pids, snapshot, store, abandoned>>
BY ChildrenType, NewChildType DEF Recycle, serverVars, mainVars, diskVars

LEMMA RestartEffect ==
  ASSUME TypeInv, Restart
  PROVE  /\ child' \in [Procs -> ChildType] /\ \A q \in Procs : Disturbed(q)
         /\ \A q \in Procs : ~ child'[q].waits /\ child'[q].conn = child[q].conn
         /\ pids' = [j \in Jobs |-> NoProc] /\ store' = {}
         /\ abandoned' = abandoned \cup {j \in Jobs : ChildrenOf(j) # {}}
         /\ UNCHANGED <<op, own, exec, sess, conns, mnt, snapshot, cut>>
<1>1. child' = [p \in Procs |-> [child[p] EXCEPT !.waits = FALSE]]
      /\ pids' = [j \in Jobs |-> NoProc] /\ store' = {}
      /\ abandoned' = abandoned \cup {j \in Jobs : ChildrenOf(j) # {}}
      /\ UNCHANGED <<op, own, exec, sess, conns, mnt, snapshot, cut>>
  BY DEF Restart, serverVars
<1>2. /\ child' \in [Procs -> ChildType] /\ \A q \in Procs : Disturbed(q)
      /\ \A q \in Procs : ~ child'[q].waits /\ child'[q].conn = child[q].conn
  BY <1>1, ChildrenType DEF Disturbed, ChildType
<1> QED BY <1>1, <1>2

LEMMA BackupEffect ==
  ASSUME TypeInv, NEW j \in Jobs, NEW p \in Procs, Backup(j, p)
  PROVE  /\ child' \in [Procs -> ChildType]
         /\ child'[p] = Started(j) /\ \A q \in Procs \ {p} : child'[q] = child[q]
         /\ child[p].stage = "none" /\ exec = NoJob /\ exec' = j
         /\ op[j] = "idle" /\ op' = [op EXCEPT ![j] = "call"] /\ own' = [own EXCEPT ![j] = p]
         /\ abandoned' = IF Calls(j) = {} THEN abandoned \ {j} ELSE abandoned
         /\ UNCHANGED <<sess, conns, mnt, host, pids, snapshot, store, cut>>
BY ChildrenType, NewChildType DEF Backup, Goto, mainVars, diskVars

LEMMA TypeStep == TypeInv /\ [BackupsNext]_backupVars => TypeInv'
<1> SUFFICES ASSUME TypeInv, [BackupsNext]_backupVars PROVE TypeInv'
  OBVIOUS
<1> USE BackupsAssumption
<1>k. ASSUME child' \in [Procs -> ChildType], BackupsTypeOK',
             \A p \in Procs : \/ Disturbed(p) \/ child'[p] = child[p] \/ child'[p] = NoChild
                              \/ child'[p].stage # "none" /\ child'[p].job \in Jobs
      PROVE  TypeInv'
  <2> SUFFICES ASSUME NEW p \in Procs
               PROVE  IF child'[p].stage = "none"
                      THEN child'[p].conn = "none" /\ child'[p].serves = NoProc /\ ~ child'[p].waits
                      ELSE child'[p].job \in Jobs
    BY <1>k DEF TypeInv
  <2>1. CASE Disturbed(p)
    BY <2>1 DEF Disturbed, TypeInv
  <2>2. CASE child'[p] = child[p]
    BY <2>2 DEF TypeInv
  <2>3. CASE child'[p] = NoChild
    BY <2>3 DEF NoChild
  <2> QED BY <1>k, <2>1, <2>2, <2>3
<1>t. BackupsTypeOK /\ child \in [Procs -> ChildType]
  BY ChildrenType DEF TypeInv
<1>1. ASSUME NEW j \in Jobs, OpStep(j) \/ CallFails(j) PROVE TypeInv'
  <2>1. child' = child
    BY <1>1 DEF OpStep, CallFails, CreateARPCFS, StartClient, ExecuteFails, ClientEnds, CleanupUnreachable,
                CleanupFails, CleanupNothing, BackupClose, CleanupAnswered
  <2>2. BackupsTypeOK'
    <3> USE DEF Goto, Release, Abandon, Fault, serverVars, mainVars, diskVars, history
    <3>1. CASE CreateARPCFS(j)
      BY <1>t, <3>1 DEF CreateARPCFS, BackupsTypeOK, OpStages
    <3>2. CASE StartClient(j)
      BY <1>t, <3>2 DEF StartClient, BackupsTypeOK, OpStages
    <3>3. CASE ExecuteFails(j)
      BY <1>t, <3>3 DEF ExecuteFails, BackupsTypeOK, OpStages
    <3>4. CASE ClientEnds(j)
      BY <1>t, <3>4 DEF ClientEnds, BackupsTypeOK, OpStages
    <3>5. CASE CleanupUnreachable(j)
      BY <1>t, <3>5, OpDoneEffect DEF CleanupUnreachable, BackupsTypeOK
    <3>6. CASE CleanupNothing(j)
      <4>1. /\ OpDone(j) /\ op[j] \in {"cleanup", "quit"} /\ host' \in BOOLEAN
            /\ UNCHANGED <<sess, conns, pids, child, snapshot, store, abandoned, cut>>
        BY <3>6 DEF CleanupNothing
      <4> QED BY <1>t, <4>1, OpDoneEffect DEF BackupsTypeOK
    <3>7. CASE BackupClose(j)
      BY <1>t, <3>7 DEF BackupClose, BackupsTypeOK, OpStages
    <3>8. CASE CleanupAnswered(j)
      <4>1. /\ OpDone(j) /\ op[j] \in {"cleanup", "quit"} /\ host' \in BOOLEAN
            /\ UNCHANGED <<sess, conns, pids, child, snapshot, store, abandoned, cut>>
        BY <1>t, <3>8 DEF CleanupAnswered, BackupsTypeOK
      <4> QED BY <1>t, <4>1, OpDoneEffect DEF BackupsTypeOK
    <3>9. CASE CallFails(j)
      BY <1>t, <3>9 DEF CallFails, BackupsTypeOK, OpStages
    <3>10. CASE CleanupFails(j)
      BY <1>t, <3>10, OpDoneEffect DEF CleanupFails, BackupsTypeOK
    <3> QED BY <1>1, <3>1, <3>2, <3>3, <3>4, <3>5, <3>6, <3>7, <3>8, <3>9, <3>10 DEF OpStep
  <2> QED BY <1>k, <1>t, <2>1, <2>2
<1>2. ASSUME NEW j \in Jobs, NEW p \in Procs, Backup(j, p) PROVE TypeInv'
  <2>1. BackupsTypeOK'
    BY <1>t, <1>2, BackupEffect DEF BackupsTypeOK, ChildType, OpStages
  <2>2. Started(j).stage # "none" /\ Started(j).job = j
    BY DEF Started, NoChild
  <2> QED BY <1>k, <1>2, <2>1, <2>2, BackupEffect
<1>3. ASSUME NEW p \in Procs, ChildStep(p) PROVE TypeInv'
  <2>1. child[p].job \in Jobs
    BY <1>3, ChildEffect DEF TypeInv
  <2>2. cut' \subseteq Procs
    BY <1>t, <1>3 DEF BackupsTypeOK, ChildStep, ConnectToServer, StartBackup, BackupFails, CreateSnapshot,
                RegisterHandlers, ServeEnds, MainReturns, Quit, Kill, history
  <2>3. snapshot' \in [Jobs -> Procs \cup {NoProc}]
    BY <1>t, <1>3 DEF BackupsTypeOK, ChildStep, ConnectToServer, StartBackup, BackupFails, CreateSnapshot,
       RegisterHandlers, ServeEnds, MainReturns, Quit, Kill, Close, diskVars
  <2>4. store' \subseteq Jobs
    BY <1>t, <1>3, <2>1 DEF BackupsTypeOK, ChildStep, ConnectToServer, StartBackup, BackupFails, CreateSnapshot,
       RegisterHandlers, ServeEnds, MainReturns, Quit, Kill, Close, diskVars
  <2>5. BackupsTypeOK'
    BY <1>t, <1>3, <2>2, <2>3, <2>4, ChildEffect DEF BackupsTypeOK, ChildType
  <2> QED BY <1>k, <1>3, <2>1, <2>5, ChildEffect
<1>4. ASSUME NEW p \in Procs, Lose(p) \/ HandlerEnds(p) PROVE TypeInv'
  <2>1. BackupsTypeOK'
    BY <1>t, <1>4, LoseEffect DEF BackupsTypeOK, ChildType
  <2> QED BY <1>k, <1>4, <2>1, LoseEffect
<1>5. ASSUME NEW p \in Procs, Register(p) PROVE TypeInv'
  <2>1. BackupsTypeOK'
    BY <1>t, <1>5, RegisterEffect DEF BackupsTypeOK, ChildType
  <2> QED BY <1>k, <1>5, <2>1, RegisterEffect
<1>6. ASSUME NEW p \in Procs, Answer(p) \/ AnswerError(p) PROVE TypeInv'
  <2>1. BackupsTypeOK'
    <3>1. \A j \in Jobs : op'[j] \in {"call", "answered", "mounted"} => op[j] \in {"call", "answered", "mounted"}
      BY <1>6, AnswerEffect
    <3> QED BY <1>t, <1>6, <3>1, AnswerEffect DEF BackupsTypeOK, ChildType
  <2> QED BY <1>k, <1>6, <2>1, AnswerEffect
<1>7. ASSUME NEW p \in Procs, Recycle(p) PROVE TypeInv'
  <2>1. BackupsTypeOK'
    BY <1>t, <1>7, RecycleEffect DEF BackupsTypeOK, ChildType
  <2> QED BY <1>k, <1>7, <2>1, RecycleEffect
<1>8. CASE Restart
  <2>1. BackupsTypeOK'
    <3>1. host' \in BOOLEAN /\ pids' \in [Jobs -> Procs \cup {NoProc}] /\ abandoned' \subseteq Jobs
      BY <1>t, <1>8, RestartEffect DEF BackupsTypeOK, Restart
    <3> QED BY <1>t, <1>8, <3>1, RestartEffect DEF BackupsTypeOK, ChildType
  <2> QED BY <1>k, <1>8, <2>1, RestartEffect
<1>9. CASE Disconnect \/ ClearAll \/ Reconnect \/ UNCHANGED backupVars
  <2>1. child' = child /\ BackupsTypeOK'
    BY <1>t, <1>9 DEF Disconnect, ClearAll, Reconnect, BackupsTypeOK, backupVars, serverVars, mainVars,
                      diskVars, history
  <2> QED BY <1>k, <1>t, <2>1
<1> QED BY <1>1, <1>2, <1>3, <1>4, <1>5, <1>6, <1>7, <1>8, <1>9 DEF BackupsNext

-----------------------------------------------------------------------------
(* The invariant *)

\* What the stages of a child say of its connection, its session and its end.
ChildOK(p) ==
  LET c == child[p]
  IN  /\ c.stage = "none" => p \notin cut
      /\ c.stage # "none" => c.job \in Jobs
      /\ c.stage = "start" => c.conn = "none"
      /\ c.conn = "open" => Live(p) /\ c.serving
      /\ c.torn \/ ~ c.serving => c.conn = "lost"
      /\ c.stage \in {"joined", "snap", "made"} /\ c.conn = "lost" => p \in cut
      /\ Live(p) /\ ~ c.serving => c.torn \/ p \in cut
      /\ c.stage = "snap" => c.mode = "snapshot"

Children == \A p \in Procs : ChildOK(p)

\* The child of a job whose operations have gone as they should: the agent starts it for the
\* operation, and knows its process from when it has answered until Cleanup asks for it.
OwnChild ==
  \A j \in Jobs \ abandoned, p \in Procs :
    child[p].job = j /\ (Live(p) \/ child[p].waits) =>
      /\ op[j] # "idle" /\ own[j] = p
      /\ child[p].waits => op[j] = "call"
      /\ ~ child[p].waits /\ op[j] # "quit" => pids[j] = p

\* A key has the session of a child of its job.
Keys == \A j \in Jobs : sess[j] # NoProc => child[sess[j]].job = j /\ child[sess[j]].conn # "none"

\* The snapshot of the job is that of its child, from when it is made to the end of its session.
Snapshots ==
  \A j \in Jobs \ abandoned, p \in Procs :
    child[p].job = j /\ child[p].stage \in {"made", "ready"} /\ child[p].mode = "snapshot"
      /\ ~ child[p].torn
    => snapshot[j] = p

\* Who is to remove a snapshot, and an entry of the store.
SnapshotLeft ==
  \A j \in Jobs : snapshot[j] # NoProc =>
    LET c == child[snapshot[j]]
    IN  /\ c.job = j /\ c.stage \in {"made", "ready", "gone"} /\ c.mode = "snapshot"
        /\ snapshot[j] \in cut \/ (c.stage # "gone" /\ ~ c.torn /\ c.serving)

EntryLeft ==
  \A j \in store : \E p \in Procs :
    /\ child[p].job = j
    /\ p \in cut \/ (child[p].stage \in {"snap", "made", "ready"} /\ ~ child[p].torn)

BackupsInv ==
  /\ TypeInv /\ Children /\ OwnChild /\ Keys /\ ReadsOwnChild
  /\ Snapshots /\ SnapshotLeft /\ EntryLeft

LEMMA BackupsInvInit == BackupsInit => BackupsInv
<1> SUFFICES ASSUME BackupsInit PROVE BackupsInv
  OBVIOUS
<1>1. /\ \A p \in Procs : child[p] = NoChild /\ ~ Live(p)
      /\ cut = {} /\ store = {} /\ \A j \in Jobs : op[j] = "idle" /\ sess[j] = NoProc /\ snapshot[j] = NoProc
  BY DEF BackupsInit, Live, NoChild
<1>2. Children /\ OwnChild
  BY <1>1, BackupsAssumption DEF Children, ChildOK, OwnChild, NoChild
<1>3. Keys /\ ReadsOwnChild /\ Snapshots /\ SnapshotLeft /\ EntryLeft
  BY <1>1 DEF Keys, ReadsOwnChild, Snapshots, SnapshotLeft, EntryLeft, NoChild
<1> QED BY <1>2, <1>3, BackupsTypeInit DEF BackupsInv

\* A step that no child takes, and after which no child is answered for that was not before.
LEMMA NoChildSteps ==
  ASSUME BackupsInv, TypeInv', \A q \in Procs : Disturbed(q),
         cut \subseteq cut', \A q \in cut' \ cut : Starting(q),
         \A q \in Procs : child'[q].conn # child[q].conn /\ Starting(q) => q \in cut',
         store' \subseteq store, snapshot' = snapshot, abandoned \subseteq abandoned'
  PROVE  Children' /\ Snapshots' /\ SnapshotLeft' /\ EntryLeft'
<1>1. Children'
  <2> SUFFICES ASSUME NEW p \in Procs PROVE ChildOK(p)'
    BY DEF Children
  <2>1. ChildOK(p) /\ Disturbed(p)
    BY DEF BackupsInv, Children
  <2>2. p \in cut' => p \in cut \/ Starting(p)
    OBVIOUS
  <2> QED BY <2>1, <2>2 DEF ChildOK, Disturbed, Starting, Live
<1>2. Snapshots'
  BY DEF BackupsInv, Snapshots, Disturbed
<1>3. SnapshotLeft'
  <2> SUFFICES ASSUME NEW j \in Jobs, snapshot[j] # NoProc
               PROVE  LET c == child'[snapshot[j]]
                      IN  /\ c.job = j /\ c.stage \in {"made", "ready", "gone"} /\ c.mode = "snapshot"
                          /\ snapshot[j] \in cut' \/ (c.stage # "gone" /\ ~ c.torn /\ c.serving)
    BY DEF SnapshotLeft
  <2>1. snapshot[j] \in Procs
    BY DEF BackupsInv, TypeInv, BackupsTypeOK
  <2> QED BY <2>1 DEF BackupsInv, SnapshotLeft, Disturbed
<1>4. EntryLeft'
  <2> SUFFICES ASSUME NEW j \in store
               PROVE  \E p \in Procs : /\ child'[p].job = j
                                       /\ p \in cut' \/ (child'[p].stage \in {"snap", "made", "ready"}
                                                         /\ ~ child'[p].torn)
    BY DEF EntryLeft
  <2>1. PICK p \in Procs : child[p].job = j
                           /\ (p \in cut \/ (child[p].stage \in {"snap", "made", "ready"} /\ ~ child[p].torn))
    BY DEF BackupsInv, EntryLeft
  <2> QED BY <2>1 DEF Disturbed
<1> QED BY <1>1, <1>2, <1>3, <1>4

\* A connection that the server knows of stays known, or its key is emptied.
LEMMA KeysStay ==
  ASSUME BackupsInv, \A q \in Procs : Disturbed(q), \A j \in Jobs : sess'[j] \in {sess[j], NoProc}
  PROVE  Keys'
<1> SUFFICES ASSUME NEW j \in Jobs, sess'[j] # NoProc
             PROVE  child'[sess'[j]].job = j /\ child'[sess'[j]].conn # "none"
  BY DEF Keys
<1>1. sess[j] \in Procs /\ sess'[j] = sess[j]
  BY DEF BackupsInv, TypeInv, BackupsTypeOK
<1> QED BY <1>1 DEF BackupsInv, Keys, Disturbed

\* What the mount of a job reads from when nothing is mounted in this step.
LEMMA MountStays ==
  ASSUME BackupsInv, \A q \in Procs : Disturbed(q),
         \A j \in Jobs : op'[j] \in {"mounted", "running"} =>
           op[j] \in {"mounted", "running"} /\ mnt'[j] = mnt[j] /\ own'[j] = own[j],
         abandoned \subseteq abandoned'
  PROVE  ReadsOwnChild'
<1> SUFFICES ASSUME NEW j \in Jobs \ abandoned', op'[j] \in {"mounted", "running"}
             PROVE  mnt'[j] = own'[j] \/ (mnt'[j] \in Procs /\ child'[mnt'[j]].conn = "lost")
  BY DEF ReadsOwnChild
<1>1. op[j] \in {"mounted", "running"} /\ mnt'[j] = mnt[j] /\ own'[j] = own[j] /\ j \in Jobs \ abandoned
  OBVIOUS
<1>2. mnt[j] = own[j] \/ (mnt[j] \in Procs /\ child[mnt[j]].conn = "lost")
  BY <1>1 DEF BackupsInv, ReadsOwnChild
<1> QED BY <1>1, <1>2 DEF Disturbed

\* No child of the job is left when its operation ends.
LEMMA NoneLeft ==
  ASSUME BackupsInv, NEW j \in Jobs \ abandoned, NEW p \in Procs, child[p].job = j,
         Live(p) \/ child[p].waits, op[j] \in {"cleanup", "quit"}
  PROVE  own[j] = p /\ Live(p) /\ (op[j] = "cleanup" => pids[j] = p)
BY DEF BackupsInv, OwnChild

LEMMA OpKeeps ==
  ASSUME BackupsInv, TypeInv', NEW j \in Jobs, OpStep(j) \/ CallFails(j) PROVE BackupsInv'
<1>c. child' = child /\ UNCHANGED <<sess, snapshot, store, cut>>
  BY DEF OpStep, CallFails, CreateARPCFS, StartClient, ExecuteFails, ClientEnds, CleanupUnreachable,
         CleanupFails, CleanupNothing, BackupClose, CleanupAnswered, mainVars, diskVars, history
<1>d. \A q \in Procs : Disturbed(q)
  BY <1>c DEF Disturbed
<1>a. abandoned \subseteq abandoned'
  BY DEF OpStep, CallFails, CreateARPCFS, StartClient, ExecuteFails, ClientEnds, CleanupUnreachable,
         CleanupFails, CleanupNothing, BackupClose, CleanupAnswered, history, Abandon
<1>t. TypeInv /\ BackupsTypeOK
  BY DEF BackupsInv, TypeInv
<1>1. Children' /\ Snapshots' /\ SnapshotLeft' /\ EntryLeft' /\ Keys'
  BY <1>a, <1>c, <1>d, NoChildSteps, KeysStay
<1>l. \A q \in Procs : Live(q)' <=> Live(q)
  BY <1>c DEF Live
<1>2. OwnChild' /\ ReadsOwnChild'
  <2>1. CASE CreateARPCFS(j)
    <3>1. /\ op[j] = "answered" /\ op' = [op EXCEPT ![j] = op'[j]] /\ op'[j] \in {"mounted", "cleanup"}
          /\ op'[j] = "mounted" => sess[j] # NoProc
          /\ mnt' = [mnt EXCEPT ![j] = sess[j]] /\ UNCHANGED <<own, pids, abandoned>>
      BY <1>t, <2>1 DEF CreateARPCFS, Goto, BackupsTypeOK, mainVars, history
    <3>2. OwnChild'
      BY <1>c, <1>l, <1>t, <3>1 DEF OwnChild, BackupsInv, BackupsTypeOK
    <3>3. ReadsOwnChild'
      <4> SUFFICES ASSUME NEW i \in Jobs \ abandoned, op'[i] \in {"mounted", "running"}
                   PROVE  mnt'[i] = own[i] \/ (mnt'[i] \in Procs /\ child[mnt'[i]].conn = "lost")
        BY <1>c, <3>1 DEF ReadsOwnChild
      <4>1. CASE i # j
        BY <1>t, <3>1, <4>1 DEF ReadsOwnChild, BackupsInv, BackupsTypeOK
      <4>2. CASE i = j
        <5>1. sess[j] \in Procs /\ mnt'[j] = sess[j]
          BY <1>t, <3>1, <4>2 DEF BackupsTypeOK
        <5>2. child[sess[j]].job = j /\ child[sess[j]].conn # "none" /\ ChildOK(sess[j])
          BY <5>1, BackupsAssumption DEF BackupsInv, Keys, Children
        <5>3. child[sess[j]].conn \in {"open", "lost"}
          BY <5>1, <5>2, ChildrenType, <1>t DEF ChildType
        <5>4. Live(sess[j]) => own[j] = sess[j]
          BY <4>2, <5>1, <5>2 DEF BackupsInv, OwnChild
        <5> QED BY <4>2, <5>1, <5>2, <5>3, <5>4 DEF ChildOK
      <4> QED BY <4>1, <4>2
    <3> QED BY <3>2, <3>3
  <2>2. CASE StartClient(j) \/ ExecuteFails(j) \/ ClientEnds(j)
    <3>1. /\ op[j] \in {"mounted", "running"} /\ op' = [op EXCEPT ![j] = op'[j]]
          /\ op'[j] \in {"running", "cleanup"}
          /\ UNCHANGED <<own, mnt, pids, abandoned>>
      BY <1>t, <2>2 DEF StartClient, ExecuteFails, ClientEnds, Goto, BackupsTypeOK, mainVars, history
    <3>2. OwnChild'
      BY <1>c, <1>l, <1>t, <3>1 DEF OwnChild, BackupsInv, BackupsTypeOK
    <3>3. \A i \in Jobs : op'[i] \in {"mounted", "running"} => op[i] \in {"mounted", "running"}
      BY <1>t, <3>1 DEF BackupsTypeOK
    <3>4. ReadsOwnChild'
      BY <1>d, <3>1, <3>3, MountStays
    <3> QED BY <3>2, <3>4
  <2>3. CASE CleanupUnreachable(j) \/ CleanupFails(j) \/ CleanupNothing(j) \/ CleanupAnswered(j)
    <3>0. /\ OpDone(j) /\ op[j] \in {"cleanup", "quit"} /\ pids' = pids
          /\ j \in abandoned' \/ (op[j] = "cleanup" /\ pids[j] = NoProc) \/ (op[j] = "quit" /\ ~ Live(own[j]))
      BY <2>3 DEF CleanupUnreachable, CleanupFails, CleanupNothing, CleanupAnswered, mainVars, Abandon
    <3>1. /\ op'[j] = "idle"
          /\ \A i \in Jobs \ {j} : op'[i] = op[i] /\ own'[i] = own[i] /\ mnt'[i] = mnt[i]
      BY <1>t, <3>0, OpDoneEffect
    <3>2. j \notin abandoned' => \A p \in Procs : child[p].job = j => ~ Live(p) /\ ~ child[p].waits
      BY <1>a, <3>0, NoneLeft, BackupsAssumption
    <3>3. OwnChild'
      BY <1>a, <1>c, <1>l, <3>0, <3>1, <3>2 DEF OwnChild, BackupsInv
    <3>4. ReadsOwnChild'
      BY <1>a, <1>d, <3>1, MountStays
    <3> QED BY <3>3, <3>4
  <2>4. CASE BackupClose(j)
    <3>1. /\ op[j] = "cleanup" /\ op' = [op EXCEPT ![j] = "quit"]
          /\ own' = [own EXCEPT ![j] = pids[j]] /\ pids' = [pids EXCEPT ![j] = NoProc]
          /\ UNCHANGED <<mnt, abandoned>>
      BY <2>4 DEF BackupClose, Goto, history
    <3>2. /\ op'[j] = "quit" /\ own'[j] = pids[j]
          /\ \A i \in Jobs \ {j} : op'[i] = op[i] /\ own'[i] = own[i] /\ pids'[i] = pids[i]
      BY <1>t, <3>1 DEF BackupsTypeOK
    <3>3. \A p \in Procs : j \notin abandoned /\ child[p].job = j /\ (Live(p) \/ child[p].waits)
                           => pids[j] = p /\ ~ child[p].waits
      BY <3>1 DEF BackupsInv, OwnChild
    <3>4. OwnChild'
      BY <1>c, <1>l, <3>1, <3>2, <3>3 DEF OwnChild, BackupsInv
    <3>5. ReadsOwnChild'
      BY <1>d, <3>1, <3>2, MountStays
    <3> QED BY <3>4, <3>5
  <2>5. CASE CallFails(j)
    <3>1. /\ op[j] = "call" /\ op' = [op EXCEPT ![j] = "cleanup"] /\ abandoned' = abandoned \cup {j}
          /\ UNCHANGED <<own, mnt, pids>>
      BY <2>5 DEF CallFails, Goto, Abandon, mainVars
    <3>2. op'[j] = "cleanup" /\ \A i \in Jobs \ {j} : op'[i] = op[i]
      BY <1>t, <3>1 DEF BackupsTypeOK
    <3>3. OwnChild'
      BY <1>c, <1>l, <3>1, <3>2 DEF OwnChild, BackupsInv
    <3>4. ReadsOwnChild'
      BY <1>d, <3>1, <3>2, MountStays
    <3> QED BY <3>3, <3>4
  <2> QED BY <2>1, <2>2, <2>3, <2>4, <2>5 DEF OpStep
<1> QED BY <1>1, <1>2 DEF BackupsInv

\* The agent forks a child for the operation.
LEMMA BackupKeeps ==
  ASSUME BackupsInv, TypeInv', NEW j \in Jobs, NEW p \in Procs, Backup(j, p) PROVE BackupsInv'
<1>e. /\ child'[p] = Started(j) /\ \A q \in Procs \ {p} : child'[q] = child[q]
      /\ child[p].stage = "none" /\ op[j] = "idle" /\ op' = [op EXCEPT ![j] = "call"]
      /\ own' = [own EXCEPT ![j] = p]
      /\ abandoned' = IF Calls(j) = {} THEN abandoned \ {j} ELSE abandoned
      /\ UNCHANGED <<sess, mnt, pids, snapshot, store, cut>>
  BY BackupEffect DEF BackupsInv
<1>t. TypeInv /\ BackupsTypeOK
  BY DEF BackupsInv, TypeInv
<1>s. /\ child'[p].stage = "start" /\ child'[p].job = j /\ child'[p].conn = "none"
      /\ child'[p].waits /\ child'[p].serving /\ ~ child'[p].torn /\ child'[p].mode = "none"
  BY <1>e DEF Started, NoChild
<1>o. /\ op'[j] = "call" /\ own'[j] = p
      /\ \A i \in Jobs \ {j} : op'[i] = op[i] /\ own'[i] = own[i]
  BY <1>e, <1>t DEF BackupsTypeOK
<1>n. child[p].conn = "none" /\ ~ child[p].waits /\ ~ Live(p) /\ p \notin cut
  BY <1>e, <1>t DEF TypeInv, Live, BackupsInv, Children, ChildOK
<1>u. \A i \in Jobs : sess[i] # p /\ snapshot[i] # p
  BY <1>e, <1>n, <1>t, BackupsAssumption DEF BackupsInv, Keys, SnapshotLeft, BackupsTypeOK
<1>j. j \notin abandoned' => \A q \in Procs : child[q].job = j => ~ Live(q) /\ ~ child[q].waits
  <2>1. CASE Calls(j) = {}
    BY <2>1 DEF Calls, ChildrenOf
  <2>2. CASE Calls(j) # {}
    BY <1>e, <2>2 DEF BackupsInv, OwnChild
  <2> QED BY <2>1, <2>2
<1>l. \A q \in Procs \ {p} : Live(q)' <=> Live(q)
  BY <1>e DEF Live
<1>1. Children'
  <2>1. ChildOK(p)'
    BY <1>e, <1>n, <1>s DEF ChildOK, Live
  <2>2. \A q \in Procs \ {p} : ChildOK(q)'
    BY <1>e, <1>l DEF BackupsInv, Children, ChildOK
  <2> QED BY <2>1, <2>2 DEF Children
<1>2. OwnChild'
  <2> SUFFICES ASSUME NEW i \in Jobs \ abandoned', NEW q \in Procs, child'[q].job = i,
                      Live(q)' \/ child'[q].waits
               PROVE  /\ op'[i] # "idle" /\ own'[i] = q
                      /\ child'[q].waits => op'[i] = "call"
                      /\ ~ child'[q].waits /\ op'[i] # "quit" => pids'[i] = q
    BY DEF OwnChild
  <2>1. CASE q = p
    BY <1>o, <1>s, <2>1
  <2>2. CASE q # p
    <3>1. child[q].job = i /\ (Live(q) \/ child[q].waits)
      BY <1>e, <1>l, <2>2
    <3>2. i # j /\ i \notin abandoned
      BY <1>e, <1>j, <3>1
    <3> QED BY <1>e, <1>o, <2>2, <3>1, <3>2 DEF BackupsInv, OwnChild
  <2> QED BY <2>1, <2>2
<1>3. Keys'
  <2> SUFFICES ASSUME NEW i \in Jobs, sess[i] # NoProc
               PROVE  child'[sess[i]].job = i /\ child'[sess[i]].conn # "none"
    BY <1>e DEF Keys
  <2>1. sess[i] \in Procs \ {p}
    BY <1>t, <1>u DEF BackupsTypeOK
  <2> QED BY <1>e, <2>1 DEF BackupsInv, Keys
<1>4. ReadsOwnChild'
  <2> SUFFICES ASSUME NEW i \in Jobs \ abandoned', op'[i] \in {"mounted", "running"}
               PROVE  mnt[i] = own'[i] \/ (mnt[i] \in Procs /\ child'[mnt[i]].conn = "lost")
    BY <1>e DEF ReadsOwnChild
  <2>1. i # j /\ i \notin abandoned
    BY <1>e, <1>o
  <2>2. mnt[i] = own[i] \/ (mnt[i] \in Procs /\ child[mnt[i]].conn = "lost")
    BY <1>o, <2>1 DEF BackupsInv, ReadsOwnChild
  <2> QED BY <1>e, <1>n, <1>o, <2>1, <2>2
<1>5. Snapshots'
  <2> SUFFICES ASSUME NEW i \in Jobs \ abandoned', NEW q \in Procs, child'[q].job = i,
                      child'[q].stage \in {"made", "ready"}, child'[q].mode = "snapshot", ~ child'[q].torn
               PROVE  snapshot[i] = q
    BY <1>e DEF Snapshots
  <2>1. q # p
    BY <1>s
  <2>2. Live(q)
    BY <1>e, <2>1 DEF Live
  <2>3. i # j /\ i \notin abandoned
    BY <1>e, <1>j, <2>1, <2>2
  <2> QED BY <1>e, <2>1, <2>3 DEF BackupsInv, Snapshots
<1>6. SnapshotLeft'
  <2> SUFFICES ASSUME NEW i \in Jobs, snapshot[i] # NoProc
               PROVE  LET c == child'[snapshot[i]]
                      IN  /\ c.job = i /\ c.stage \in {"made", "ready", "gone"} /\ c.mode = "snapshot"
                          /\ snapshot[i] \in cut \/ (c.stage # "gone" /\ ~ c.torn /\ c.serving)
    BY <1>e DEF SnapshotLeft
  <2>1. snapshot[i] \in Procs \ {p}
    BY <1>t, <1>u DEF BackupsTypeOK
  <2> QED BY <1>e, <2>1 DEF BackupsInv, SnapshotLeft
<1>7. EntryLeft'
  <2> SUFFICES ASSUME NEW i \in store
               PROVE  \E q \in Procs : /\ child'[q].job = i
                                       /\ q \in cut \/ (child'[q].stage \in {"snap", "made", "ready"}
                                                        /\ ~ child'[q].torn)
    BY <1>e DEF EntryLeft
  <2>1. PICK q \in Procs : child[q].job = i
                           /\ (q \in cut \/ (child[q].stage \in {"snap", "made", "ready"} /\ ~ child[q].torn))
    BY DEF BackupsInv, EntryLeft
  <2>2. q # p
    BY <1>e, <1>n, <2>1
  <2> QED BY <1>e, <2>1, <2>2
<1> QED BY <1>1, <1>2, <1>3, <1>4, <1>5, <1>6, <1>7 DEF BackupsInv


\* A child takes a step of its own.
LEMMA ChildKeeps ==
  ASSUME BackupsInv, TypeInv', NEW p \in Procs, ChildStep(p) PROVE BackupsInv'
<1> DEFINE c == child[p]
           d == child'[p]
           j == child[p].job
<1>t. TypeInv /\ BackupsTypeOK
  BY DEF BackupsInv, TypeInv
<1>e. /\ \A q \in Procs \ {p} : child'[q] = child[q]
      /\ c.stage # "none" /\ d.stage # "none" /\ Live(p) /\ d.job = c.job /\ d.waits = c.waits
      /\ UNCHANGED <<op, own, exec, sess, conns, mnt, host, pids, abandoned, faults>>
      /\ ChildSteps(p)
  BY <1>t, ChildEffect
<1>k. ChildOK(p) /\ c.stage \notin {"none", "gone", "failed"} /\ j \in Jobs
  BY <1>e, <1>t DEF BackupsInv, Children, Live, TypeInv
<1>u. /\ cut' \in {cut, cut \cup {p}}
      /\ c.conn \in {"open", "lost"} => d.conn \in {c.conn, "lost"}
      /\ \A i \in Jobs \ {j} : snapshot'[i] = snapshot[i]
      /\ snapshot'[j] \in {snapshot[j], NoProc, p}
  BY <1>e, <1>k, <1>t DEF ChildSteps, ChildOK, Removed, BackupsTypeOK
<1>l. \A q \in Procs \ {p} : Live(q)' <=> Live(q)
  BY <1>e DEF Live
<1>1. Children'
  <2>1. ChildOK(p)'
    BY <1>e, <1>k DEF ChildSteps, ChildOK, Live
  <2>2. \A q \in Procs \ {p} : ChildOK(q)'
    BY <1>e, <1>l, <1>u DEF BackupsInv, Children, ChildOK
  <2> QED BY <2>1, <2>2 DEF Children
<1>2. OwnChild'
  <2> SUFFICES ASSUME NEW i \in Jobs \ abandoned, NEW q \in Procs, child'[q].job = i,
                      Live(q)' \/ child'[q].waits
               PROVE  /\ op[i] # "idle" /\ own[i] = q
                      /\ child'[q].waits => op[i] = "call"
                      /\ ~ child'[q].waits /\ op[i] # "quit" => pids[i] = q
    BY <1>e DEF OwnChild
  <2>1. child[q].job = i /\ child'[q].waits = child[q].waits /\ (Live(q) \/ child[q].waits)
    BY <1>e, <1>l
  <2> QED BY <2>1 DEF BackupsInv, OwnChild
<1>3. Keys'
  <2> SUFFICES ASSUME NEW i \in Jobs, sess[i] # NoProc
               PROVE  child'[sess[i]].job = i /\ child'[sess[i]].conn # "none"
    BY <1>e DEF Keys
  <2>1. sess[i] \in Procs /\ child[sess[i]].job = i /\ child[sess[i]].conn # "none"
    BY <1>t DEF BackupsTypeOK, BackupsInv, Keys
  <2>2. child[sess[i]].conn \in {"open", "lost"}
    BY <1>t, <2>1, ChildrenType DEF ChildType
  <2> QED BY <1>e, <1>u, <2>1, <2>2
<1>4. ReadsOwnChild'
  <2>1. \A q \in Procs : child[q].conn = "lost" => child'[q].conn = "lost"
    BY <1>e, <1>u
  <2> QED BY <1>e, <2>1 DEF BackupsInv, ReadsOwnChild
<1>5. Snapshots'
  <2> SUFFICES ASSUME NEW i \in Jobs \ abandoned, NEW q \in Procs, child'[q].job = i,
                      child'[q].stage \in {"made", "ready"}, child'[q].mode = "snapshot", ~ child'[q].torn
               PROVE  snapshot'[i] = q
    BY <1>e DEF Snapshots
  <2>1. CASE q # p
    <3>1. Live(q) /\ child'[q] = child[q] /\ child[q].job = i
      BY <1>e, <2>1 DEF Live
    <3>2. i # j
      BY <1>e, <2>1, <3>1 DEF BackupsInv, OwnChild
    <3> QED BY <1>u, <3>1, <3>2 DEF BackupsInv, Snapshots
  <2>2. CASE q = p
    <3>1. CASE c.stage \in {"made", "ready"} /\ c.mode = "snapshot" /\ ~ c.torn /\ snapshot'[j] = snapshot[j]
      BY <1>e, <2>2, <3>1 DEF BackupsInv, Snapshots
    <3>2. CASE snapshot'[j] = p
      BY <1>e, <2>2, <3>2
    <3>3. \/ c.stage \in {"made", "ready"} /\ c.mode = "snapshot" /\ ~ c.torn /\ snapshot'[j] = snapshot[j]
          \/ snapshot'[j] = p
      BY <1>e, <1>k, <1>t, <2>2 DEF ChildSteps, Removed, BackupsTypeOK
    <3> QED BY <3>1, <3>2, <3>3
  <2> QED BY <2>1, <2>2
<1>6. SnapshotLeft'
  <2> SUFFICES ASSUME NEW i \in Jobs, snapshot'[i] # NoProc
               PROVE  LET x == child'[snapshot'[i]]
                      IN  /\ x.job = i /\ x.stage \in {"made", "ready", "gone"} /\ x.mode = "snapshot"
                          /\ snapshot'[i] \in cut' \/ (x.stage # "gone" /\ ~ x.torn /\ x.serving)
    BY DEF SnapshotLeft
  <2>1. CASE snapshot'[i] # p
    <3>1. snapshot[i] = snapshot'[i] /\ snapshot[i] \in Procs \ {p}
      BY <1>t, <1>u, <2>1 DEF BackupsTypeOK
    <3> QED BY <1>e, <1>u, <3>1 DEF BackupsInv, SnapshotLeft
  <2>2. CASE snapshot'[i] = p /\ snapshot[i] = p
    <3>1. /\ j = i /\ c.stage \in {"made", "ready"} /\ c.mode = "snapshot" /\ p # NoProc
          /\ p \in cut \/ (~ c.torn /\ c.serving)
      BY <1>k, <2>2, BackupsAssumption DEF BackupsInv, SnapshotLeft
    <3>2. d.stage \in {"made", "ready", "gone"} /\ d.mode = "snapshot"
      BY <1>e, <3>1 DEF ChildSteps
    <3>3. p \in cut' \/ (d.stage # "gone" /\ ~ d.torn /\ d.serving)
      BY <1>e, <1>k, <2>2, <3>1 DEF ChildSteps, Removed, ChildOK
    <3> QED BY <1>e, <2>2, <3>1, <3>2, <3>3
  <2>3. CASE snapshot'[i] = p /\ snapshot[i] # p
    <3>1. /\ i = j /\ c.stage = "snap" /\ d.stage = "made" /\ d.mode = c.mode /\ cut' = cut
          /\ d.conn = c.conn /\ d.serving = c.serving /\ d.torn = c.torn
      BY <1>e, <1>u, <2>3, BackupsAssumption DEF ChildSteps, Removed
    <3> QED BY <1>e, <1>k, <2>3, <3>1 DEF ChildOK
  <2> QED BY <2>1, <2>2, <2>3
<1>7. EntryLeft'
  <2> SUFFICES ASSUME NEW i \in store'
               PROVE  \E q \in Procs : /\ child'[q].job = i
                                       /\ q \in cut' \/ (child'[q].stage \in {"snap", "made", "ready"}
                                                         /\ ~ child'[q].torn)
    BY DEF EntryLeft
  <2>1. CASE i \notin store
    <3>1. i = j /\ d.stage \in {"snap", "made"} /\ c.stage = "joined" /\ d.torn = c.torn /\ cut' = cut
      BY <1>e, <2>1 DEF ChildSteps
    <3>2. d.torn => p \in cut'
      BY <1>k, <3>1 DEF ChildOK
    <3> QED BY <1>e, <3>1, <3>2
  <2>2. CASE i \in store
    <3>1. PICK q \in Procs : child[q].job = i
                             /\ (q \in cut \/ (child[q].stage \in {"snap", "made", "ready"} /\ ~ child[q].torn))
      BY <2>2 DEF BackupsInv, EntryLeft
    <3>2. CASE q # p \/ q \in cut
      BY <1>e, <1>u, <3>1, <3>2
    <3>3. CASE q = p /\ p \notin cut
      <4>1. c.stage \in {"snap", "made", "ready"} /\ ~ c.torn /\ i = j
        BY <3>1, <3>3
      <4>2. p \in cut' \/ (d.stage \in {"snap", "made", "ready"} /\ ~ d.torn)
        BY <1>e, <1>k, <3>3, <4>1 DEF ChildSteps, ChildOK
      <4> QED BY <1>e, <4>1, <4>2
    <3> QED BY <3>2, <3>3
  <2> QED BY <2>1, <2>2
<1> QED BY <1>1, <1>2, <1>3, <1>4, <1>5, <1>6, <1>7 DEF BackupsInv

\* The server's handlers, and the main process, that look after children.
LEMMA HandlerKeeps ==
  ASSUME BackupsInv, TypeInv', NEW p \in Procs, Lose(p) \/ HandlerEnds(p) \/ Register(p) PROVE BackupsInv'
<1>t. TypeInv /\ BackupsTypeOK
  BY DEF BackupsInv, TypeInv
<1>1. /\ \A q \in Procs : Disturbed(q) /\ child'[q].waits = child[q].waits
      /\ cut \subseteq cut' /\ \A q \in cut' \ cut : Starting(q)
      /\ \A q \in Procs : child'[q].conn # child[q].conn /\ Starting(q) => q \in cut'
      /\ UNCHANGED <<op, own, mnt, pids, snapshot, store, abandoned>>
  BY <1>t, LoseEffect, RegisterEffect
<1>2. Children' /\ Snapshots' /\ SnapshotLeft' /\ EntryLeft'
  BY <1>1, NoChildSteps
<1>3. OwnChild'
  BY <1>1 DEF BackupsInv, OwnChild, Disturbed, Live
<1>4. ReadsOwnChild'
  BY <1>1, MountStays
<1>5. Keys'
  <2>1. CASE Lose(p) \/ HandlerEnds(p)
    BY <1>1, <1>t, <2>1, LoseEffect, KeysStay
  <2>2. CASE Register(p)
    <3> SUFFICES ASSUME NEW j \in Jobs, sess'[j] # NoProc
                 PROVE  child'[sess'[j]].job = j /\ child'[sess'[j]].conn # "none"
      BY DEF Keys
    <3>1. \/ sess'[j] = sess[j] /\ sess[j] \in Procs
          \/ sess'[j] = p /\ child[p].job = j /\ child[p].conn # "none"
      BY <1>t, <2>2, RegisterEffect DEF BackupsTypeOK
    <3> QED BY <1>1, <3>1 DEF Disturbed, BackupsInv, Keys
  <2> QED BY <2>1, <2>2
<1> QED BY <1>2, <1>3, <1>4, <1>5 DEF BackupsInv

LEMMA AnswerKeeps ==
  ASSUME BackupsInv, TypeInv', NEW p \in Procs, Answer(p) \/ AnswerError(p) PROVE BackupsInv'
<1> DEFINE j == child[p].job
<1>t. TypeInv /\ BackupsTypeOK
  BY DEF BackupsInv, TypeInv
<1>1. /\ \A q \in Procs : Disturbed(q) /\ child'[q].conn = child[q].conn
      /\ child[p].waits /\ ~ child'[p].waits /\ j \in Jobs /\ \A q \in Procs \ {p} : child'[q] = child[q]
      /\ UNCHANGED <<own, sess, mnt, snapshot, store, abandoned, cut>>
      /\ \A i \in Jobs : op'[i] = op[i] \/ (op[i] = "call" /\ i = j /\ op'[i] \in {"answered", "cleanup"})
      /\ pids' = [pids EXCEPT ![j] = p] \/ (pids' = pids /\ child[p].stage = "failed")
  BY <1>t, AnswerEffect
<1>2. Children' /\ Snapshots' /\ SnapshotLeft' /\ EntryLeft' /\ Keys'
  BY <1>1, NoChildSteps, KeysStay
<1>3. OwnChild'
  <2> SUFFICES ASSUME NEW i \in Jobs \ abandoned, NEW q \in Procs, child'[q].job = i,
                      Live(q)' \/ child'[q].waits
               PROVE  /\ op'[i] # "idle" /\ own[i] = q
                      /\ child'[q].waits => op'[i] = "call"
                      /\ ~ child'[q].waits /\ op'[i] # "quit" => pids'[i] = q
    BY <1>1 DEF OwnChild
  <2>1. child[q].job = i /\ (Live(q) \/ child[q].waits)
    BY <1>1 DEF Disturbed, Live
  <2>2. op[i] # "idle" /\ own[i] = q
    BY <2>1 DEF BackupsInv, OwnChild
  <2>3. op'[i] # "idle" /\ (op[i] # "call" => op'[i] = op[i])
    BY <1>1, <2>2
  <2>4. CASE q = p
    <3>1. Live(p)
      BY <1>1, <2>4 DEF Disturbed, Live
    <3>2. pids'[i] = p
      BY <1>1, <1>t, <2>1, <2>4, <3>1 DEF Live, BackupsTypeOK
    <3> QED BY <1>1, <2>2, <2>3, <2>4, <3>2
  <2>5. CASE q # p
    <3>1. i # j
      BY <1>1, <2>1, <2>2, <2>5 DEF BackupsInv, OwnChild
    <3>2. pids'[i] = pids[i] /\ op'[i] = op[i] /\ child'[q] = child[q]
      BY <1>1, <1>t, <2>5, <3>1 DEF BackupsTypeOK
    <3> QED BY <2>1, <2>2, <3>2 DEF BackupsInv, OwnChild
  <2> QED BY <2>4, <2>5
<1>4. ReadsOwnChild'
  BY <1>1, MountStays
<1> QED BY <1>2, <1>3, <1>4 DEF BackupsInv

LEMMA RecycleKeeps ==
  ASSUME BackupsInv, TypeInv', NEW p \in Procs, Recycle(p) PROVE BackupsInv'
<1>t. TypeInv /\ BackupsTypeOK
  BY DEF BackupsInv, TypeInv
<1>1. /\ child'[p] = NoChild /\ \A q \in Procs \ {p} : child'[q] = child[q]
      /\ \A j \in Jobs : p \notin {own[j], sess[j], conns[j], mnt[j], pids[j], snapshot[j]}
      /\ child[p].stage \in {"gone", "failed"} /\ cut' = cut \ {p}
      /\ p \in cut => child[p].job \notin store
      /\ UNCHANGED <<op, own, exec, sess, conns, mnt, host, pids, snapshot, store, abandoned>>
  BY <1>t, RecycleEffect
<1>2. \A q \in Procs : Live(q)' <=> Live(q)
  BY <1>1 DEF Live, NoChild
<1>3. Children'
  <2>1. ChildOK(p)'
    BY <1>1 DEF ChildOK, NoChild
  <2>2. \A q \in Procs \ {p} : ChildOK(q)'
    BY <1>1, <1>2 DEF BackupsInv, Children, ChildOK
  <2> QED BY <2>1, <2>2 DEF Children
<1>4. OwnChild'
  <2>1. ~ Live(p)' /\ ~ child'[p].waits
    BY <1>1 DEF Live, NoChild
  <2> QED BY <1>1, <1>2, <2>1 DEF BackupsInv, OwnChild
<1>5. Keys'
  BY <1>1, <1>t DEF BackupsInv, Keys, BackupsTypeOK
<1>6. ReadsOwnChild'
  BY <1>1, <1>t DEF BackupsInv, ReadsOwnChild, BackupsTypeOK
<1>7. Snapshots'
  BY <1>1 DEF BackupsInv, Snapshots, NoChild
<1>8. SnapshotLeft'
  <2> SUFFICES ASSUME NEW i \in Jobs, snapshot[i] # NoProc
               PROVE  LET c == child'[snapshot[i]]
                      IN  /\ c.job = i /\ c.stage \in {"made", "ready", "gone"} /\ c.mode = "snapshot"
                          /\ snapshot[i] \in cut' \/ (c.stage # "gone" /\ ~ c.torn /\ c.serving)
    BY <1>1 DEF SnapshotLeft
  <2>1. snapshot[i] \in Procs \ {p}
    BY <1>1, <1>t DEF BackupsTypeOK
  <2> QED BY <1>1, <2>1 DEF BackupsInv, SnapshotLeft
<1>9. EntryLeft'
  <2> SUFFICES ASSUME NEW i \in store
               PROVE  \E q \in Procs : /\ child'[q].job = i
                                       /\ q \in cut' \/ (child'[q].stage \in {"snap", "made", "ready"}
                                                         /\ ~ child'[q].torn)
    BY <1>1 DEF EntryLeft
  <2>1. PICK q \in Procs : child[q].job = i
                           /\ (q \in cut \/ (child[q].stage \in {"snap", "made", "ready"} /\ ~ child[q].torn))
    BY DEF BackupsInv, EntryLeft
  <2>2. q # p
    BY <1>1, <2>1
  <2> QED BY <1>1, <2>1, <2>2
<1> QED BY <1>3, <1>4, <1>5, <1>6, <1>7, <1>8, <1>9 DEF BackupsInv

LEMMA RestartKeeps ==
  ASSUME BackupsInv, TypeInv', Restart PROVE BackupsInv'
<1>t. TypeInv /\ BackupsTypeOK
  BY DEF BackupsInv, TypeInv
<1>1. /\ \A q \in Procs : Disturbed(q) /\ ~ child'[q].waits /\ child'[q].conn = child[q].conn
      /\ store' = {} /\ abandoned' = abandoned \cup {j \in Jobs : ChildrenOf(j) # {}}
      /\ UNCHANGED <<op, own, sess, mnt, snapshot, cut>>
  BY <1>t, RestartEffect
<1>2. Children' /\ Snapshots' /\ SnapshotLeft' /\ EntryLeft' /\ Keys'
  BY <1>1, NoChildSteps, KeysStay
<1>3. OwnChild'
  BY <1>1 DEF OwnChild, ChildrenOf, Disturbed, Live
<1>4. ReadsOwnChild'
  BY <1>1, MountStays
<1> QED BY <1>2, <1>3, <1>4 DEF BackupsInv

LEMMA BackupsInvStep == BackupsInv /\ [BackupsNext]_backupVars => BackupsInv'
<1> SUFFICES ASSUME BackupsInv, [BackupsNext]_backupVars PROVE BackupsInv'
  OBVIOUS
<1>t. TypeInv'
  BY TypeStep DEF BackupsInv
<1>1. CASE Disconnect \/ ClearAll \/ Reconnect \/ UNCHANGED backupVars
  <2>1. /\ UNCHANGED <<op, own, sess, mnt, pids, child, snapshot, abandoned, cut>>
        /\ store' \subseteq store
    BY <1>1 DEF Disconnect, ClearAll, Reconnect, backupVars, serverVars, mainVars, diskVars, history
  <2>2. \A q \in Procs : Disturbed(q)
    BY <2>1 DEF Disturbed
  <2>3. Children' /\ Snapshots' /\ SnapshotLeft' /\ EntryLeft' /\ Keys' /\ ReadsOwnChild'
    BY <1>t, <2>1, <2>2, NoChildSteps, KeysStay, MountStays
  <2>4. OwnChild'
    BY <2>1 DEF BackupsInv, OwnChild, Live
  <2> QED BY <1>t, <2>3, <2>4 DEF BackupsInv
<1> QED
  BY <1>1, <1>t, OpKeeps, BackupKeeps, ChildKeeps, HandlerKeeps, AnswerKeeps, RecycleKeeps, RestartKeeps
     DEF BackupsNext

-----------------------------------------------------------------------------
(* Theorems *)

LEMMA BackupsInvHolds == BackupsSpec => []BackupsInv
BY BackupsInvInit, BackupsInvStep, PTL DEF BackupsSpec

\* Every variable keeps its type; executeMu belongs to an operation inside Execute.
THEOREM BackupsTypeCorrect == BackupsSpec => []BackupsTypeOK
<1>1. BackupsInv => BackupsTypeOK
  BY DEF BackupsInv, TypeInv
<1> QED BY <1>1, BackupsInvHolds, PTL

\* No child outlives its operation, but for the causes the history names.
THEOREM NoChildStrays == BackupsSpec => []NoStrayChild
<1>1. BackupsInv => NoStrayChild
  BY DEF BackupsInv, OwnChild, NoStrayChild, ChildrenOf
<1> QED BY <1>1, BackupsInvHolds, PTL

\* A mount reads from the child its operation started, or from nothing.
THEOREM MountReadsOwnChild == BackupsSpec => []ReadsOwnChild
<1>1. BackupsInv => ReadsOwnChild
  BY DEF BackupsInv
<1> QED BY <1>1, BackupsInvHolds, PTL

\* Nobody removes the snapshot that a child serves.
THEOREM SnapshotIsKept == BackupsSpec => []SnapshotKept
<1>1. BackupsInv => SnapshotKept
  <2> SUFFICES ASSUME BackupsInv, NEW p \in Procs, child[p].job \notin abandoned, At(p, "ready"),
                      child[p].mode = "snapshot", ~ child[p].torn
               PROVE  snapshot[child[p].job] = p
    BY DEF SnapshotKept
  <2>1. child[p].job \in Jobs
    BY DEF BackupsInv, TypeInv, At
  <2> QED BY <2>1 DEF BackupsInv, Snapshots, At
<1> QED BY <1>1, BackupsInvHolds, PTL

\* Snapshots and entries of the store are removed, but for those of children that were cut off.
THEOREM NothingLeftBehind == BackupsSpec => []LeftBehind
<1>1. BackupsInv => LeftBehind
  <2> SUFFICES ASSUME BackupsInv, NEW j \in Jobs
               PROVE  /\ snapshot[j] # NoProc => Live(snapshot[j]) \/ snapshot[j] \in cut
                      /\ j \in store => ChildrenOf(j) # {} \/ \E p \in cut : child[p].job = j
    BY DEF LeftBehind
  <2>1. snapshot[j] # NoProc => Live(snapshot[j]) \/ snapshot[j] \in cut
    BY DEF BackupsInv, SnapshotLeft, Live
  <2>2. ASSUME j \in store PROVE ChildrenOf(j) # {} \/ \E p \in cut : child[p].job = j
    <3>1. PICK p \in Procs : child[p].job = j
                             /\ (p \in cut \/ (child[p].stage \in {"snap", "made", "ready"} /\ ~ child[p].torn))
      BY <2>2 DEF BackupsInv, EntryLeft
    <3>2. p \in cut \/ p \in ChildrenOf(j)
      BY <3>1 DEF ChildrenOf, Live
    <3> QED BY <3>1, <3>2
  <2> QED BY <2>1, <2>2
<1> QED BY <1>1, BackupsInvHolds, PTL

\* A backup is not called graceful because of another child's connection.
THEOREM VerdictIsSound == BackupsSpec => VerdictSound
<1>1. ASSUME BackupsInv, NEW j \in Jobs \ abandoned, op[j] = "running", TRUE \in IsConnected(j)
      PROVE  sess[j] # NoProc /\ (sess[j] \in {mnt[j], own[j]} \/ child[sess[j]].conn = "lost")
  <2>1. sess[j] # NoProc /\ sess[j] \in Procs
    BY <1>1 DEF IsConnected, Status, BackupsInv, TypeInv, BackupsTypeOK
  <2>2. /\ child[sess[j]].job = j /\ child[sess[j]].conn # "none"
        /\ ChildOK(sess[j]) /\ child[sess[j]] \in ChildType
    BY <1>1, <2>1, ChildrenType DEF BackupsInv, Keys, Children
  <2>3. Live(sess[j]) => own[j] = sess[j]
    BY <1>1, <2>1, <2>2 DEF BackupsInv, OwnChild
  <2> QED BY <2>1, <2>2, <2>3 DEF ChildOK, ChildType
<1>2. BackupsInv => [\A j \in Jobs \ abandoned :
                       op[j] = "running" /\ op'[j] = "cleanup" /\ TRUE \in IsConnected(j)
                       => /\ sess[j] # NoProc
                          /\ sess[j] \in {mnt[j], own[j]} \/ child[sess[j]].conn = "lost"]_backupVars
  BY <1>1
<1> QED BY <1>2, BackupsInvHolds, PTL DEF VerdictSound
=============================================================================
