-------------------------- MODULE AgentUpdaterProofs --------------------------
(***************************************************************************)
(* The safety properties of AgentUpdater for every value of its constants: *)
(* any number of versions, attempts, faults and deaths.                    *)
(***************************************************************************)
EXTENDS AgentUpdater, TLAPS

Files == Contents \cup {Absent, Page}
Whole == Contents \cup {Absent}

-----------------------------------------------------------------------------
(* Types *)

LEMMA SystemType == System \in {"unix", "windows"}
BY DEF System

LEMMA ReleasedType == ASSUME UpdTypeOK PROVE Released \in Contents
BY UpdaterAssumption DEF UpdTypeOK, Released, Contents

LEMMA FileFields == \A c \in Contents : c.ver \in 1 .. MaxVersion
BY DEF Contents

\* The types in two parts: what is a flag, and what is not.
Flags == {lock, due, known, bent, hurt, taken} \subseteq BOOLEAN

Data ==
  /\ kind \in Kinds /\ served \in 1 .. MaxVersion
  /\ manager \in {"systemd", "other", "none"} /\ stopping \in {"no", "stop", "restart"}
  /\ {main, backup, agent, stray, was} \subseteq Files
  /\ temp \in Files
  /\ version \in 1 .. MaxVersion
  /\ at \in Stages /\ tries \in 0 .. MaxTries
  /\ faults \in 0 .. MaxFaults /\ crashes \in 0 .. MaxCrashes

LEMMA TwoParts == UpdTypeOK <=> Flags /\ Data
<1>1. UpdTypeOK => Flags /\ Data  BY DEF UpdTypeOK, Flags, Data, Files
<1>2. Flags /\ Data => UpdTypeOK  BY DEF UpdTypeOK, Flags, Data, Files
<1> QED BY <1>1, <1>2

LEMMA TwoPartsNext == Flags' /\ Data' => UpdTypeOK'
BY DEF UpdTypeOK, Flags, Data, Files

LEMMA FlagsInit == UpdInit => Flags
BY DEF UpdInit, Flags

LEMMA DataInit == UpdInit => Data
<1> SUFFICES ASSUME UpdInit PROVE Data
  OBVIOUS
<1>1. [ver |-> 1, os |-> System] \in Contents
  BY UpdaterAssumption, SystemType DEF Contents
<1>2. agent \in {main, Absent} /\ stray \in {main, Absent}
  BY DEF UpdInit
<1>3. kind \in Kinds /\ manager \in {"systemd", "other", "none"}
  BY DEF UpdInit, Detected
<1> QED
  BY <1>1, <1>2, <1>3, UpdaterAssumption DEF UpdInit, Data, Files, Stages, Applying

LEMMA FlagsStep == Flags /\ [UpdNext]_updVars => Flags'
<1> SUFFICES ASSUME Flags, [UpdNext]_updVars PROVE Flags'
  OBVIOUS
<1> USE DEF Flags, hostVars, running, files, life, history, budget
<1>1. CASE CheckForNewVersion BY <1>1 DEF CheckForNewVersion
<1>2. CASE DownloadUpdate BY <1>2 DEF DownloadUpdate
<1>3. CASE VerifyUpdate BY <1>3 DEF VerifyUpdate
<1>4. CASE StopMainService BY <1>4 DEF StopMainService
<1>5. CASE MoveAside BY <1>5 DEF MoveAside
<1>6. CASE Replace BY <1>6 DEF Replace, RollBack
<1>7. CASE InstallPackage BY <1>7 DEF InstallPackage
<1>8. CASE StartMainService BY <1>8 DEF StartMainService, RollBack
<1>9. CASE Tidy BY <1>9 DEF Tidy
<1>10. CASE Terminate BY <1>10 DEF Terminate, Reap
<1>11. CASE Exit BY <1>11 DEF Exit, Reap
<1>12. CASE Die BY <1>12 DEF Die, Reap
<1>13. CASE Start BY <1>13 DEF Start
<1>14. CASE Reboot BY <1>14 DEF Reboot
<1>15. CASE Upgrade BY <1>15 DEF Upgrade
<1>16. CASE UNCHANGED updVars BY <1>16 DEF updVars
<1>17. CASE Renew BY <1>17 DEF Renew
<1> QED
  BY <1>1, <1>2, <1>3, <1>4, <1>5, <1>6, <1>7, <1>8, <1>9, <1>10, <1>11, <1>12, <1>13, <1>14, <1>15, <1>16, <1>17
  DEF UpdNext, UpdaterStep

LEMMA DataStep == Data /\ [UpdNext]_updVars => Data'
<1> SUFFICES ASSUME Data, [UpdNext]_updVars PROVE Data'
  OBVIOUS
<1>r. Released \in Contents
  BY UpdaterAssumption DEF Data, Released, Contents
<1>t. TryFails => temp' = Absent /\ at' \in {"download", "idle"} /\ tries' \in 0 .. MaxTries
  BY UpdaterAssumption DEF Data, TryFails
<1> USE UpdaterAssumption DEF Data, Files, Stages, Applying, Fault, Goto
<1>1. CASE CheckForNewVersion
  BY <1>1 DEF CheckForNewVersion, CleanupOldUpdates, hostVars, running, life, history, budget, progress
<1>2. CASE DownloadUpdate
  BY <1>2, <1>t, <1>r DEF DownloadUpdate, ProxmoxHTTPRequest, Answers, hostVars, running, life, budget
<1>3. CASE VerifyUpdate
  BY <1>3, <1>t DEF VerifyUpdate, ProxmoxHTTPRequest, Answers, hostVars, running, life, history, budget
<1>4. CASE StopMainService
  BY <1>4, <1>t DEF StopMainService, Stopped, hostVars, life, budget
<1>5. CASE MoveAside
  BY <1>5, <1>t DEF MoveAside, hostVars, running, life, budget
<1>6. CASE Replace
  BY <1>6, <1>t DEF Replace, RollBack, hostVars, running, life, budget
<1>7. CASE InstallPackage
  BY <1>7, <1>t, FileFields DEF InstallPackage, Scripts, StartOk, StartDirectly, Runs, Startable,
     hostVars, running, budget
<1>8. CASE StartMainService
  <2>1. UNCHANGED <<kind, manager, stopping, served, was>>
    BY <1>8 DEF StartMainService, hostVars, life
  <2>2. CASE (StartOk(main) \/ StartDirectly(main)) /\ UNCHANGED files
    <3>1. version' \in 1 .. MaxVersion /\ {agent', stray'} \subseteq Files
      BY <2>2, FileFields DEF StartOk, StartDirectly, Runs, Startable, running
    <3> QED BY <1>8, <2>1, <2>2, <3>1, <1>t DEF StartMainService, files, budget
  <2>3. CASE TryFails /\ UNCHANGED running /\ (UNCHANGED <<main, backup, bent>> \/ RollBack)
    <3>1. {main', backup'} \subseteq Files
      BY <2>3 DEF RollBack
    <3> QED BY <1>8, <2>1, <2>3, <3>1, <1>t DEF StartMainService, running, budget
  <2> QED BY <1>8, <2>2, <2>3 DEF StartMainService, files
<1>9. CASE Tidy
  BY <1>9 DEF Tidy, CleanupOldUpdates, hostVars, running, life, history, budget
<1>10. CASE Terminate \/ Exit \/ Die \/ Start \/ Renew
  BY <1>10 DEF Terminate, Exit, Die, Start, Renew, Reap, Crash, hostVars, files, running, progress, life, history, budget
<1>11. CASE Reboot
  BY <1>11, FileFields DEF Reboot, Crash, Startable, hostVars, files
<1>12. CASE Upgrade
  BY <1>12 DEF Upgrade, hostVars, files, running, progress, life, history, budget
<1>13. CASE UNCHANGED updVars
  BY <1>13 DEF updVars, hostVars, files, running, progress, life, history, budget
<1> QED
  BY <1>1, <1>2, <1>3, <1>4, <1>5, <1>6, <1>7, <1>8, <1>9, <1>10, <1>11, <1>12, <1>13
  DEF UpdNext, UpdaterStep

\* Every variable keeps its type; the attempts of an update are counted and end
\* (updater.go 449-476).
THEOREM UpdTypeCorrect == UpdSpec => []UpdTypeOK
<1>1. UpdInit => UpdTypeOK                          BY FlagsInit, DataInit, TwoParts
<1>2. UpdTypeOK /\ [UpdNext]_updVars => UpdTypeOK'  BY FlagsStep, DataStep, TwoParts, TwoPartsNext
<1> QED BY <1>1, <1>2, PTL DEF UpdSpec

LEMMA KindKept == [UpdNext]_updVars => kind' = kind
BY DEF UpdNext, UpdaterStep, CheckForNewVersion, DownloadUpdate, VerifyUpdate, StopMainService,
       MoveAside, Replace, InstallPackage, StartMainService, Tidy, Terminate, Exit, Die, Start,
       Renew, Reboot, Upgrade, updVars, hostVars

-----------------------------------------------------------------------------
(* What is installed *)

\* From the comparison of checksums to the exchange the download is what was released.
WholeInv ==
  /\ InstalledWhole
  /\ at \in {"stop", "aside", "replace", "install"} => temp \in Contents

LEMMA WholeInit == UpdInit => WholeInv
<1> SUFFICES ASSUME UpdInit PROVE WholeInv
  OBVIOUS
<1>1. [ver |-> 1, os |-> System] \in Contents
  BY UpdaterAssumption, SystemType DEF Contents
<1>2. agent \in {main, Absent} /\ stray \in {main, Absent}
  BY DEF UpdInit
<1> QED BY <1>1, <1>2 DEF UpdInit, WholeInv, InstalledWhole

LEMMA WholeStep == UpdTypeOK /\ WholeInv /\ [UpdNext]_updVars => WholeInv'
<1> SUFFICES ASSUME UpdTypeOK, WholeInv, [UpdNext]_updVars PROVE WholeInv'
  OBVIOUS
<1>r. Released \in Contents
  BY ReleasedType
<1>t. TryFails => at' \in {"download", "idle"}
  BY DEF TryFails
<1> USE DEF WholeInv, InstalledWhole, Fault, Goto
<1>1. CASE CheckForNewVersion
  BY <1>1 DEF CheckForNewVersion, CleanupOldUpdates, running, progress
<1>2. CASE DownloadUpdate
  BY <1>2, <1>t DEF DownloadUpdate, running
<1>3. CASE VerifyUpdate
  BY <1>3, <1>t, <1>r DEF VerifyUpdate, running
<1>4. CASE StopMainService
  BY <1>4, <1>t DEF StopMainService, Stopped
<1>5. CASE MoveAside
  BY <1>5, <1>t DEF MoveAside, running
<1>6. CASE Replace
  BY <1>6, <1>t DEF Replace, RollBack, running
<1>7. CASE InstallPackage
  BY <1>7, <1>t DEF InstallPackage, Scripts, StartOk, StartDirectly, Runs, running
<1>8. CASE StartMainService
  BY <1>8, <1>t DEF StartMainService, StartOk, StartDirectly, Runs, RollBack, files, running
<1>9. CASE Tidy
  BY <1>9 DEF Tidy, CleanupOldUpdates, running
<1>10. CASE Terminate \/ Exit \/ Die \/ Start \/ Renew
  BY <1>10 DEF Terminate, Exit, Die, Start, Renew, Reap, files, running, progress
<1>11. CASE Reboot
  BY <1>11 DEF Reboot, files
<1>12. CASE Upgrade
  BY <1>12 DEF Upgrade, files, running, progress
<1>13. CASE UNCHANGED updVars
  BY <1>13 DEF updVars, files, running, progress
<1> QED
  BY <1>1, <1>2, <1>3, <1>4, <1>5, <1>6, <1>7, <1>8, <1>9, <1>10, <1>11, <1>12, <1>13
  DEF UpdNext, UpdaterStep

\* Whatever fails, dies or is released meanwhile, what is installed, kept or run is what
\* the server released (updater.go 242-257).
THEOREM InstalledIsWhole == UpdSpec => []InstalledWhole
<1>1. UpdInit => UpdTypeOK /\ WholeInv
  BY FlagsInit, DataInit, TwoParts, WholeInit
<1>2. UpdTypeOK /\ WholeInv /\ [UpdNext]_updVars => UpdTypeOK' /\ WholeInv'
  BY FlagsStep, DataStep, TwoParts, TwoPartsNext, WholeStep
<1>3. WholeInv => InstalledWhole
  BY DEF WholeInv
<1> QED BY <1>1, <1>2, <1>3, PTL DEF UpdSpec

-----------------------------------------------------------------------------
(* What is left, and what runs *)

Usable == {c \in Contents : Startable(c)}

\* A host that gets the agent of its own system: what is in place or kept can be run, so
\* can a verified download, the two are never both missing, and what has just been put in
\* place is there.
LeftInv ==
  kind # "binary" =>
    /\ {main, backup} \subseteq Usable \cup {Absent}
    /\ main # Absent \/ backup # Absent
    /\ at \in {"stop", "aside", "replace", "install"} => temp \in Usable
    /\ at \in {"start", "tidy"} => main # Absent
    /\ at = "install" => kind = "package"
    /\ kind = "package" => main # Absent /\ at \notin {"aside", "replace"}

LEMMA LeftInit == UpdInit => LeftInv
<1> SUFFICES ASSUME UpdInit PROVE LeftInv
  OBVIOUS
<1>1. [ver |-> 1, os |-> System] \in Contents
  BY UpdaterAssumption, SystemType DEF Contents
<1> QED BY <1>1 DEF UpdInit, LeftInv, Usable, Startable, Absent

LEMMA ReleasedUsable ==
  ASSUME UpdTypeOK, kind # "binary" PROVE Released \in Usable
<1>1. kind \in {"windows", "package"}
  BY UpdaterAssumption DEF UpdTypeOK
<1> QED BY <1>1, ReleasedType DEF Usable, Startable, System, Released

LEMMA LeftStep == UpdTypeOK /\ LeftInv /\ [UpdNext]_updVars => LeftInv'
<1> SUFFICES ASSUME UpdTypeOK, LeftInv, [UpdNext]_updVars, kind' # "binary" PROVE LeftInv'
  BY DEF LeftInv
<1>k. kind' = kind
  BY KindKept
<1>u. Usable' = Usable
  BY <1>k DEF Usable, Startable, System, Contents
<1>r. Released \in Usable
  BY <1>k, ReleasedUsable
<1>a. Absent \notin Usable
  BY DEF Usable, Contents, Absent
<1>t. TryFails => at' \in {"download", "idle"}
  BY DEF TryFails
<1>w. kind \in {"windows", "package"}
  BY <1>k, UpdaterAssumption DEF UpdTypeOK
<1> USE <1>k, <1>u, <1>a DEF LeftInv, Fault, Goto
<1>1. CASE CheckForNewVersion
  BY <1>1, <1>w DEF CheckForNewVersion, CleanupOldUpdates, progress
<1>2. CASE DownloadUpdate
  BY <1>2, <1>t DEF DownloadUpdate
<1>3. CASE VerifyUpdate
  BY <1>3, <1>t, <1>r DEF VerifyUpdate
<1>4. CASE StopMainService
  BY <1>4, <1>t DEF StopMainService
<1>5. CASE MoveAside
  BY <1>5, <1>t DEF MoveAside
<1>6. CASE Replace
  BY <1>6, <1>t DEF Replace, RollBack
<1>7. CASE InstallPackage
  BY <1>7, <1>t DEF InstallPackage
<1>8. CASE StartMainService
  BY <1>8, <1>t, <1>w DEF StartMainService, RollBack, files
<1>9. CASE Tidy
  BY <1>9, <1>w DEF Tidy, CleanupOldUpdates
<1>10. CASE Terminate \/ Exit \/ Die \/ Start \/ Renew
  BY <1>10 DEF Terminate, Exit, Die, Start, Renew, Reap, files, progress
<1>11. CASE Reboot
  BY <1>11 DEF Reboot, files
<1>12. CASE Upgrade
  BY <1>12 DEF Upgrade, files, progress
<1>13. CASE UNCHANGED updVars
  BY <1>13 DEF updVars, files, progress
<1> QED
  BY <1>1, <1>2, <1>3, <1>4, <1>5, <1>6, <1>7, <1>8, <1>9, <1>10, <1>11, <1>12, <1>13
  DEF UpdNext, UpdaterStep

LEMMA LeftInductive ==
  /\ UpdInit => UpdTypeOK /\ LeftInv
  /\ UpdTypeOK /\ LeftInv /\ [UpdNext]_updVars => UpdTypeOK' /\ LeftInv'
BY FlagsInit, DataInit, TwoParts, LeftInit, FlagsStep, DataStep, TwoPartsNext, LeftStep

\* Wherever the updater fails or dies, the host keeps an agent it can run
\* (windows_updater/updater.go 150-178, unix_updater/updater.go 420-441).
THEOREM BinaryIsLeft == UpdSpec => []SomeBinaryLeft
<1>1. LeftInv => SomeBinaryLeft
  BY DEF LeftInv, SomeBinaryLeft, Usable
<1> QED BY <1>1, LeftInductive, PTL DEF UpdSpec

LEMMA DownInit == UpdInit => DownExplained
<1> SUFFICES ASSUME UpdInit PROVE DownExplained
  OBVIOUS
<1>1. agent = main \/ stray = main
  BY DEF UpdInit
<1>2. main # Absent
  BY SystemType DEF UpdInit, Absent
<1> QED BY <1>1, <1>2 DEF DownExplained

LEMMA DownStep ==
  UpdTypeOK /\ LeftInv /\ DownExplained /\ [UpdNext]_updVars => DownExplained'
<1> SUFFICES ASSUME UpdTypeOK, LeftInv, DownExplained, [UpdNext]_updVars,
                    kind # "binary"
             PROVE  (agent = Absent /\ stray = Absent)' => at' \in Applying \/ hurt' \/ taken'
  BY KindKept DEF DownExplained, Applying
<1>a. Absent \notin Usable
  BY DEF Usable, Contents, Absent
<1>s. \A c \in Usable : Startable(c) /\ c # Absent
  BY <1>a DEF Usable
<1>o. \A c \in Usable : StartOk(c) => agent' # Absent \/ stray' # Absent
  BY <1>s DEF StartOk, Runs
<1>d. \A c \in Usable : StartDirectly(c) => stray' # Absent
  BY <1>s DEF StartDirectly
<1> USE DEF DownExplained, Applying, Goto
<1>1. CASE CheckForNewVersion
  BY <1>1 DEF CheckForNewVersion, running, history
<1>2. CASE DownloadUpdate
  BY <1>2 DEF DownloadUpdate, running
<1>3. CASE VerifyUpdate
  BY <1>3 DEF VerifyUpdate, running, history
<1>4. CASE StopMainService
  BY <1>4 DEF StopMainService, Stopped
<1>5. CASE MoveAside
  BY <1>5 DEF MoveAside, running
<1>6. CASE Replace
  BY <1>6 DEF Replace, running
<1>7. CASE InstallPackage
  <2>1. {main, temp} \subseteq Usable
    BY <1>7 DEF InstallPackage, LeftInv
  <2>2. CASE Goto("start")
    BY <2>2
  <2>3. CASE main' \in {main, temp} /\ (StartOk(main') \/ StartDirectly(main'))
    BY <2>1, <2>3, <1>o, <1>d
  <2> QED BY <1>7, <2>2, <2>3 DEF InstallPackage
<1>8. CASE StartMainService
  <2>1. main \in Usable
    BY <1>8 DEF StartMainService, LeftInv
  <2> QED BY <1>8, <2>1, <1>o, <1>d DEF StartMainService
<1>9. CASE Tidy
  BY <1>9 DEF Tidy, running, history
<1>10. CASE Start \/ Renew
  BY <1>10 DEF Start, Renew, running, history, progress
<1>11. CASE Terminate \/ Exit \/ Die
  BY <1>11 DEF Terminate, Exit, Die, Reap, running, progress
<1>12. CASE Reboot
  <2>1. Startable(main) => main # Absent
    BY DEF Startable, Contents, Absent
  <2>2. CASE Startable(main)
    BY <1>12, <2>1, <2>2 DEF Reboot
  <2>3. CASE ~Startable(main)
    BY <1>12, <2>3 DEF Reboot
  <2> QED BY <2>2, <2>3
<1>13. CASE Upgrade
  BY <1>13 DEF Upgrade, running, history, progress
<1>14. CASE UNCHANGED updVars
  BY <1>14 DEF updVars, running, history, progress
<1> QED
  BY <1>1, <1>2, <1>3, <1>4, <1>5, <1>6, <1>7, <1>8, <1>9, <1>10, <1>11, <1>12, <1>13, <1>14
  DEF UpdNext, UpdaterStep

\* No agent runs only within an update, after one that was interrupted or failed while it was
\* applied, or when systemd has ended the updater that had started it: an agent that was
\* started does run, because what it was started from can (unix_updater/updater.go 345-441).
THEOREM DownIsExplained == UpdSpec => []DownExplained
BY LeftInductive, DownInit, DownStep, PTL DEF UpdSpec

-----------------------------------------------------------------------------
(* What an attempt that fails leaves *)

\* Where the binary an attempt found is, at each of its stages.
BackInv ==
  /\ RolledBack
  /\ kind # "package" =>
       /\ at # "install"
       /\ at \in {"verify", "stop", "aside"} => main = was
       /\ at \in {"replace", "start"} /\ was # Absent => backup = was

LEMMA BackInit == UpdInit => BackInv
BY DEF UpdInit, BackInv, RolledBack

LEMMA BackStep == UpdTypeOK /\ BackInv /\ [UpdNext]_updVars => BackInv'
<1> SUFFICES ASSUME UpdTypeOK, BackInv, [UpdNext]_updVars PROVE BackInv'
  OBVIOUS
<1>k. kind' = kind
  BY KindKept
<1>t. TryFails => at' \in {"download", "idle"}
  BY DEF TryFails
<1>1. CASE kind = "package"
  BY <1>1, <1>k DEF BackInv, RolledBack
<1>2. CASE kind # "package"
  <2> USE <1>2, <1>k DEF BackInv, RolledBack, Fault, Goto
  <2>1. CASE CheckForNewVersion
    BY <2>1 DEF CheckForNewVersion, progress
  <2>2. CASE DownloadUpdate
    BY <2>2, <1>t DEF DownloadUpdate
  <2>3. CASE VerifyUpdate
    BY <2>3, <1>t DEF VerifyUpdate, history
  <2>4. CASE StopMainService
    BY <2>4, <1>t DEF StopMainService
  <2>5. CASE MoveAside
    BY <2>5, <1>t DEF MoveAside
  <2>6. CASE Replace
    BY <2>6, <1>t DEF Replace, RollBack
  <2>7. CASE InstallPackage
    BY <2>7 DEF InstallPackage
  <2>8. CASE StartMainService
    BY <2>8, <1>t DEF StartMainService, RollBack, files
  <2>9. CASE Tidy
    BY <2>9 DEF Tidy
  <2>10. CASE Terminate \/ Exit \/ Die \/ Start \/ Renew
    BY <2>10 DEF Terminate, Exit, Die, Start, Renew, Reap, files, progress, history
  <2>11. CASE Reboot
    BY <2>11 DEF Reboot
  <2>12. CASE Upgrade
    BY <2>12 DEF Upgrade, files, progress, history
  <2>13. CASE UNCHANGED updVars
    BY <2>13 DEF updVars, files, progress, history
  <2> QED
    BY <2>1, <2>2, <2>3, <2>4, <2>5, <2>6, <2>7, <2>8, <2>9, <2>10, <2>11, <2>12, <2>13
    DEF UpdNext, UpdaterStep
<1> QED BY <1>1, <1>2

\* An attempt that fails leaves the binary it found in place, unless putting it back failed
\* (updater.go 400-414, windows_updater/updater.go 161-173).
THEOREM AttemptRollsBack == UpdSpec => []RolledBack
<1>1. UpdInit => UpdTypeOK /\ BackInv
  BY FlagsInit, DataInit, TwoParts, BackInit
<1>2. UpdTypeOK /\ BackInv /\ [UpdNext]_updVars => UpdTypeOK' /\ BackInv'
  BY FlagsStep, DataStep, TwoParts, TwoPartsNext, BackStep
<1>3. BackInv => RolledBack
  BY DEF BackInv
<1> QED BY <1>1, <1>2, <1>3, PTL DEF UpdSpec
=============================================================================
