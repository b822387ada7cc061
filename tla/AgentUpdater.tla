----------------------------- MODULE AgentUpdater -----------------------------
(***************************************************************************)
(* The updater beside an agent: every two minutes it compares the version  *)
(* the agent wrote down when it started with the server's, downloads the   *)
(* agent, verifies it and puts it in the place of the one that is there,   *)
(* with the agent stopped.  The updater can die between any two steps, be  *)
(* told to stop (the packages' own scripts do so), be refused by the       *)
(* server, and the host can reboot.                                        *)
(***************************************************************************)
EXTENDS Naturals

CONSTANTS
  Kinds,       \* hosts: "windows", "package" (Unix with dpkg, rpm, apk or opkg), "binary" (Unix without)
  MaxVersion,  \* bound: versions the server goes through
  MaxTries,    \* maxUpdateRetries
  MaxFaults,   \* bound: failing requests, renames and commands
  MaxCrashes   \* bound: deaths and terminations of the updater, renewals and reboots

ASSUME UpdaterAssumption ==
  /\ Kinds \subseteq {"windows", "package", "binary"}
  /\ {MaxVersion, MaxTries} \subseteq Nat \ {0}
  /\ {MaxFaults, MaxCrashes} \subseteq Nat

VARIABLES
  kind,       \* what host this is
  manager,    \* its service manager: systemd, another one the updater knows, or none
  served,     \* version of the server, and of what it hands out
  main,       \* pbs-plus-agent
  backup,     \* pbs-plus-agent.backup
  temp,       \* the file a download is written to
  agent,      \* the agent the service manager runs
  stray,      \* an agent that was started without it: a child of the updater, or an orphan
  version,    \* version.txt
  at, tries,  \* where checkAndUpdate stands, and in which of its attempts
  stopping,   \* the updater has got SIGTERM, or its service the order to stop, or to restart
  lock,       \* its lock file, or the mutex with its name, is there
  due,        \* the service manager is to start it
  known,      \* the server knows the certificate its process presents
  was,        \* history: what was in place when the current attempt began
  bent,       \* history: putting that back has failed
  hurt,       \* history: an update was interrupted, or failed, with the agent stopped
  taken,      \* history: the only agent was a child of the updater and ended with it
  faults, crashes

hostVars == <<kind, manager>>
files == <<main, backup, temp>>
running == <<agent, stray, version>>
progress == <<at, tries>>
life == <<stopping, lock, due, known>>
history == <<was, bent, hurt, taken>>
budget == <<faults, crashes>>
updVars == <<hostVars, served, files, running, progress, life, history, budget>>

Absent == [ver |-> 0, os |-> "none"]
Page == [ver |-> 0, os |-> "page"]  \* what the server answers when it has no such file
Contents == [ver : 1 .. MaxVersion, os : {"unix", "windows"}]
System == IF kind = "windows" THEN "windows" ELSE "unix"
Startable(c) == c \in Contents /\ c.os = System

\* parsePlatformParams: a binary is the one for Windows, unless the request says os=linux,
\* which the updater of Unix does not say.
Released == [ver |-> served, os |-> IF kind = "package" THEN "unix" ELSE "windows"]

Applying == {"aside", "replace", "install", "start"}
Stages == {"off", "idle", "download", "verify", "stop", "tidy"} \cup Applying

managed == manager # "none"

\* detectPackageInfo and detectServiceManager: the commands found on the host say what it is.
Detected ==
  /\ kind \in Kinds
  /\ manager \in IF kind = "windows" THEN {"other"} ELSE {"systemd", "other", "none"}

UpdInit ==
  /\ Detected
  /\ served = 1
  /\ main = [ver |-> 1, os |-> System] /\ backup = Absent /\ temp = Absent
  /\ \/ managed /\ agent = main /\ stray = Absent
     \/ ~managed /\ agent = Absent /\ stray = main
  /\ version = 1
  /\ at = "idle" /\ tries = 0
  /\ stopping = "no" /\ lock = TRUE /\ due = FALSE /\ known = TRUE
  /\ was = main /\ bent = FALSE /\ hurt = FALSE /\ taken = FALSE
  /\ faults = 0 /\ crashes = 0

Fault == faults < MaxFaults /\ faults' = faults + 1 /\ UNCHANGED crashes
Crash == crashes < MaxCrashes /\ crashes' = crashes + 1 /\ UNCHANGED faults
Goto(stage) == at' = stage /\ UNCHANGED tries

\* tryUpdate returns an error: its file is removed, and performUpdate tries again or gives up.
TryFails ==
  /\ temp' = Absent
  /\ IF tries < MaxTries THEN at' = "download" /\ tries' = tries + 1
                         ELSE at' = "idle" /\ tries' = 0

-----------------------------------------------------------------------------
(* checkAndUpdate *)

\* Backups older than two days go; a rename keeps the age of the binary, so that a backup
\* made a moment ago can be old.  On Windows they are looked for where there are none.
CleanupOldUpdates ==
  /\ backup' \in IF kind = "windows" THEN {backup} ELSE {backup, Absent}

\* The version is only told to who is known.
CheckForNewVersion ==
  /\ at = "idle" /\ known
  /\ \/ /\ served # version
        /\ at' = "download" /\ tries' = 1
        /\ UNCHANGED backup
     \/ /\ served = version
        /\ CleanupOldUpdates
        /\ UNCHANGED progress
  /\ UNCHANGED <<hostVars, served, main, temp, running, life, history, budget>>

Answers == {"body", "page", "error"}

\* A request to the server.  Only one that cannot be sent, or gets no answer in time, is an
\* error: the status of an answer is not looked at, and an error page is a body too.
ProxmoxHTTPRequest(answer) ==
  \/ answer = "body" /\ UNCHANGED budget
  \/ answer \in {"page", "error"} /\ Fault

DownloadUpdate ==
  /\ at = "download"
  /\ \E answer \in Answers :
       /\ ProxmoxHTTPRequest(answer)
       /\ IF answer = "error"
          THEN TryFails
          ELSE temp' = (IF answer = "page" THEN Page ELSE Released) /\ Goto("verify")
  /\ was' = main /\ bent' = FALSE
  /\ UNCHANGED <<hostVars, served, main, backup, running, life, hurt, taken>>

\* Mutant: the checksum is fetched but not compared.
VerifyUpdateIgnored ==
  /\ at = "verify"
  /\ \E answer \in Answers :
       /\ ProxmoxHTTPRequest(answer)
       /\ IF answer = "error" THEN TryFails ELSE Goto("stop") /\ UNCHANGED temp
  /\ UNCHANGED <<hostVars, served, main, backup, running, life, history>>

\* The checksum comes with a request of its own: it is that of what the server hands out now,
\* and only for who is known, while anyone can have the binary.
VerifyUpdate ==
  /\ at = "verify"
  /\ \E answer \in Answers :
       /\ ProxmoxHTTPRequest(answer)
       /\ IF answer = "body" /\ known /\ temp = Released THEN Goto("stop") /\ UNCHANGED temp
                                                         ELSE TryFails
  /\ UNCHANGED <<hostVars, served, main, backup, running, life, history>>

-----------------------------------------------------------------------------
(* Stopping and starting the agent *)

\* stopMainService of Unix: the manager's command, which leaves alone what it did not
\* start; or, when there is none, it fails, or it cannot be seen to have worked, every
\* process with the name of the agent.
Stopped ==
  \/ managed /\ agent' = Absent /\ UNCHANGED stray
  \/ agent' = Absent /\ stray' = Absent

StopMainService ==
  /\ at = "stop"
  /\ \/ /\ kind # "windows"
        /\ Stopped
        /\ Goto(IF kind = "package" THEN "install" ELSE "aside")
        /\ UNCHANGED <<temp, hurt, budget>>
     \/ \* "sc stop" of a service that runs
        /\ kind = "windows" /\ agent # Absent
        /\ agent' = Absent /\ UNCHANGED stray
        /\ Goto("aside")
        /\ UNCHANGED <<temp, hurt, budget>>
     \/ \* of one that does not is an error
        /\ kind = "windows" /\ agent = Absent
        /\ TryFails
        /\ UNCHANGED <<agent, stray, hurt, budget>>
     \/ \* it does not stop in time, but may later
        /\ kind = "windows" /\ agent # Absent
        /\ Fault /\ TryFails
        /\ agent' \in {agent, Absent} /\ UNCHANGED stray
        /\ hurt' = (agent' = Absent)
  /\ UNCHANGED <<hostVars, served, main, backup, version, life, was, bent, taken>>

\* Mutant: an agent does not write its version down when it starts.
RunsUnrecorded(c) ==
  /\ UNCHANGED version
  /\ IF managed THEN agent' = c /\ UNCHANGED stray ELSE stray' = c /\ UNCHANGED agent

\* An agent started by the service manager or, where there is none, by the updater: before
\* anything else it writes its version down.
Runs(c) ==
  /\ version' = c.ver
  /\ IF managed THEN agent' = c /\ UNCHANGED stray ELSE stray' = c /\ UNCHANGED agent

\* startMainService returns nil: the agent runs; or a service manager reports success
\* although the program could not be executed ...
StartOk(c) ==
  \/ Startable(c) /\ Runs(c)
  \/ managed /\ kind # "windows" /\ c # Absent /\ ~Startable(c) /\ UNCHANGED running

\* ... or the command of the manager fails and the program is started directly.
StartDirectly(c) ==
  /\ managed /\ kind # "windows" /\ Startable(c)
  /\ version' = c.ver /\ stray' = c /\ UNCHANGED agent

-----------------------------------------------------------------------------
(* applyUpdate: binaries are exchanged, packages are installed *)

\* Mutant: the old binary is deleted, to make room for the new one.
MoveAsideDeletes ==
  /\ at = "aside"
  /\ main' = Absent
  /\ Goto("replace")
  /\ UNCHANGED <<hostVars, served, backup, temp, running, life, history, budget>>

\* main -> backup.  That there is no main is an error on Windows only.
MoveAside ==
  /\ at = "aside"
  /\ \/ /\ main # Absent
        /\ backup' = main /\ main' = Absent
        /\ Goto("replace") /\ UNCHANGED <<temp, hurt, budget>>
     \/ /\ main = Absent /\ kind # "windows"
        /\ Goto("replace") /\ UNCHANGED <<main, backup, temp, hurt, budget>>
     \/ /\ main = Absent /\ kind = "windows"
        /\ TryFails /\ hurt' = TRUE
        /\ UNCHANGED <<main, backup, budget>>
     \/ /\ Fault /\ TryFails /\ hurt' = TRUE
        /\ UNCHANGED <<main, backup>>
  /\ UNCHANGED <<hostVars, served, running, life, was, bent, taken>>

\* Mutant: what a failing step has replaced is left in place.
RollBackForgotten == UNCHANGED <<main, backup, bent>>

\* backup -> main; its error is not looked at, and the agent is not started again.
RollBack ==
  \/ /\ backup # Absent
     /\ main' = backup /\ backup' = Absent
     /\ UNCHANGED bent
  \/ /\ backup = Absent \/ faults + 1 < MaxFaults
     /\ bent' = (backup # Absent)
     /\ UNCHANGED <<main, backup>>

\* temp -> main
Replace ==
  /\ at = "replace"
  /\ \/ /\ main' = temp /\ temp' = Absent
        /\ Goto("start") /\ UNCHANGED <<backup, bent, hurt, budget>>
     \/ /\ Fault /\ RollBack /\ TryFails /\ hurt' = TRUE
  /\ UNCHANGED <<hostVars, served, running, life, was, taken>>

\* Mutant: after an installation that has failed the agent is not started.
InstallPackageNoStart ==
  /\ at = "install"
  /\ \/ main' = temp /\ Goto("start") /\ UNCHANGED <<temp, budget>>
     \/ Fault /\ main' \in {main, temp} /\ TryFails
  /\ UNCHANGED <<hostVars, served, backup, running, life, history>>

\* The scripts of a package start the agent, or with systemd restart both services, if they
\* get that far.
Scripts(c) ==
  \/ UNCHANGED <<running, stopping>>
  \/ /\ managed /\ Startable(c) /\ Runs(c)
     /\ stopping' = IF manager = "systemd" THEN "restart" ELSE stopping

\* The package manager replaces the binary, or fails before or after it has, or is told to
\* stop by its own scripts, as a child of the updater.  When it fails the agent is started,
\* whatever comes of it.
InstallPackage ==
  /\ at = "install"
  /\ \/ /\ main' = temp /\ Scripts(temp)
        /\ Goto("start")
        /\ UNCHANGED <<temp, hurt, budget>>
     \/ /\ manager = "systemd" /\ stopping' = "restart"
        /\ main' = temp /\ StartOk(temp)
        /\ TryFails
        /\ UNCHANGED <<hurt, budget>>
     \/ /\ Fault
        /\ main' \in {main, temp}
        /\ TryFails
        /\ \/ StartOk(main') /\ UNCHANGED hurt
           \/ faults + 1 < MaxFaults /\ StartDirectly(main') /\ UNCHANGED hurt
           \/ faults + 1 < MaxFaults /\ hurt' = TRUE /\ UNCHANGED running
        /\ UNCHANGED stopping
  /\ UNCHANGED <<hostVars, served, backup, lock, due, known, was, bent, taken>>

StartMainService ==
  /\ at = "start"
  /\ \/ /\ \/ StartOk(main) /\ UNCHANGED budget
           \/ Fault /\ StartDirectly(main)
        /\ Goto("tidy") /\ hurt' = FALSE /\ taken' = FALSE
        /\ UNCHANGED <<files, bent>>
     \/ \* it fails, for good reason or not
        /\ IF Startable(main) THEN Fault ELSE UNCHANGED budget
        /\ IF kind = "package" THEN UNCHANGED <<main, backup, bent>> ELSE RollBack
        /\ TryFails /\ hurt' = TRUE
        /\ UNCHANGED <<running, taken>>
  /\ UNCHANGED <<hostVars, served, life, was>>

\* Backup and file go, and old files are looked for.
Tidy ==
  /\ at = "tidy"
  /\ IF kind = "package" THEN CleanupOldUpdates ELSE backup' = Absent
  /\ temp' = Absent
  /\ at' = "idle" /\ tries' = 0
  /\ UNCHANGED <<hostVars, served, main, running, life, history, budget>>

-----------------------------------------------------------------------------
(* What happens to updater, host and server *)

\* systemd ends what the updater has started together with it: the units set no KillMode.
Reap ==
  /\ stray' = IF manager = "systemd" THEN Absent ELSE stray
  /\ taken' = (taken \/ (stray' # stray /\ agent = Absent))
  /\ UNCHANGED <<agent, version>>

\* SIGTERM, or the service is stopped: the update under way is finished first ...
Terminate ==
  /\ at # "off" /\ stopping = "no"
  /\ Crash
  /\ stopping' = "stop"
  /\ Reap \/ UNCHANGED <<running, taken>>
  /\ UNCHANGED <<hostVars, served, files, progress, lock, due, known, was, bent, hurt>>

\* ... then the lock is released.  That was not a failure: systemd starts it again only when
\* it was told to restart it.
Exit ==
  /\ at = "idle" /\ stopping # "no"
  /\ at' = "off" /\ UNCHANGED tries
  /\ lock' = FALSE /\ stopping' = "no" /\ due' = (stopping = "restart")
  /\ Reap
  /\ UNCHANGED <<hostVars, served, files, known, was, bent, hurt, budget>>

\* It is killed, or panics: only Windows takes the lock back, and does not start it again.
Die ==
  /\ at # "off"
  /\ Crash
  /\ at' = "off" /\ tries' = 0
  /\ lock' = (kind # "windows") /\ stopping' = "no" /\ due' = FALSE
  /\ hurt' = (hurt \/ at \in Applying)
  /\ Reap
  /\ UNCHANGED <<hostVars, served, files, known, was, bent>>

\* It is started, due or not: createLockFile or createMutex, and the first check.  Its new
\* process presents the certificate of the moment, which the server may or may not know.
Start ==
  /\ at = "off" /\ ~lock
  /\ at' = "idle" /\ UNCHANGED tries
  /\ lock' = TRUE /\ due' = FALSE /\ known' \in BOOLEAN
  /\ UNCHANGED <<hostVars, served, files, running, stopping, history, budget>>

\* The agent renews the certificate, or its target changes: the server does not know the one
\* the updater presents any more.
Renew ==
  /\ at # "off" /\ known
  /\ Crash
  /\ known' = FALSE
  /\ UNCHANGED <<hostVars, served, files, running, progress, stopping, lock, due, history>>

\* The files stay, but for the lock in /var/lock; both services are started.
Reboot ==
  /\ Crash
  /\ agent' = IF managed /\ Startable(main) THEN main ELSE Absent
  /\ stray' = IF ~managed /\ Startable(main) THEN main ELSE Absent
  /\ version' = IF Startable(main) THEN main.ver ELSE version
  /\ at' = "off" /\ tries' = 0
  /\ lock' = FALSE /\ stopping' = "no" /\ due' = TRUE
  /\ hurt' = ~Startable(main) /\ taken' = FALSE
  /\ UNCHANGED <<hostVars, served, files, known, was, bent>>

Upgrade ==
  /\ served < MaxVersion
  /\ served' = served + 1
  /\ UNCHANGED <<hostVars, files, running, progress, life, history, budget>>

UpdaterStep ==
  \/ CheckForNewVersion \/ DownloadUpdate \/ VerifyUpdate
  \/ StopMainService \/ MoveAside \/ Replace \/ InstallPackage \/ StartMainService \/ Tidy
  \/ Exit

UpdNext == UpdaterStep \/ Start \/ Terminate \/ Die \/ Renew \/ Reboot \/ Upgrade

UpdSpec == UpdInit /\ [][UpdNext]_updVars

\* The ticker ticks and every command, request and wait of the updater has a time limit;
\* the service manager does what it is to do.  An updater that is told to stop while a tick is
\* pending takes either, at random: it does not take the tick for ever.
FairUpdSpec ==
  UpdSpec /\ WF_updVars(UpdaterStep) /\ WF_updVars(due /\ Start) /\ SF_updVars(Exit)

-----------------------------------------------------------------------------
(* Properties *)

UpdTypeOK ==
  /\ kind \in Kinds /\ served \in 1 .. MaxVersion
  /\ {main, backup, agent, stray, was} \subseteq Contents \cup {Absent, Page}
  /\ temp \in Contents \cup {Absent, Page}
  /\ version \in 1 .. MaxVersion
  /\ at \in Stages /\ tries \in 0 .. MaxTries
  /\ manager \in {"systemd", "other", "none"} /\ stopping \in {"no", "stop", "restart"}
  /\ {lock, due, known, bent, hurt, taken} \subseteq BOOLEAN
  /\ faults \in 0 .. MaxFaults /\ crashes \in 0 .. MaxCrashes

\* What is put in the agent's place, or kept to be put back, is what the server released,
\* although a failing request leaves its error page in the file of the download and the
\* server may change between download and checksum (updater.go 242-257).
InstalledWhole == {main, backup, agent, stray} \subseteq Contents \cup {Absent}

\* Whatever fails and wherever the updater dies, the host has an agent it can run, in place
\* or as the backup (windows_updater/updater.go 150-178, unix_updater/updater.go 420-441).
\* Not so on Unix without a package manager, where the server hands out the Windows agent
\* (unix_updater/updater.go 179 and 225 send no os).
SomeBinaryLeft == kind # "binary" => Startable(main) \/ Startable(backup)

\* No agent runs only while an update is being applied, or after one that was interrupted
\* or that failed, or when the updater had started the agent itself and systemd has ended both:
\* a download or a checksum that fails, or a refusal, costs nothing.
DownExplained ==
  kind # "binary" /\ agent = Absent /\ stray = Absent => at \in Applying \/ hurt \/ taken

\* An attempt that fails leaves the binary it found in place, unless the rename that puts it
\* back fails as well (updater.go 400-414, windows_updater/updater.go 161-173).
RolledBack ==
  kind # "package" /\ at = "download" /\ tries > 1 /\ was # Absent /\ ~bent => main = was

Current == \E c \in {agent, stray} : c.ver = served

\* Nobody is going to start the updater, or it cannot start for the lock of a dead one.
Gone == at = "off" /\ (lock \/ ~due)

\* Once the server stays at a version, its agent runs, with these exceptions: the updater has
\* stopped or died, and no service manager brings it back; the server does not know its
\* certificate; on Unix with a package manager, the new agent has started, and written down its
\* version, before an attempt that fails to start it or systemd ends it, and nothing tries any
\* more; on Windows, an update has left the agent stopped, and every later one fails to stop it.
CatchesUp ==
  \/ kind = "binary"
  \/ <>[]Current \/ <>[]Gone \/ <>[]~known
  \/ kind = "package" /\ <>[]((hurt \/ taken) /\ version = served)
  \/ kind = "windows" /\ <>[]hurt
=============================================================================
