-------------------------------- MODULE RemoteFS --------------------------------
(***************************************************************************)
(* What the kernel does with one object of a mounted backup source: it     *)
(* reads a file, lists a directory, or asks for attributes.  The three do  *)
(* not share state other than the session, whose loss each one models, so  *)
(* a behaviour is about one of them.                                       *)
(***************************************************************************)
EXTENDS RemoteFile, RemoteDir, RemoteAttrs

VARIABLE use  \* "file", "dir" or "attrs"

remoteVars == <<use, wireVars, fileVars, dirVars, attrVars>>

\* What is not looked at starts in one way only.
Idle(u) == use # u
RemoteInit ==
  /\ use \in {"file", "dir", "attrs"}
  /\ WireInit /\ FileInit /\ DirInit /\ AttrInit
  /\ Idle("file") => agent = "unix" /\ disk.data = {}
  /\ Idle("dir") => bulk /\ hidden = {}
  /\ Idle("attrs") => object = CHOOSE o \in Objects : TRUE

Lose ==
  /\ Up /\ faults < MaxFaults /\ faults' = faults + 1
  /\ conn' = "down"
  /\ UNCHANGED <<agent, fileVars>>

UseFile == use = "file" /\ (FileNext \/ Lose) /\ UNCHANGED <<use, dirVars, attrVars>>
UseDir == use = "dir" /\ DirNext /\ UNCHANGED <<use, wireVars, fileVars, attrVars>>
UseAttrs == use = "attrs" /\ AttrNext /\ UNCHANGED <<use, wireVars, fileVars, dirVars>>

RemoteSpec ==
  /\ RemoteInit /\ [][UseFile \/ UseDir \/ UseAttrs]_remoteVars
  /\ FileFairness /\ DirFairness

\* The state of each part is of its type.
RemoteTypeOK == FileTypeOK /\ DirTypeOK /\ AttrTypeOK

\* Nothing stays open at the agent that nobody will close, but for the causes the two name: a
\* handle of a file only when its open or close was lost or is still to be handled, that of
\* a directory also when it was listed to its end (fs.go 127, dir.go 147).
HandlesLeft == HandleLeft /\ DirHandleLeft

\* A read and a READDIR are answered in the end, however they end: no caller waits for a
\* stream without an end (call.go 166).
RequestsAnswered == ReadsAnswered /\ ReaddirReturns
=============================================================================
