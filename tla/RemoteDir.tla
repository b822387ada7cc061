-------------------------------- MODULE RemoteDir --------------------------------
(***************************************************************************)
(* One listing of a directory of a mounted backup source, from the         *)
(* kernel's READDIR requests to the agent.                                 *)
(*                                                                         *)
(* go-fuse serves a READDIR by calling HasNext and Next of the client's    *)
(* DirStream until there is no next entry or the buffer is full; the       *)
(* kernel repeats READDIR until one gives nothing.  HasNext fetches a      *)
(* batch when its last one is used up.  A Windows agent goes through the   *)
(* directory in batches and leaves entries out of them by their            *)
(* attributes; a Unix agent sends everything in one batch.                 *)
(***************************************************************************)
EXTENDS RemoteCalls, SequencesExt

CONSTANTS
  Entries,        \* the directory has the entries 1 .. Entries, in this order
  Batch,          \* entries a Windows agent reads at once
  Buffer,         \* entries that fit the answer to a READDIR
  MaxDirEntries,  \* the limit of the job
  DirFaults       \* bound: calls that fail

ASSUME DirAssumption ==
  /\ Entries \in Nat /\ Batch \in Nat \ {0} /\ Buffer \in Nat \ {0}
  /\ MaxDirEntries \in Nat /\ DirFaults \in Nat

VARIABLES
  bulk,      \* a Unix agent
  hidden,    \* the entries the agent leaves out
  mounted,   \* the session is up
  failed,    \* calls that have failed
  dir,       \* the listing: stage of the kernel's request
  got,       \* entries the present READDIR has
  over,      \* the entry that did not fit the last one
  lastResp,  \* the client's DirStream: entries fetched and not yet returned
  total,     \* totalReturned
  closed,    \* closed: read to its end, or closed
  calls,     \* requests that the agent has yet to handle
  reader,    \* the agent's handle: whether it is open, how far it has read
  answer,    \* the agent's answer to the present ReadDir call
  listed,    \* the entries the kernel was given
  why,       \* history: how the listing came to its end
  stray      \* history: an OpenFile that was given up has been served, or a Close was lost

dirVars == <<bulk, hidden, mounted, failed, dir, got, over, lastResp, total, closed, calls,
             reader, answer, listed, why, stray>>

NoEntry == 0
DirInit ==
  /\ bulk \in BOOLEAN /\ hidden \in SUBSET (1 .. Entries) /\ mounted = TRUE /\ failed = 0
  /\ dir = "none" /\ got = 0 /\ over = NoEntry
  /\ lastResp = <<>> /\ total = 0 /\ closed = FALSE /\ calls = {}
  /\ reader = [open |-> FALSE, at |-> 0, end |-> FALSE] /\ answer = <<>>
  /\ listed = <<>> /\ why = {} /\ stray = FALSE

\* The entries behind a up to b, without those that the agent leaves out.
Visible(a, b) ==
  LET upto[i \in Nat] == IF i <= a THEN <<>>
                         ELSE IF i \in hidden THEN upto[i - 1] ELSE Append(upto[i - 1], i)
  IN upto[b]
DirFault == failed < DirFaults /\ failed' = failed + 1
Upto(a, b) == IF a < b THEN a ELSE b

-----------------------------------------------------------------------------
(* The agent *)

HandleOpenDir ==
  /\ mounted /\ OpenFileReq \in calls
  /\ calls' = calls \ {OpenFileReq}
  /\ reader' = [open |-> TRUE, at |-> 0, end |-> FALSE]
  /\ dir' = IF dir = "opening" THEN "idle" ELSE dir
  /\ stray' = (stray \/ dir # "opening")
  /\ UNCHANGED <<bulk, hidden, mounted, failed, got, over, lastResp, total, closed, answer, listed, why>>

HandleCloseDir ==
  /\ mounted /\ CloseReq \in calls
  /\ calls' = calls \ {CloseReq}
  /\ reader' = [reader EXCEPT !.open = FALSE]
  /\ dir' = "released"
  /\ UNCHANGED <<bulk, hidden, mounted, failed, got, over, lastResp, total, closed, answer, listed, why, stray>>

\* The next entries of the directory, those with excluded attributes left out: a batch may be
\* empty.  When there are none left, ErrProcessDone.
NextBatch ==
  LET b == Upto(reader.at + Batch, Entries)
  IN /\ answer' = IF reader.at = Entries THEN ErrProcessDone ELSE Visible(reader.at, b)
     /\ reader' = [reader EXCEPT !.at = b, !.end = (reader.at = Entries)]

\* All entries at once; dirReturned is set before they are sent.
ReadDirBulk ==
  /\ answer' = IF reader.end THEN ErrProcessDone ELSE Visible(0, Entries)
  /\ reader' = [reader EXCEPT !.at = Entries, !.end = TRUE]

HandleReadDir ==
  /\ mounted /\ dir = "asking" /\ reader.open
  /\ IF bulk THEN ReadDirBulk ELSE NextBatch
  /\ dir' = "answered"
  /\ UNCHANGED <<bulk, hidden, mounted, failed, got, over, lastResp, total, closed, calls, listed, why, stray>>

-----------------------------------------------------------------------------
(* The client *)

\* Readdir of the FUSE node: a handle is opened for the listing.
OpenDir ==
  /\ dir = "none" /\ mounted
  /\ dir' = "opening" /\ calls' = calls \cup {OpenFileReq}
  /\ UNCHANGED <<bulk, hidden, mounted, failed, got, over, lastResp, total, closed, reader, answer, listed, why, stray>>

OpenDirFails ==
  /\ dir = "opening"
  /\ \/ DirFault /\ calls' \in {calls, calls \ {OpenFileReq}}
     \/ ~mounted /\ calls' = {} /\ UNCHANGED failed
  /\ dir' = "released"
  /\ UNCHANGED <<bulk, hidden, mounted, got, over, lastResp, total, closed, reader, answer, listed, why, stray>>

\* A READDIR begins with the entry that did not fit the last one.
Readdir ==
  /\ dir = "idle"
  /\ dir' = "reading"
  /\ got' = IF over = NoEntry THEN 0 ELSE 1
  /\ listed' = IF over = NoEntry THEN listed ELSE Append(listed, over)
  /\ over' = NoEntry
  /\ UNCHANGED <<bulk, hidden, mounted, failed, lastResp, total, closed, calls, reader, answer, why, stray>>

\* The READDIR ends here: with nothing, the kernel takes the directory to be at its end.
ReturnWith(n, reasons) ==
  /\ dir' = IF n = 0 THEN "end" ELSE "idle"
  /\ why' = IF n = 0 THEN why \cup reasons ELSE why

MayGoOn == dir = "reading" /\ ~closed /\ total < MaxDirEntries

NextEntry ==
  /\ MayGoOn /\ lastResp # <<>>
  /\ lastResp' = Tail(lastResp) /\ total' = total + 1
  /\ IF got < Buffer
     THEN /\ got' = got + 1 /\ listed' = Append(listed, Head(lastResp))
          /\ UNCHANGED <<dir, over, why>>
     ELSE /\ over' = Head(lastResp) /\ ReturnWith(got, {})
          /\ UNCHANGED <<got, listed>>
  /\ UNCHANGED <<bulk, hidden, mounted, failed, closed, calls, reader, answer, stray>>

HasNextCalls ==
  /\ MayGoOn /\ lastResp = <<>>
  /\ dir' = "asking"
  /\ UNCHANGED <<bulk, hidden, mounted, failed, got, over, lastResp, total, closed, calls, reader, answer, listed, why, stray>>

\* The stream is closed, or the limit is reached: logged, and no more.
HasNextStops ==
  /\ dir = "reading" /\ (closed \/ total >= MaxDirEntries)
  /\ ReturnWith(got, IF closed THEN {} ELSE {"limit"})
  /\ UNCHANGED <<bulk, hidden, mounted, failed, got, over, lastResp, total, closed, calls, reader, answer, listed, stray>>

\* ErrProcessDone closes the stream; a batch without entries ends the READDIR as if it did.
HasNextAnswered ==
  /\ dir = "answered"
  /\ IF answer = ErrProcessDone
     THEN /\ closed' = TRUE /\ dir' = (IF got = 0 THEN "end" ELSE "idle") /\ why' = why \cup {"read"}
          /\ UNCHANGED lastResp
     ELSE /\ lastResp' = answer
          /\ IF answer = <<>> THEN ReturnWith(got, {"filtered"}) ELSE dir' = "reading" /\ UNCHANGED why
          /\ UNCHANGED closed
  /\ answer' = <<>>
  /\ UNCHANGED <<bulk, hidden, mounted, failed, got, over, total, calls, reader, listed, stray>>

\* Mutant: an error ends the stream like ErrProcessDone.
HasNextFailsForGood ==
  /\ \/ dir \in {"asking", "answered"} /\ ~mounted /\ UNCHANGED failed
     \/ dir = "asking" /\ mounted /\ DirFault
  /\ answer' = <<>> /\ closed' = TRUE /\ ReturnWith(got, {"error"})
  /\ UNCHANGED <<bulk, hidden, mounted, got, over, lastResp, total, calls, reader, listed, stray>>

\* The agent cannot read the directory, or the session is lost: logged, and the READDIR ends as
\* if there were no more.  One that has entries is followed by another, which asks again.
\* That what NtQueryDirectoryFile returned cannot be walked through is left out.
HasNextFails ==
  /\ \/ dir \in {"asking", "answered"} /\ ~mounted /\ UNCHANGED failed
     \/ dir = "asking" /\ mounted /\ DirFault
  /\ answer' = <<>> /\ ReturnWith(got, {"error"})
  /\ UNCHANGED <<bulk, hidden, mounted, got, over, lastResp, total, closed, calls, reader, listed, stray>>

\* The kernel has seen the end, or the user of the directory has had enough.  A stream that is
\* closed is not closed again: the agent is not told.
CloseDir ==
  /\ dir \in {"idle", "end"}
  /\ closed' = TRUE
  /\ IF closed THEN dir' = "released" /\ UNCHANGED calls
               ELSE dir' = "closing" /\ calls' = calls \cup {CloseReq}
  /\ UNCHANGED <<bulk, hidden, mounted, failed, got, over, lastResp, total, reader, answer, listed, why, stray>>

CloseDirFails ==
  /\ dir = "closing"
  /\ \/ DirFault /\ calls' \in {calls, calls \ {CloseReq}}
     \/ ~mounted /\ calls' = {} /\ UNCHANGED failed
  /\ dir' = "released"
  /\ stray' = (stray \/ calls' = {})
  /\ UNCHANGED <<bulk, hidden, mounted, got, over, lastResp, total, closed, reader, answer, listed, why>>

LoseSession ==
  /\ mounted /\ DirFault
  /\ mounted' = FALSE
  /\ UNCHANGED <<bulk, hidden, dir, got, over, lastResp, total, closed, calls, reader, answer, listed, why, stray>>

\* The agent serves what it is asked, and go-fuse ends a READDIR it has begun.
DirStep ==
  \/ HandleOpenDir \/ HandleCloseDir \/ HandleReadDir
  \/ NextEntry \/ HasNextCalls \/ HasNextStops \/ HasNextAnswered
  \/ ~mounted /\ HasNextFails

DirNext ==
  \/ DirStep \/ HasNextFails \/ OpenDir \/ OpenDirFails \/ Readdir
  \/ CloseDir \/ CloseDirFails \/ LoseSession

DirFairness == WF_dirVars(DirStep)

-----------------------------------------------------------------------------
(* Properties *)

DirTypeOK ==
  /\ bulk \in BOOLEAN /\ hidden \subseteq 1 .. Entries /\ mounted \in BOOLEAN /\ failed \in 0 .. DirFaults
  /\ dir \in {"none", "opening", "idle", "reading", "asking", "answered", "end", "closing", "released"}
  /\ got \in 0 .. Buffer /\ over \in 0 .. Entries
  /\ answer \in {ErrProcessDone} \cup Seq(1 .. Entries) /\ lastResp \in Seq(1 .. Entries) /\ total \in 0 .. MaxDirEntries /\ closed \in BOOLEAN
  /\ calls \subseteq {OpenFileReq, CloseReq} /\ reader \in [open : BOOLEAN, at : 0 .. Entries, end : BOOLEAN]
  /\ why \subseteq {"read", "limit", "filtered", "error"} /\ stray \in BOOLEAN

\* What the kernel is given is the beginning of the directory, each entry that the agent does
\* not leave out once and in order, however READDIRs, batches and failed calls fall together.
\* A listing it takes for whole is whole when the agent has said so, and else cut short for
\* one of three reasons: a call failed, the limit of the job was reached, or a READDIR began
\* with a batch of which the agent left out every entry (dir.go 30-100).
ListingWhole ==
  /\ IsPrefix(listed, Visible(0, Entries))
  /\ dir = "end" =>
       \/ listed = Visible(0, Entries)
       \/ "error" \in why
       \/ "limit" \in why /\ Len(listed) = MaxDirEntries
       \/ "filtered" \in why /\ ~bulk /\ listed = Visible(0, reader.at)

\* The handle of a directory is left open at the agent only when the listing was read to its
\* end, or its open or close was lost or is still to be handled, or until the session ends.
DirHandleLeft ==
  dir = "released" /\ reader.open => "read" \in why \/ stray \/ CloseReq \in calls \/ ~mounted

ReaddirReturns == dir = "reading" ~> dir \in {"idle", "end"}
=============================================================================
