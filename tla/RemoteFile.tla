------------------------------- MODULE RemoteFile -------------------------------
(***************************************************************************)
(* One file of a mounted backup source, from the kernel's FUSE requests to *)
(* the file handle of the agent's file system server.                      *)
(*                                                                         *)
(* The kernel has several reads of the file under way at once.  The agent  *)
(* serves each one in a goroutine of its own: on Windows it moves the one  *)
(* file pointer of the handle and reads from there, under the handle's     *)
(* lock, or maps a view of the file; on Unix it streams a section of the   *)
(* file after the lock is gone.  The bytes follow in chunks, ended by a    *)
(* sentinel.  A byte of the file is modelled by its offset, so a reply is  *)
(* where its bytes come from and how many they are.                        *)
(***************************************************************************)
EXTENDS RemoteCalls, FiniteSets

CONSTANTS
  Reads, NoRead,  \* reads the kernel has under way; no read
  Size, Want,     \* the largest size of the file; the length of a read
  Layouts,        \* the sets of offsets that may be allocated on disk
  MaxFaults,      \* bound: failures and changes of the file
  MaxUnderWay     \* bound: requests under way at once

ASSUME FileAssumption ==
  /\ NoRead \notin Reads /\ Size \in Nat /\ Want \in Nat \ {0} /\ MaxFaults \in Nat /\ MaxUnderWay \in Nat
  /\ \A l \in Layouts : l \subseteq 0 .. Size - 1

VARIABLES
  agent,    \* how the agent reads: "read", "mmap" (both Windows) or "unix"
  conn,     \* "up", "down", or "over": the agent has closed its server too
  faults,   \* faults so far
  disk,     \* the file: its size and its allocated offsets
  told,     \* the size the kernel was told at Lookup
  file,     \* the client's ARPCFile
  asked,    \* OpenFile and Close requests that the agent has yet to handle
  handle,   \* the agent's FileHandle
  lock,     \* the read that holds the lock of the handle from one step to the next
  rd,       \* the reads
  seek,     \* the Lseek request
  orphaned, \* history: an OpenFile that was given up has been served, or a Close was lost
  changed   \* history: the file changed after Lookup

wireVars == <<agent, conn, faults>>
fileVars == <<disk, told, file, asked, handle, lock, rd, seek, orphaned, changed>>

Whences == {"data", "hole"}
Failed == Size + 1  \* no offset
IdleRead == [stage |-> "idle", off |-> 0, from |-> 0, left |-> 0, n |-> 0, logged |-> FALSE, cut |-> FALSE]
IdleSeek == [stage |-> "idle", whence |-> "data", off |-> 0, res |-> 0]
Shut == [open |-> FALSE, size |-> 0, pos |-> 0]

WireInit == agent \in {"read", "mmap", "unix"} /\ conn = "up" /\ faults = 0

FileInit ==
  /\ disk \in [size : {Size}, data : Layouts] /\ told = Size
  /\ file = "none" /\ asked = {} /\ handle = Shut /\ lock = NoRead
  /\ rd = [r \in Reads |-> IdleRead] /\ seek = IdleSeek
  /\ orphaned = FALSE /\ changed = FALSE

Up == conn = "up"
Fault == faults < MaxFaults /\ faults' = faults + 1 /\ UNCHANGED <<agent, conn>>
Least(a, b) == IF a < b THEN a ELSE b
UnderWay == Cardinality({r \in Reads : rd[r].stage # "idle"}) + (IF seek.stage = "idle" THEN 0 ELSE 1)
Left(r) == IF rd[r].off < told THEN Least(Want, told - rd[r].off) ELSE 0

-----------------------------------------------------------------------------
(* Open and close *)

OpenFile ==
  /\ Up /\ file = "none"
  /\ file' = "opening" /\ asked' = asked \cup {OpenFileReq}
  /\ UNCHANGED <<wireVars, disk, told, handle, lock, rd, seek, orphaned, changed>>

\* The agent notes the size of the file at this moment; a client that is still waiting gets
\* the handle.
HandleOpenFile ==
  /\ Up /\ OpenFileReq \in asked
  /\ asked' = asked \ {OpenFileReq}
  /\ handle' = [open |-> TRUE, size |-> disk.size, pos |-> 0]
  /\ file' = IF file = "opening" THEN "open" ELSE file
  /\ orphaned' = (orphaned \/ file # "opening")
  /\ UNCHANGED <<wireVars, disk, told, lock, rd, seek, changed>>

\* The open is refused, or its call fails: EACCES.
OpenFails ==
  /\ file = "opening"
  /\ \/ Fault /\ asked' \in {asked, asked \ {OpenFileReq}}
     \/ ~Up /\ asked' = {} /\ UNCHANGED wireVars
  /\ file' = "released"
  /\ UNCHANGED <<disk, told, handle, lock, rd, seek, orphaned, changed>>

\* The kernel releases a file when its requests have been answered.
Release ==
  /\ file = "open" /\ seek.stage = "idle" /\ \A r \in Reads : rd[r].stage = "idle"
  /\ file' = "closing" /\ asked' = asked \cup {CloseReq}
  /\ UNCHANGED <<wireVars, disk, told, handle, lock, rd, seek, orphaned, changed>>

\* Mutant: the handle stays in the table.
HandleCloseForgets ==
  /\ Up /\ CloseReq \in asked /\ handle.open /\ lock = NoRead
  /\ asked' = asked \ {CloseReq}
  /\ file' = "released"
  /\ UNCHANGED <<wireVars, disk, told, handle, lock, rd, seek, orphaned, changed>>

HandleClose ==
  /\ Up /\ CloseReq \in asked /\ handle.open /\ lock = NoRead
  /\ asked' = asked \ {CloseReq}
  /\ handle' = Shut
  /\ file' = "released"
  /\ UNCHANGED <<wireVars, disk, told, lock, rd, seek, orphaned, changed>>

\* The call takes more than a minute, or the connection is lost: nobody closes again.
CloseFails ==
  /\ file = "closing"
  /\ \/ Fault /\ asked' \in {asked, asked \ {CloseReq}}
     \/ ~Up /\ asked' = {} /\ UNCHANGED wireVars
  /\ file' = "released"
  /\ orphaned' = (asked' = {})
  /\ UNCHANGED <<disk, told, handle, lock, rd, seek, changed>>

-----------------------------------------------------------------------------
(* Reads *)

ReadAt(r, off) ==
  /\ file = "open" /\ rd[r].stage = "idle" /\ off < told /\ UnderWay < MaxUnderWay
  /\ rd' = [rd EXCEPT ![r] = ReadAtReq(off)]
  /\ UNCHANGED <<wireVars, disk, told, file, asked, handle, lock, seek, orphaned, changed>>

Arrived(r) == Up /\ rd[r].stage = "sent" /\ handle.open /\ lock = NoRead
Streams(r, from, n) ==
  rd' = [rd EXCEPT ![r].stage = "streaming", ![r].from = from, ![r].left = n]
Rest == <<disk, told, file, asked, seek, orphaned, changed>>

\* Windows: at or beyond the size noted at the open, nothing is streamed.
ReadNothing(r) ==
  /\ Arrived(r) /\ agent # "unix" /\ rd[r].off >= handle.size
  /\ Streams(r, rd[r].off, 0)
  /\ UNCHANGED <<wireVars, handle, lock, Rest>>

\* Mutant: a read that reaches the end of the file is cut one byte short.
ClampShort(r) == Least(Want, handle.size - rd[r].off - 1)

\* The length is clamped to the size noted at the open.
Clamp(r) == Least(Want, handle.size - rd[r].off)

\* Mutant: the handle is not locked while its pointer is moved and read from.
SetFilePointerUnlocked(r) ==
  /\ Up /\ rd[r].stage = "sent" /\ handle.open /\ agent # "unix" /\ rd[r].off < handle.size
  /\ handle' = [handle EXCEPT !.pos = rd[r].off]
  /\ rd' = [rd EXCEPT ![r].stage = "placed"]
  /\ UNCHANGED <<wireVars, lock, Rest>>

\* The file pointer of the handle is moved; with "mmap" only when the view cannot be mapped.
SetFilePointer(r) ==
  /\ Arrived(r) /\ agent # "unix" /\ rd[r].off < handle.size
  /\ handle' = [handle EXCEPT !.pos = rd[r].off]
  /\ lock' = r
  /\ rd' = [rd EXCEPT ![r].stage = "placed"]
  /\ UNCHANGED <<wireVars, Rest>>

\* Reads from wherever the pointer is, into a buffer that is then streamed.
ReadFile(r) ==
  /\ Up /\ rd[r].stage = "placed"
  /\ LET n == Least(Clamp(r), disk.size - handle.pos)
     IN Streams(r, handle.pos, n) /\ handle' = [handle EXCEPT !.pos = @ + n]
  /\ lock' = NoRead
  /\ UNCHANGED <<wireVars, Rest>>

\* Mutant: a read that fails leaves the handle locked.
ReadFileFailsLocked(r) ==
  /\ Up /\ rd[r].stage = "placed" /\ Fault
  /\ rd' = [rd EXCEPT ![r].stage = "error"]
  /\ UNCHANGED <<handle, lock, Rest>>

\* The read fails on disk: the client gets the error of the call.
ReadFileFails(r) ==
  /\ Up /\ rd[r].stage = "placed" /\ Fault
  /\ rd' = [rd EXCEPT ![r].stage = "error"]
  /\ lock' = NoRead
  /\ UNCHANGED <<handle, Rest>>

MapView(r) ==
  /\ Arrived(r) /\ agent = "mmap" /\ rd[r].off < handle.size
  /\ Streams(r, rd[r].off, Clamp(r))
  /\ UNCHANGED <<wireVars, handle, lock, Rest>>

\* Unix: the section is read while it is streamed.
ReadSection(r) ==
  /\ Arrived(r) /\ agent = "unix"
  /\ Streams(r, rd[r].off, Want)
  /\ UNCHANGED <<wireVars, handle, lock, Rest>>

\* What the reader behind the stream can still give: a buffer all of it, a section what the
\* file has now.
Available(r) ==
  IF agent = "unix"
  THEN IF rd[r].from + rd[r].n < disk.size THEN Least(rd[r].left, disk.size - rd[r].from - rd[r].n) ELSE 0
  ELSE rd[r].left

SendChunk(r) ==
  /\ Up /\ rd[r].stage = "streaming" /\ Available(r) > 0
  /\ \E k \in 1 .. Available(r) :
       rd' = [rd EXCEPT ![r].n = @ + k, ![r].left = @ - k]
  /\ UNCHANGED <<wireVars, handle, lock, Rest>>

\* Mutant: a stream that ends before the length it announced has no sentinel.
SendSentinelIfWhole(r) ==
  /\ Up /\ rd[r].stage = "streaming" /\ rd[r].left = 0
  /\ rd' = [rd EXCEPT ![r].stage = "ended"]
  /\ UNCHANGED <<wireVars, handle, lock, Rest>>

\* The reader is at its end: the sentinel is sent, whatever length was announced.
SendSentinel(r) ==
  /\ Up /\ rd[r].stage = "streaming" /\ Available(r) = 0
  /\ rd' = [rd EXCEPT ![r].stage = "ended"]
  /\ UNCHANGED <<wireVars, handle, lock, Rest>>

\* Reading the section fails: the sentinel is sent all the same.
SendFails(r) ==
  /\ Up /\ agent = "unix" /\ rd[r].stage = "streaming" /\ Fault
  /\ rd' = [rd EXCEPT ![r].stage = "ended", ![r].cut = TRUE]
  /\ UNCHANGED <<handle, lock, Rest>>

\* CallBinary returns an error: that of the handler, or that of a stream whose session is gone.
CallFailed(r) == rd[r].stage = "error" \/ (~Up /\ rd[r].stage \in {"sent", "placed", "streaming"})

\* ReadAt of the client returns: with the bytes up to the sentinel, or with an error, which is logged
\* and given to the kernel as an empty read.
Receive(r) ==
  /\ \/ /\ rd[r].stage = "ended"
        /\ rd' = [rd EXCEPT ![r].stage = "done"]
     \/ /\ CallFailed(r)
        /\ rd' = [rd EXCEPT ![r].stage = "done", ![r].n = 0, ![r].logged = TRUE]
  /\ UNCHANGED <<wireVars, handle, lock, Rest>>

Answer(r) ==
  /\ rd[r].stage = "done"
  /\ rd' = [rd EXCEPT ![r] = IdleRead]
  /\ UNCHANGED <<wireVars, handle, lock, Rest>>

-----------------------------------------------------------------------------
(* Seeks: the kernel sends SEEK_DATA and SEEK_HOLE only *)

\* queryAllocatedRanges: the maximal runs of allocated offsets, as [lo, hi).
Ranges ==
  LET data == {o \in disk.data : o < disk.size}
  IN {x \in [lo : data, hi : 1 .. disk.size] :
        /\ x.lo < x.hi /\ x.lo .. x.hi - 1 \subseteq data
        /\ x.hi \notin data /\ (x.lo > 0 => x.lo - 1 \notin data)}

FirstOf(rs) == CHOOSE r \in rs : \A s \in rs : r.lo <= s.lo

\* Mutant: the end of a range counts as part of it.
SeekDataPast(off) ==
  LET rs == {r \in Ranges : off <= r.hi}
  IN IF rs = {} THEN Failed ELSE LET r == FirstOf(rs) IN IF off >= r.lo THEN off ELSE r.lo

\* The first range that ends after the offset: the offset if the range has it, else its start.
SeekData(off) ==
  LET rs == {r \in Ranges : off < r.hi}
  IN IF rs = {} THEN Failed ELSE LET r == FirstOf(rs) IN IF off >= r.lo THEN off ELSE r.lo

\* In a range its end; between two ranges the end of the one before; else the offset.
SeekHole(off) ==
  LET within == {r \in Ranges : r.lo <= off /\ off < r.hi}
      before == {r \in Ranges : r.hi <= off /\ \E s \in Ranges : off < s.lo}
  IN CASE within # {} -> (CHOOSE r \in within : TRUE).hi
       [] within = {} /\ before # {} -> (CHOOSE r \in before : \A s \in before : s.hi <= r.hi).hi
       [] OTHER -> off

SparseSeek(whence, off) ==
  IF off >= disk.size THEN Failed ELSE IF whence = "data" THEN SeekData(off) ELSE SeekHole(off)

Lseek(whence, off) ==
  /\ file = "open" /\ seek.stage = "idle" /\ UnderWay < MaxUnderWay
  /\ seek' = LseekReq(whence, off)
  /\ UNCHANGED <<wireVars, disk, told, file, asked, handle, lock, rd, orphaned, changed>>

\* The pointer of the handle is moved too; Unix refuses both kinds.
HandleLseek ==
  /\ Up /\ seek.stage = "sent" /\ handle.open /\ lock = NoRead
  /\ LET res == IF agent = "unix" THEN Failed ELSE SparseSeek(seek.whence, seek.off)
     IN /\ seek' = LseekResp(seek, res)
        /\ handle' = [handle EXCEPT !.pos = IF res = Failed THEN @ ELSE res]
  /\ UNCHANGED <<wireVars, disk, told, file, asked, lock, rd, orphaned, changed>>

\* Every error, one that says there is no more data included, becomes EOPNOTSUPP and EBADF.
LseekFails ==
  /\ seek.stage = "sent"
  /\ IF Up THEN Fault ELSE UNCHANGED wireVars
  /\ seek' = LseekResp(seek, Failed)
  /\ UNCHANGED <<disk, told, file, asked, handle, lock, rd, orphaned, changed>>

LseekReturns ==
  /\ seek.stage = "done"
  /\ seek' = IdleSeek
  /\ UNCHANGED <<wireVars, disk, told, file, asked, handle, lock, rd, orphaned, changed>>

-----------------------------------------------------------------------------
(* What happens to them *)

\* A file that is read in place changes: on Windows the agent's handle shares it for
\* reading only, so not while it is open.
Change(n) ==
  /\ n # disk.size /\ (agent = "unix" \/ ~handle.open) /\ Fault
  /\ disk' = [disk EXCEPT !.size = n]
  /\ changed' = TRUE
  /\ UNCHANGED <<told, file, asked, handle, lock, rd, seek, orphaned>>

\* AgentFSServer.Close: the child has lost its session.
CloseFileHandles ==
  /\ conn = "down"
  /\ conn' = "over" /\ handle' = Shut /\ lock' = NoRead
  /\ UNCHANGED <<agent, faults, Rest, rd>>

ReadStep(r) ==
  \/ ReadNothing(r) \/ SetFilePointer(r) \/ ReadFile(r) \/ MapView(r) \/ ReadSection(r)
  \/ SendChunk(r) \/ SendSentinel(r) \/ Receive(r) \/ Answer(r)

FileNext ==
  \/ OpenFile \/ HandleOpenFile \/ OpenFails \/ Release \/ HandleClose \/ CloseFails
  \/ \E r \in Reads : \/ \E off \in 0 .. Size - 1 : ReadAt(r, off)
                      \/ ReadStep(r) \/ ReadFileFails(r) \/ SendFails(r)
  \/ \E w \in Whences, off \in 0 .. Size - 1 : Lseek(w, off)
  \/ HandleLseek \/ LseekFails \/ LseekReturns
  \/ \E n \in 0 .. Size : Change(n)
  \/ CloseFileHandles

\* Every goroutine that can go on does, and a mutex of Go is handed to who waits for it;
\* whether the kernel reads is its own affair.
FileFairness == \A r \in Reads : SF_<<wireVars, fileVars>>(ReadStep(r))

-----------------------------------------------------------------------------
(* Properties *)

FileTypeOK ==
  /\ agent \in {"read", "mmap", "unix"} /\ conn \in {"up", "down", "over"} /\ faults \in 0 .. MaxFaults
  /\ disk \in [size : 0 .. Size, data : SUBSET (0 .. Size - 1)] /\ told \in 0 .. Size
  /\ file \in {"none", "opening", "open", "closing", "released"} /\ asked \subseteq {OpenFileReq, CloseReq}
  /\ handle \in [open : BOOLEAN, size : 0 .. Size, pos : 0 .. Size] /\ lock \in Reads \cup {NoRead}
  /\ rd \in [Reads -> [stage : {"idle", "sent", "placed", "streaming", "ended", "error", "done"},
                       off : 0 .. Size, from : 0 .. Size, left : 0 .. Want, n : 0 .. Want,
                       logged : BOOLEAN, cut : BOOLEAN]]
  /\ seek \in [stage : {"idle", "sent", "done"}, whence : Whences, off : 0 .. Size, res : 0 .. Failed]
  /\ orphaned \in BOOLEAN /\ changed \in BOOLEAN

\* The bytes of a reply are those at the offset the kernel asked for, however many other reads
\* and seeks move the same file pointer meanwhile.
DataRight == \A r \in Reads : rd[r].stage = "done" /\ rd[r].n > 0 => rd[r].from = rd[r].off

\* A reply that is shorter than what the kernel knows the file to have is one whose file has
\* changed since Lookup, one whose call failed with an error in the log of the job, or one of
\* a Unix agent whose disk failed in mid-stream.  The kernel takes all of them for the end
\* of the file.
ShortExplained ==
  \A r \in Reads : rd[r].stage = "done" /\ rd[r].n < Left(r) =>
    \/ changed
    \/ rd[r].logged /\ rd[r].n = 0
    \/ agent = "unix" /\ rd[r].cut

\* Of an open handle SEEK_DATA finds the next allocated offset, and SEEK_HOLE never an offset behind the next
\* hole: no data is skipped as a hole.  Its result is a hole, and one before the offset
\* asked for only when the offset is itself in a hole between two ranges.
SeekLands ==
  seek.stage = "done" /\ seek.res # Failed /\ handle.open =>
    LET data == {o \in disk.data : o < disk.size}
    IN /\ seek.res \notin data <=> seek.whence = "hole"
       /\ \A o \in seek.off .. Size : o < seek.res => (o \in data <=> seek.whence = "hole")
       /\ seek.res < seek.off =>
            /\ seek.whence = "hole" /\ seek.res .. seek.off \cap data = {}
            /\ \E o \in data : o > seek.off

\* A handle that the client has no use for stays open at the agent only when its open or
\* its close was lost, or is still to be handled, or until the session ends.
HandleLeft ==
  handle.open /\ file \in {"none", "released"} => orphaned \/ CloseReq \in asked \/ conn = "down"

\* A read that does not wait for the handle: it arrives at one that is open and not locked,
\* has the lock itself, or is past it.
CanGoOn(r) ==
  \/ Up /\ rd[r].stage = "sent" /\ handle.open /\ lock = NoRead
  \/ Up /\ rd[r].stage = "placed" /\ lock = r
  \/ rd[r].stage \in {"streaming", "ended", "error", "done"}
  \/ ~ Up

\* No read waits in vain: it can go on, or the one that has the lock of its handle can,
\* whatever reads fail and connections end; and no read finds its handle closed.
ReadsGoOn ==
  \A r \in Reads : rd[r].stage # "idle" =>
    CanGoOn(r) \/ (lock \in Reads /\ rd[lock].stage # "idle" /\ CanGoOn(lock))

ReadsAnswered == \A r \in Reads : rd[r].stage # "idle" ~> rd[r].stage = "idle"
=============================================================================
