------------------------------- MODULE RemoteCalls -------------------------------
(***************************************************************************)
(* The messages between the mounted file system and the agent's file       *)
(* system server, and what their encoding does to what they carry.         *)
(***************************************************************************)
EXTENDS Naturals, Sequences

(* Requests: a handle is that of the one object a model is about *)
OpenFileReq == "open"
CloseReq == "close"
ReadAtReq(off) ==
  [stage |-> "sent", off |-> off, from |-> 0, left |-> 0, n |-> 0, logged |-> FALSE, cut |-> FALSE]
LseekReq(whence, off) == [stage |-> "sent", whence |-> whence, off |-> off, res |-> 0]

\* LseekResp: the offset arrives as it was sent.
LseekResp(req, off) == [req EXCEPT !.stage = "done", !.res = off]

\* This error keeps its identity on the way; it comes instead of entries, which are numbered
\* from 1.
ErrProcessDone == <<0>>

-----------------------------------------------------------------------------
(* AgentFileInfo *)

Nil == {}          \* a slice that was never made
Made(entries) == {entries}
Epoch == 0         \* a time that was never set
NoID == "-1"       \* the ID of an entry without a number

\* An array of ACL entries is made anew by Decode, with the length it had: what was nil is
\* an empty slice and no longer nil.
PosixACLArray(acls) == IF acls = Nil THEN Made({}) ELSE acls
WinACLArray(acls) == IF acls = Nil THEN Made({}) ELSE acls

\* An info after Encode and Decode.
AgentFileInfo(info) ==
  [info EXCEPT !.posixACLs = PosixACLArray(@), !.winACLs = WinACLArray(@)]

\* getfacl prints user names; an ID is a number or nothing.
PosixACL(e) == [tag |-> e.tag, id |-> IF e.who \in {"", "name"} THEN NoID ELSE e.who]
=============================================================================
