------------------------------- MODULE RemoteAttrs -------------------------------
(***************************************************************************)
(* The attributes of one object of a mounted backup source.                *)
(*                                                                         *)
(* The kernel knows them from Lookup or from Getattr, each for two         *)
(* seconds; proxmox-backup-client asks for the extended attributes too.    *)
(* Every request is a call to the agent, Attr or Xattr, whose handlers     *)
(* fill different fields of one AgentFileInfo.                             *)
(***************************************************************************)
EXTENDS RemoteCalls

CONSTANTS
  Sizes, Times,  \* sizes and modification times of a file
  Aces,          \* entries an ACL may have: a tag and whom it is for
  MaxLost        \* bound: calls that fail

ASSUME AttrAssumption == Epoch \notin Times /\ MaxLost \in Nat

VARIABLES
  object,  \* the object on the agent's disk
  known,   \* what the kernel has of it at the moment
  xattrs,  \* the extended attributes the client was given last
  lost     \* calls that have failed

attrVars == <<object, known, xattrs, lost>>

Unknown == [type |-> "unknown", size |-> 0, mtime |-> Epoch]
NotAsked == [listed |-> FALSE, acls |-> Nil]
Objects == [windows : BOOLEAN, dir : BOOLEAN, size : Sizes, mtime : Times, acl : SUBSET Aces]
AttrInit == object \in Objects /\ known = Unknown /\ xattrs = NotAsked /\ lost = 0

NoInfo == [size |-> 0, dir |-> FALSE, mtime |-> Epoch, lastWrite |-> Epoch, owner |-> "",
           winACLs |-> Nil, posixACLs |-> Nil]

\* handleAttr of both agents: size, type and modification time, and none of the other times.
HandleAttr == [NoInfo EXCEPT !.size = object.size, !.dir = object.dir, !.mtime = object.mtime]

\* The entries of the DACL, an empty slice without any; with getfacl nil without any.
GetWinACLs == Made(object.acl)
GetPosixACL == IF object.acl = {} THEN Nil ELSE Made({PosixACL(e) : e \in object.acl})

\* handleXattr on Windows: times, owner and ACL; no type, no size.
HandleXattrWindows ==
  [NoInfo EXCEPT !.lastWrite = object.mtime, !.owner = "sid", !.winACLs = GetWinACLs]

\* handleXattr on Unix: all of them.
HandleXattrUnix ==
  [NoInfo EXCEPT !.size = object.size, !.dir = object.dir, !.mtime = object.mtime,
                 !.lastWrite = object.mtime, !.owner = "name",
                 !.posixACLs = GetPosixACL]

Attr == AgentFileInfo(HandleAttr)
Xattr == AgentFileInfo(IF object.windows THEN HandleXattrWindows ELSE HandleXattrUnix)

-----------------------------------------------------------------------------
TypeOf(info) == IF info.dir THEN "dir" ELSE "file"

Lookup ==
  /\ known = Unknown
  /\ known' = [type |-> TypeOf(Attr), size |-> Attr.size, mtime |-> Attr.mtime]
  /\ UNCHANGED <<object, xattrs, lost>>

\* Getattr, and Statx with it, takes the modification time from LastWriteTime.
Getattr ==
  /\ known.type # "absent"
  /\ known' = [type |-> TypeOf(Attr), size |-> Attr.size, mtime |-> Attr.lastWrite]
  /\ UNCHANGED <<object, xattrs, lost>>

\* Whatever the error of the call is, the object does not exist.
AttrFails ==
  /\ lost < MaxLost /\ lost' = lost + 1
  /\ known' = [Unknown EXCEPT !.type = "absent"]
  /\ UNCHANGED <<object, xattrs>>

\* EntryTimeout and AttrTimeout.
Expire ==
  /\ known # Unknown
  /\ known' = Unknown
  /\ UNCHANGED <<object, xattrs, lost>>

Listxattr ==
  /\ xattrs' = [xattrs EXCEPT !.listed = Xattr.posixACLs # Nil \/ Xattr.winACLs # Nil]
  /\ UNCHANGED <<object, known, lost>>

\* user.acls: the Posix entries, and those of Windows only if there is no such list.
Getxattr ==
  /\ xattrs.listed
  /\ xattrs' = [xattrs EXCEPT !.acls = IF Xattr.posixACLs # Nil THEN Xattr.posixACLs ELSE Xattr.winACLs]
  /\ UNCHANGED <<object, known, lost>>

\* The file is written to on a machine without snapshots.
Write ==
  /\ ~object.windows /\ ~object.dir
  /\ \E s \in Sizes, t \in Times : t > object.mtime /\ object' = [object EXCEPT !.size = s, !.mtime = t]
  /\ UNCHANGED <<known, xattrs, lost>>

AttrNext == Lookup \/ Getattr \/ AttrFails \/ Expire \/ Listxattr \/ Getxattr \/ Write

-----------------------------------------------------------------------------
AttrTypeOK ==
  /\ object \in Objects
  /\ known \in [type : {"unknown", "absent", "dir", "file"}, size : Sizes \cup {0}, mtime : Times \cup {Epoch}]
  /\ xattrs.listed \in BOOLEAN /\ xattrs.acls \subseteq (SUBSET Aces) \cup (SUBSET {PosixACL(e) : e \in Aces})
  /\ lost \in 0 .. MaxLost

\* What the client is given: of a Unix machine the ACL of the object with the names of users
\* left out, of a Windows machine none of it, since the list that is looked at first was never
\* made there and arrives as an empty one (fuse.go 274-285, responses.go 246).
AclsSeen ==
  xattrs.acls # Nil =>
    xattrs.acls = Made(IF object.windows THEN {} ELSE {PosixACL(e) : e \in object.acl})
=============================================================================
