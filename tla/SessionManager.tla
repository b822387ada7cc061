----------------------------- MODULE SessionManager -----------------------------
(***************************************************************************)
(* internal/arpc SessionManager and the HTTP handler of /plus/arpc: the    *)
(* server's side of the connections one client opens.  The client is an    *)
(* agent host, or the child process an agent forks for a job ("host|job"); *)
(* the manager's map and the map of mounted file systems are keyed by it,  *)
(* and keys do not interact, so one key is enough.                         *)
(*                                                                         *)
(* Every connection has a handler goroutine: it looks for a session, makes *)
(* one if there is none, serves it until it ends, and cleans up.  Two RPCs *)
(* of the mount service look sessions up and use them later: Backup mounts *)
(* the file system of a child, Cleanup closes the session of a host.       *)
(***************************************************************************)
CONSTANTS
  Conns,    \* connections; a session has the name of the connection it was made for
  NoConn    \* no connection

ASSUME NoConnAssumption == NoConn \notin Conns

VARIABLES
  asked,    \* connections whose upgrade request has reached the server
  agentEnd, \* the client's end of a connection
  handler,  \* where the handler of a connection stands
  serves,   \* the session a handler serves
  found,    \* the session CloseSession got from the map
  mux,      \* the server's end of a connection: the smux session made from it
  sessions, \* SessionManager.sessions at the key
  conns,    \* activeConns at the key: the session the mounted file system uses
  rpc,      \* what the mount RPC is doing
  target    \* the session it got from GetSession

serverVars == <<handler, serves, found, mux, sessions, conns, rpc, target>>
clientVars == <<asked, agentEnd>>
vars == <<asked, agentEnd, handler, serves, found, mux, sessions, conns, rpc, target>>

Ends == {"none", "open", "closed"}
HandlerStages == {"idle", "create", "serve", "find", "remove", "close", "disconnect", "done"}
RpcStages == {"idle", "backup", "cleanup"}

Init ==
  /\ asked = {}
  /\ agentEnd = [c \in Conns |-> "none"]
  /\ handler = [c \in Conns |-> "idle"]
  /\ serves = [c \in Conns |-> NoConn]
  /\ found = [c \in Conns |-> NoConn]
  /\ mux = [c \in Conns |-> "none"]
  /\ sessions = NoConn
  /\ conns = NoConn
  /\ rpc = "idle"
  /\ target = NoConn

Goto(c, from, to) ==
  /\ handler[c] = from
  /\ handler' = [handler EXCEPT ![c] = to]

\* Session.Close
CloseMux(s) == mux' = [mux EXCEPT ![s] = IF @ = "open" THEN "closed" ELSE @]

-----------------------------------------------------------------------------
(* The handler of a connection *)

\* GetOrCreateSession looks at the map; a session found there is served in place of one
\* for this connection, which nobody reads from or closes.
Lookup(c) ==
  /\ c \in asked
  /\ \/ /\ sessions = NoConn
        /\ Goto(c, "idle", "create")
        /\ UNCHANGED serves
     \/ /\ sessions # NoConn
        /\ Goto(c, "idle", "serve")
        /\ serves' = [serves EXCEPT ![c] = sessions]
  /\ UNCHANGED <<clientVars, found, mux, sessions, conns, rpc, target>>

\* NewServerSession, then Set
Create(c) ==
  /\ Goto(c, "create", "serve")
  /\ mux' = [mux EXCEPT ![c] = "open"]
  /\ serves' = [serves EXCEPT ![c] = c]
  /\ sessions' = c
  /\ UNCHANGED <<clientVars, found, conns, rpc, target>>

\* Mutant: a connection that ends is not taken out of the map.
ServeForgets(c) ==
  /\ Goto(c, "serve", "disconnect")
  /\ mux[serves[c]] = "closed"
  /\ UNCHANGED <<clientVars, serves, found, mux, sessions, conns, rpc, target>>

\* Serve returns when AcceptStream fails.
Serve(c) ==
  /\ Goto(c, "serve", "find")
  /\ mux[serves[c]] = "closed"
  /\ UNCHANGED <<clientVars, serves, found, mux, sessions, conns, rpc, target>>

\* CloseSession works on the session that is in the map, whichever that is: Get ...
Find(c) ==
  /\ \/ /\ sessions = NoConn
        /\ Goto(c, "find", "disconnect")
        /\ UNCHANGED found
     \/ /\ sessions # NoConn
        /\ Goto(c, "find", "remove")
        /\ found' = [found EXCEPT ![c] = sessions]
  /\ UNCHANGED <<clientVars, serves, mux, sessions, conns, rpc, target>>

\* ... Del ...
Remove(c) ==
  /\ Goto(c, "remove", "close")
  /\ sessions' = NoConn
  /\ UNCHANGED <<clientVars, serves, found, mux, conns, rpc, target>>

\* ... Close.
CloseFound(c) ==
  /\ Goto(c, "close", "disconnect")
  /\ CloseMux(found[c])
  /\ found' = [found EXCEPT ![c] = NoConn]
  /\ UNCHANGED <<clientVars, serves, sessions, conns, rpc, target>>

\* DisconnectSession unmounts the file system of the key and closes its session.
Disconnect(c) ==
  /\ Goto(c, "disconnect", "done")
  /\ conns' = NoConn
  /\ IF conns # NoConn THEN CloseMux(conns) ELSE UNCHANGED mux
  /\ serves' = [serves EXCEPT ![c] = NoConn]
  /\ UNCHANGED <<clientVars, found, sessions, rpc, target>>

Handle(c) ==
  \/ Lookup(c) \/ Create(c) \/ Serve(c) \/ Find(c) \/ Remove(c) \/ CloseFound(c)
  \/ Disconnect(c)

\* A session notices that the other end is gone: end of file, or no answer to keep-alives.
MuxEnds(c) ==
  /\ agentEnd[c] # "open"
  /\ mux[c] = "open"
  /\ CloseMux(c)
  /\ UNCHANGED <<clientVars, handler, serves, found, sessions, conns, rpc, target>>

-----------------------------------------------------------------------------
(* The mount RPCs *)

GetSession(stage) ==
  /\ rpc = "idle"
  /\ sessions # NoConn
  /\ rpc' = stage
  /\ target' = sessions
  /\ UNCHANGED <<clientVars, handler, serves, found, mux, sessions, conns>>

\* Backup: CreateFSConnection, over whatever is there
CreateFSConnection ==
  /\ rpc = "backup"
  /\ rpc' = "idle"
  /\ conns' = target
  /\ target' = NoConn
  /\ UNCHANGED <<clientVars, handler, serves, found, mux, sessions>>

\* Cleanup, once the agent has answered: it closes the session of the host.
CleanupClose ==
  /\ rpc = "cleanup"
  /\ rpc' = "idle"
  /\ CloseMux(target)
  /\ target' = NoConn
  /\ UNCHANGED <<clientVars, handler, serves, found, sessions, conns>>

\* The agent does not answer, or answers with an error; the file system cannot be made.
RpcFail ==
  /\ rpc # "idle"
  /\ rpc' = "idle"
  /\ target' = NoConn
  /\ UNCHANGED <<clientVars, handler, serves, found, mux, sessions, conns>>

RpcStep == CreateFSConnection \/ CleanupClose \/ RpcFail

-----------------------------------------------------------------------------
(* The client, as far as the server can tell *)

\* A client may give up on a connection whose request has been sent.
Connect(c) ==
  /\ c \notin asked
  /\ asked' = asked \cup {c}
  /\ \E end \in {"open", "closed"} : agentEnd' = [agentEnd EXCEPT ![c] = end]
  /\ UNCHANGED serverVars

Lose(c) ==
  /\ agentEnd[c] = "open"
  /\ agentEnd' = [agentEnd EXCEPT ![c] = "closed"]
  /\ UNCHANGED <<serverVars, asked>>

\* Nobody refers to the connection any more: its name can stand for a later one.
Forgotten(c) ==
  /\ handler[c] = "done" /\ agentEnd[c] = "closed" /\ mux[c] # "open"
  /\ c \notin {sessions, conns, target}
  /\ \A d \in Conns : c \notin {serves[d], found[d]}

Recycle(c) ==
  /\ Forgotten(c)
  /\ asked' = asked \ {c}
  /\ agentEnd' = [agentEnd EXCEPT ![c] = "none"]
  /\ handler' = [handler EXCEPT ![c] = "idle"]
  /\ mux' = [mux EXCEPT ![c] = "none"]
  /\ UNCHANGED <<serves, found, sessions, conns, rpc, target>>

ServerStep ==
  \/ \E c \in Conns : Handle(c) \/ MuxEnds(c)
  \/ GetSession("backup") \/ GetSession("cleanup") \/ RpcStep

Next ==
  \/ ServerStep
  \/ \E c \in Conns : Connect(c) \/ Lose(c) \/ Recycle(c)

Spec == Init /\ [][Next]_vars

(***************************************************************************)
(* Fairness.  Handlers and the RPC run, and smux ends a session whose peer *)
(* is gone (its keep-alives time out).  Clients need not do anything.      *)
(***************************************************************************)
Fairness ==
  /\ \A c \in Conns : WF_vars(Handle(c)) /\ WF_vars(MuxEnds(c))
  /\ WF_vars(RpcStep)

FairSpec == Spec /\ Fairness
-----------------------------------------------------------------------------
(* Properties *)

\* Each variable has its type, and nobody holds a nil session: not a handler that serves
\* one or closes the one it found, nor an RPC that looked one up.
TypeOK ==
  /\ asked \subseteq Conns
  /\ agentEnd \in [Conns -> Ends]
  /\ handler \in [Conns -> HandlerStages]
  /\ serves \in [Conns -> Conns \cup {NoConn}]
  /\ found \in [Conns -> Conns \cup {NoConn}]
  /\ mux \in [Conns -> Ends]
  /\ {sessions, conns, target} \subseteq Conns \cup {NoConn}
  /\ rpc \in RpcStages
  /\ rpc # "idle" => target # NoConn
  /\ \A c \in Conns :
       /\ handler[c] \in {"serve", "find", "remove", "close", "disconnect"} => serves[c] # NoConn
       /\ handler[c] \in {"remove", "close"} => found[c] # NoConn

\* A session in the map still has the handler that made it, and that handler has not got
\* past its own removal: no race of two handlers leaves a session in the map for good.
SessionServed ==
  sessions # NoConn => /\ serves[sessions] = sessions
                       /\ handler[sessions] \in {"serve", "find", "remove"}

\* A session that is closed, or whose client is gone, leaves the map: the host is not
\* reported as connected, nor the dead session handed to newcomers, for ever (the deferred
\* CloseSession of controllers/arpc/arpc.go 32-35).
DeadLeaves ==
  \A c \in Conns :
    (sessions = c /\ (agentEnd[c] # "open" \/ mux[c] = "closed")) ~> (sessions # c)
=============================================================================
