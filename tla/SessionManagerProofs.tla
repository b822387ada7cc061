-------------------------- MODULE SessionManagerProofs --------------------------
(***************************************************************************)
(* Proofs about SessionManager, for any number of connections.             *)
(***************************************************************************)
EXTENDS SessionManager, TLAPS

LEMMA TypeInit == Init => TypeOK
BY DEF Init, TypeOK, Ends, HandlerStages, RpcStages

LEMMA TypeStep == TypeOK /\ [Next]_vars => TypeOK'
<1> SUFFICES ASSUME TypeOK, [Next]_vars PROVE TypeOK'
  OBVIOUS
<1> USE NoConnAssumption DEF TypeOK, Ends, HandlerStages, RpcStages, clientVars, serverVars
<1>1. ASSUME NEW c \in Conns, Handle(c) PROVE TypeOK'
  <2>1. CASE Lookup(c)       BY <2>1 DEF Lookup, Goto
  <2>2. CASE Create(c)       BY <2>2 DEF Create, Goto
  <2>3. CASE Serve(c)        BY <2>3 DEF Serve, Goto
  <2>4. CASE Find(c)         BY <2>4 DEF Find, Goto
  <2>5. CASE Remove(c)       BY <2>5 DEF Remove, Goto
  <2>6. CASE CloseFound(c)   BY <2>6 DEF CloseFound, CloseMux, Goto
  <2>7. CASE Disconnect(c)   BY <2>7 DEF Disconnect, CloseMux, Goto
  <2> QED BY <1>1, <2>1, <2>2, <2>3, <2>4, <2>5, <2>6, <2>7 DEF Handle
<1>2. ASSUME NEW c \in Conns, MuxEnds(c) PROVE TypeOK'
  BY <1>2 DEF MuxEnds, CloseMux
<1>3. ASSUME NEW stage \in {"backup", "cleanup"}, GetSession(stage) PROVE TypeOK'
  BY <1>3 DEF GetSession
<1>4. CASE RpcStep
  BY <1>4 DEF RpcStep, CreateFSConnection, CleanupClose, RpcFail, CloseMux
<1>5. ASSUME NEW c \in Conns, Connect(c) \/ Lose(c) \/ Recycle(c) PROVE TypeOK'
  BY <1>5 DEF Connect, Lose, Recycle, Forgotten
<1>6. CASE UNCHANGED vars
  BY <1>6 DEF vars
<1> QED
  BY <1>1, <1>2, <1>3, <1>4, <1>5, <1>6 DEF Next, ServerStep

\* Every variable keeps its type and nobody works on a nil session (the checks of the
\* booleans that Get returns, session_manager.go 26 and 66, mount.go 92 and 133).
THEOREM TypeCorrect == Spec => []TypeOK
<1>1. Init => TypeOK                   BY TypeInit
<1>2. TypeOK /\ [Next]_vars => TypeOK' BY TypeStep
<1> QED BY <1>1, <1>2, PTL DEF Spec

LEMMA ServedStep == TypeOK /\ SessionServed /\ [Next]_vars => SessionServed'
<1> SUFFICES ASSUME TypeOK, SessionServed, [Next]_vars PROVE SessionServed'
  OBVIOUS
<1> USE NoConnAssumption DEF TypeOK, SessionServed, clientVars, serverVars
<1>1. ASSUME NEW c \in Conns, Handle(c) PROVE SessionServed'
  <2>1. CASE Lookup(c)       BY <2>1 DEF Lookup, Goto
  <2>2. CASE Create(c)       BY <2>2 DEF Create, Goto
  <2>3. CASE Serve(c)        BY <2>3 DEF Serve, Goto
  \* CloseSession only goes past the map when the map is empty.
  <2>4. CASE Find(c)         BY <2>4 DEF Find, Goto
  <2>5. CASE Remove(c)       BY <2>5 DEF Remove, Goto
  <2>6. CASE CloseFound(c)   BY <2>6 DEF CloseFound, Goto
  <2>7. CASE Disconnect(c)   BY <2>7 DEF Disconnect, Goto
  <2> QED BY <1>1, <2>1, <2>2, <2>3, <2>4, <2>5, <2>6, <2>7 DEF Handle
<1>2. ASSUME NEW c \in Conns, MuxEnds(c) PROVE SessionServed'
  BY <1>2 DEF MuxEnds
<1>3. ASSUME NEW stage \in {"backup", "cleanup"}, GetSession(stage) PROVE SessionServed'
  BY <1>3 DEF GetSession
<1>4. CASE RpcStep
  BY <1>4 DEF RpcStep, CreateFSConnection, CleanupClose, RpcFail
<1>5. ASSUME NEW c \in Conns, Connect(c) \/ Lose(c) \/ Recycle(c) PROVE SessionServed'
  BY <1>5 DEF Connect, Lose, Recycle, Forgotten
<1>6. CASE UNCHANGED vars
  BY <1>6 DEF vars
<1> QED
  BY <1>1, <1>2, <1>3, <1>4, <1>5, <1>6 DEF Next, ServerStep

\* Whatever handlers race, a session in the map has a handler that has yet to remove what
\* is in the map when its session ends (the deferred CloseSession, arpc.go 32-35).
THEOREM SessionsServed == Spec => []SessionServed
<1>1. Init => SessionServed
  BY DEF Init, SessionServed
<1>2. TypeOK /\ SessionServed /\ [Next]_vars => SessionServed'
  BY ServedStep
<1> QED BY <1>1, <1>2, TypeCorrect, PTL DEF Spec
=============================================================================
