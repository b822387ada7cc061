------------------------------ MODULE ArpcSession ------------------------------
(***************************************************************************)
(* internal/arpc Session with auto-reconnect: the session an agent keeps   *)
(* with its server.  Three kinds of goroutine find out that the connection *)
(* is dead and start the same attemptReconnect: the loop that calls Serve, *)
(* the goroutines the connection monitor starts, and calls that cannot     *)
(* open a stream.  They coordinate through the connection state, the       *)
(* circuit breaker and reconnectChan, which holds one token.               *)
(***************************************************************************)
CONSTANTS
  Conns,     \* connections
  Serve,     \* the goroutine that serves the session
  Attempts,  \* goroutines that the monitor and calls have started: room for so many
  Callers,   \* goroutines that make calls
  NoConn     \* no connection

ASSUME ThreadsAssumption ==
  /\ NoConn \notin Conns
  /\ Serve \notin Attempts \cup Callers
  /\ Attempts \cap Callers = {}

VARIABLES
  agentEnd,  \* the client's end of a connection
  mux,       \* muxSess: the connection in use
  state,     \* ConnectionState
  circuit,   \* circuitOpen with circuitResetAt: "expired" is open past its time
  token,     \* reconnectChan holds a token
  at,        \* where a goroutine stands
  held,      \* the connection it serves, uses or has just made
  reachable, \* the server can be dialled
  cancelled, \* Session.ctx is done
  stopping   \* ReconnectCtx, the context of the program, is done

vars == <<agentEnd, mux, state, circuit, token, at, held, reachable, cancelled, stopping>>
sharedVars == <<mux, state, circuit, token, cancelled>>
worldVars == <<reachable, stopping>>

Reconnectors == {Serve} \cup Attempts
Threads == Reconnectors \cup Callers

Ends == {"none", "open", "closed"}
States == {"connected", "disconnected", "reconnecting", "failed"}
Circuits == {"closed", "open", "expired"}
AttemptStages == {"cas", "check", "wait", "probe", "dial", "store", "connect",
                  "announceOk", "announceErr"}
ServeStages == {"load", "accept", "outer", "done"} \cup AttemptStages
SpawnedStages == {"idle", "preprobe"} \cup AttemptStages
CallStages == {"idle", "stream", "down", "mark", "breaker", "callProbe", "choose",
               "callWait", "verify", "giveUp"}

\* The stages between winning the compare-and-swap and the store that ends the attempt
Reconnecting == {"probe", "dial", "store", "connect"}

Dead(c) == agentEnd[c] # "open"

Init ==
  /\ \E c \in Conns :
       /\ mux = c
       /\ agentEnd = [d \in Conns |-> IF d = c THEN "open" ELSE "none"]
  /\ state = "connected"
  /\ circuit = "closed"
  /\ token = FALSE
  /\ at = [t \in Threads |-> IF t = Serve THEN "load" ELSE "idle"]
  /\ held = [t \in Threads |-> NoConn]
  /\ reachable = TRUE
  /\ cancelled = FALSE
  /\ stopping = FALSE

Goto(t, from, to) ==
  /\ at[t] = from
  /\ at' = [at EXCEPT ![t] = to]

\* attemptReconnect returns: the goroutine of a monitor or a call is over; Serve takes the
\* new connection, or returns the error to the loop that called it.
Return(t, from, ok) ==
  /\ Goto(t, from, IF t # Serve THEN "idle" ELSE IF ok THEN "load" ELSE "outer")
  /\ held' = [held EXCEPT ![t] = NoConn]

\* Close stops the monitor and closes the connection in use, not the others.
CloseSession ==
  /\ cancelled' = TRUE
  /\ agentEnd' = [agentEnd EXCEPT ![mux] = "closed"]

-----------------------------------------------------------------------------
(* Session.Serve, and the loop around it in the agent *)

Load ==
  /\ Goto(Serve, "load", "accept")
  /\ held' = [held EXCEPT ![Serve] = mux]
  /\ UNCHANGED <<agentEnd, sharedVars, worldVars>>

\* AcceptStream fails; the state is stored whatever it was.
AcceptFails ==
  /\ Goto(Serve, "accept", "cas")
  /\ Dead(held[Serve])
  /\ state' = "disconnected"
  /\ held' = [held EXCEPT ![Serve] = NoConn]
  /\ UNCHANGED <<agentEnd, mux, circuit, token, cancelled, worldVars>>

\* The program's loop: Serve again (after clearing the backup store), until it is stopped.
ServeAgain ==
  /\ ~stopping
  /\ Goto(Serve, "outer", "load")
  /\ UNCHANGED <<agentEnd, held, sharedVars, worldVars>>

Quit ==
  /\ stopping
  /\ Goto(Serve, "outer", "done")
  /\ CloseSession
  /\ UNCHANGED <<held, mux, state, circuit, token, worldVars>>

-----------------------------------------------------------------------------
(* attemptReconnect *)

CompareAndSwap(t) ==
  /\ \/ /\ state = "disconnected"
        /\ Goto(t, "cas", "probe")
        /\ state' = "reconnecting"
     \/ /\ state # "disconnected"
        /\ Goto(t, "cas", "check")
        /\ UNCHANGED state
  /\ UNCHANGED <<agentEnd, held, mux, circuit, token, cancelled, worldVars>>

Check(t) ==
  /\ \/ state = "connected" /\ Return(t, "check", TRUE)
     \/ state # "connected" /\ Goto(t, "check", "wait") /\ UNCHANGED held
  /\ UNCHANGED <<agentEnd, sharedVars, worldVars>>

\* The token of the reconnection that is under way, or an old one
Told(t) ==
  /\ token
  /\ token' = FALSE
  /\ Return(t, "wait", state = "connected")
  /\ UNCHANGED <<agentEnd, mux, state, circuit, cancelled, worldVars>>

WaitCancelled(t) ==
  /\ cancelled
  /\ Return(t, "wait", FALSE)
  /\ UNCHANGED <<agentEnd, sharedVars, worldVars>>

\* Mutant: the state of a reconnection that ends at the probe is not stored.
ProbeSilently(t) ==
  /\ \/ /\ reachable
        /\ Goto(t, "probe", "dial")
        /\ UNCHANGED circuit
     \/ /\ ~reachable \/ stopping
        /\ Goto(t, "probe", "announceErr")
        /\ circuit' = "open"
  /\ UNCHANGED <<agentEnd, held, mux, state, token, cancelled, worldVars>>

\* dialWithProbe: connect and close at once
Probe(t) ==
  /\ \/ /\ reachable
        /\ Goto(t, "probe", "dial")
        /\ UNCHANGED <<state, circuit>>
     \/ /\ ~reachable \/ stopping
        /\ Goto(t, "probe", "announceErr")
        /\ circuit' = "open"
        /\ state' = "disconnected"
  /\ UNCHANGED <<agentEnd, held, mux, token, cancelled, worldVars>>

\* dialWithBackoff goes on until there is a connection ...
Dial(t) ==
  /\ reachable
  /\ Goto(t, "dial", "store")
  /\ \E c \in Conns :
       /\ agentEnd[c] = "none"
       /\ agentEnd' = [agentEnd EXCEPT ![c] = "open"]
       /\ held' = [held EXCEPT ![t] = c]
  /\ UNCHANGED <<sharedVars, worldVars>>

\* ... or the program is stopped.
DialCancelled(t) ==
  /\ stopping
  /\ Goto(t, "dial", "announceErr")
  /\ circuit' = "open"
  /\ state' = "failed"
  /\ UNCHANGED <<agentEnd, held, mux, token, cancelled, worldVars>>

\* The connection that was in use is neither looked at nor closed.
Store(t) ==
  /\ Goto(t, "store", "connect")
  /\ mux' = held[t]
  /\ held' = [held EXCEPT ![t] = NoConn]
  /\ UNCHANGED <<agentEnd, state, circuit, token, cancelled, worldVars>>

Connect(t) ==
  /\ Goto(t, "connect", "announceOk")
  /\ state' = "connected"
  /\ UNCHANGED <<agentEnd, held, mux, circuit, token, cancelled, worldVars>>

\* Mutant: nobody is told.
AnnounceToNobody(t) ==
  /\ \/ Return(t, "announceOk", TRUE)
     \/ Return(t, "announceErr", FALSE)
  /\ UNCHANGED <<agentEnd, sharedVars, worldVars>>

\* The deferred send, which does not block
Announce(t) ==
  /\ \/ Return(t, "announceOk", TRUE)
     \/ Return(t, "announceErr", FALSE)
  /\ token' = TRUE
  /\ UNCHANGED <<agentEnd, mux, state, circuit, cancelled, worldVars>>

Reconnect(t) ==
  \/ CompareAndSwap(t) \/ Check(t) \/ Told(t) \/ WaitCancelled(t)
  \/ Probe(t) \/ Dial(t) \/ DialCancelled(t) \/ Store(t) \/ Connect(t) \/ Announce(t)

-----------------------------------------------------------------------------
(* connectionMonitor *)

\* A tick finds the connection dead, nobody at it and the circuit closed ...
MonitorTick(a) ==
  /\ ~cancelled
  /\ Dead(mux) /\ state # "reconnecting" /\ circuit = "closed"
  /\ Goto(a, "idle", "cas")
  /\ UNCHANGED <<agentEnd, held, sharedVars, worldVars>>

\* ... or open for long enough: it is closed, and the server probed first.
MonitorReset(a) ==
  /\ ~cancelled
  /\ Dead(mux) /\ state # "reconnecting" /\ circuit = "expired"
  /\ Goto(a, "idle", "preprobe")
  /\ circuit' = "closed"
  /\ UNCHANGED <<agentEnd, held, mux, state, token, cancelled, worldVars>>

PreProbe(a) ==
  /\ Goto(a, "preprobe", IF reachable THEN "cas" ELSE "idle")
  /\ UNCHANGED <<agentEnd, held, sharedVars, worldVars>>

CircuitExpires ==
  /\ circuit = "open"
  /\ circuit' = "expired"
  /\ UNCHANGED <<agentEnd, mux, state, token, at, held, cancelled, worldVars>>

-----------------------------------------------------------------------------
(* A call: openStreamWithReconnect *)

Call(k) ==
  /\ Goto(k, "idle", "stream")
  /\ held' = [held EXCEPT ![k] = mux]
  /\ UNCHANGED <<agentEnd, sharedVars, worldVars>>

OpenStream(k) ==
  /\ Goto(k, "stream", IF Dead(held[k]) THEN "down" ELSE "idle")
  /\ held' = [held EXCEPT ![k] = NoConn]
  /\ UNCHANGED <<agentEnd, sharedVars, worldVars>>

\* The state is loaded ...
Down(k) ==
  /\ Goto(k, "down", IF state = "connected" THEN "mark" ELSE "breaker")
  /\ UNCHANGED <<agentEnd, held, sharedVars, worldVars>>

\* ... and stored, whatever it is by now.
Mark(k) ==
  /\ Goto(k, "mark", "breaker")
  /\ state' = "disconnected"
  /\ UNCHANGED <<agentEnd, held, mux, circuit, token, cancelled, worldVars>>

Breaker(k) ==
  /\ \/ circuit = "open" /\ Goto(k, "breaker", "giveUp") /\ UNCHANGED circuit
     \/ circuit # "open" /\ Goto(k, "breaker", "callProbe") /\ circuit' = "closed"
  /\ UNCHANGED <<agentEnd, held, mux, state, token, cancelled, worldVars>>

CallProbe(k) ==
  /\ \/ reachable /\ Goto(k, "callProbe", "choose") /\ UNCHANGED circuit
     \/ ~reachable /\ Goto(k, "callProbe", "giveUp") /\ circuit' = "open"
  /\ UNCHANGED <<agentEnd, held, mux, state, token, cancelled, worldVars>>

\* Wait for the reconnection under way, or start one and wait for it.
Choose(k) ==
  /\ at[k] = "choose"
  /\ \/ /\ state = "reconnecting"
        /\ at' = [at EXCEPT ![k] = "callWait"]
     \/ /\ state # "reconnecting"
        /\ \E a \in Attempts :
             at[a] = "idle" /\ at' = [at EXCEPT ![k] = "callWait", ![a] = "cas"]
  /\ UNCHANGED <<agentEnd, held, sharedVars, worldVars>>

CallTold(k) ==
  /\ token
  /\ Goto(k, "callWait", "verify")
  /\ token' = FALSE
  /\ UNCHANGED <<agentEnd, held, mux, state, circuit, cancelled, worldVars>>

\* After five seconds, or when the session has been closed
CallWaitEnds(k) ==
  /\ Goto(k, "callWait", "giveUp")
  /\ UNCHANGED <<agentEnd, held, sharedVars, worldVars>>

Verify(k) ==
  /\ Goto(k, "verify", IF state = "connected" THEN "idle" ELSE "giveUp")
  /\ UNCHANGED <<agentEnd, held, sharedVars, worldVars>>

GiveUp(k) ==
  /\ Goto(k, "giveUp", "idle")
  /\ CloseSession
  /\ UNCHANGED <<held, mux, state, circuit, token, worldVars>>

CallStep(k) ==
  \/ OpenStream(k) \/ Down(k) \/ Mark(k) \/ Breaker(k) \/ CallProbe(k) \/ Choose(k)
  \/ CallTold(k) \/ CallWaitEnds(k) \/ Verify(k) \/ GiveUp(k)

-----------------------------------------------------------------------------
(* The network and the program *)

\* Connections are lost while the server cannot be reached.
Lose(c) ==
  /\ ~reachable
  /\ agentEnd[c] = "open"
  /\ agentEnd' = [agentEnd EXCEPT ![c] = "closed"]
  /\ UNCHANGED <<at, held, sharedVars, worldVars>>

Vanish ==
  /\ reachable
  /\ reachable' = FALSE
  /\ UNCHANGED <<agentEnd, at, held, sharedVars, stopping>>

Reappear ==
  /\ ~reachable
  /\ reachable' = TRUE
  /\ UNCHANGED <<agentEnd, at, held, sharedVars, stopping>>

Stop ==
  /\ ~stopping
  /\ stopping' = TRUE
  /\ UNCHANGED <<agentEnd, at, held, sharedVars, reachable>>

\* No goroutine can use the connection any more, be it closed or left open for good: its
\* name can stand for a later one.
Forget(c) ==
  /\ agentEnd[c] # "none"
  /\ c # mux
  /\ \A t \in Threads : held[t] # c
  /\ agentEnd' = [agentEnd EXCEPT ![c] = "none"]
  /\ UNCHANGED <<at, held, sharedVars, worldVars>>

Terminated == stopping /\ at[Serve] = "done"

ServeStep == Load \/ AcceptFails \/ ServeAgain \/ Quit

Next ==
  \/ ServeStep
  \/ \E t \in Reconnectors : Reconnect(t)
  \/ \E a \in Attempts : MonitorTick(a) \/ MonitorReset(a) \/ PreProbe(a)
  \/ CircuitExpires
  \/ \E k \in Callers : Call(k) \/ CallStep(k)
  \/ \E c \in Conns : Lose(c) \/ Forget(c)
  \/ Vanish \/ Reappear \/ Stop
  \/ Terminated /\ UNCHANGED vars

Spec == Init /\ [][Next]_vars

(***************************************************************************)
(* Fairness.  The goroutines run, the monitor ticks while there is room,   *)
(* and time passes.  A goroutine that waits for a token is woken while     *)
(* there is one, unless another takes it.                                  *)
(***************************************************************************)
Fairness ==
  /\ WF_vars(ServeStep)
  /\ \A t \in Reconnectors : WF_vars(Reconnect(t))
  /\ \A a \in Attempts : WF_vars(MonitorTick(a) \/ MonitorReset(a)) /\ WF_vars(PreProbe(a))
  /\ \A k \in Callers : WF_vars(CallStep(k))
  /\ \A c \in Conns : WF_vars(Forget(c))
  /\ WF_vars(CircuitExpires)

FairSpec == Spec /\ Fairness
-----------------------------------------------------------------------------
(* Properties *)

TypeOK ==
  /\ agentEnd \in [Conns -> Ends]
  /\ mux \in Conns
  /\ state \in States
  /\ circuit \in Circuits
  /\ {token, reachable, cancelled, stopping} \subseteq BOOLEAN
  /\ at \in [Threads -> ServeStages \cup SpawnedStages \cup CallStages]
  /\ at[Serve] \in ServeStages
  /\ \A a \in Attempts : at[a] \in SpawnedStages
  /\ \A k \in Callers : at[k] \in CallStages
  /\ held \in [Threads -> Conns \cup {NoConn}]
  /\ \A t \in Threads : at[t] \in {"accept", "store", "stream"} => held[t] # NoConn

\* While the state says that a reconnection is under way, some goroutine is at it: the
\* monitor and the calls, which then keep away, are never kept away for nothing
\* (connection_manager.go 157, 230 and 257).
ReconnectOwned ==
  state = "reconnecting" => \E t \in Reconnectors : at[t] \in Reconnecting

\* Once the server stays reachable, Serve settles on a connection that is up, whatever the
\* monitor does beside it (arpc.go 110-133, connection_manager.go 212-254).
Reconnects ==
  <>[](reachable /\ ~stopping) => <>[](at[Serve] = "accept" /\ ~Dead(held[Serve]))

=============================================================================
