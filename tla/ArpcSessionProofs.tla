--------------------------- MODULE ArpcSessionProofs ---------------------------
(***************************************************************************)
(* Proofs about ArpcSession, for any number of connections, goroutines and *)
(* calls.                                                                  *)
(***************************************************************************)
EXTENDS ArpcSession, TLAPS

LEMMA TypeInit == Init => TypeOK
<1> SUFFICES ASSUME Init PROVE TypeOK
  OBVIOUS
<1> USE ThreadsAssumption DEF Init, Threads, Reconnectors
<1>1. at[Serve] \in ServeStages
  BY DEF ServeStages
<1>2. \A a \in Attempts : at[a] \in SpawnedStages
  BY DEF SpawnedStages
<1>3. \A k \in Callers : at[k] \in CallStages
  BY DEF CallStages
<1>4. at \in [Threads -> ServeStages \cup SpawnedStages \cup CallStages]
  BY DEF ServeStages, SpawnedStages
<1>5. agentEnd \in [Conns -> Ends] /\ mux \in Conns /\ state \in States /\ circuit \in Circuits
  BY DEF Ends, States, Circuits
<1>6. /\ {token, reachable, cancelled, stopping} \subseteq BOOLEAN
      /\ held \in [Threads -> Conns \cup {NoConn}]
      /\ \A t \in Threads : at[t] \in {"accept", "store", "stream"} => held[t] # NoConn
  OBVIOUS
<1> QED BY <1>1, <1>2, <1>3, <1>4, <1>5, <1>6 DEF TypeOK

LEMMA TypeStep == TypeOK /\ [Next]_vars => TypeOK'
<1> SUFFICES ASSUME TypeOK, [Next]_vars PROVE TypeOK'
  OBVIOUS
<1> USE ThreadsAssumption DEF TypeOK, Threads, Reconnectors, Ends, States, Circuits,
        AttemptStages, ServeStages, SpawnedStages, CallStages, sharedVars, worldVars
<1>1. CASE ServeStep
  <2>1. CASE Load         BY <2>1 DEF Load, Goto
  <2>2. CASE AcceptFails  BY <2>2 DEF AcceptFails, Goto
  <2>3. CASE ServeAgain   BY <2>3 DEF ServeAgain, Goto
  <2>4. CASE Quit         BY <2>4 DEF Quit, Goto, CloseSession
  <2> QED BY <1>1, <2>1, <2>2, <2>3, <2>4 DEF ServeStep
<1>2. ASSUME NEW t \in Reconnectors, Reconnect(t) PROVE TypeOK'
  <2>1. CASE CompareAndSwap(t)  BY <2>1 DEF CompareAndSwap, Goto
  <2>2. CASE Check(t)           BY <2>2 DEF Check, Return, Goto
  <2>3. CASE Told(t)            BY <2>3 DEF Told, Return, Goto
  <2>4. CASE WaitCancelled(t)   BY <2>4 DEF WaitCancelled, Return, Goto
  <2>5. CASE Probe(t)           BY <2>5 DEF Probe, Goto
  <2>6. CASE Dial(t)            BY <2>6 DEF Dial, Goto
  <2>7. CASE DialCancelled(t)   BY <2>7 DEF DialCancelled, Goto
  <2>8. CASE Store(t)           BY <2>8 DEF Store, Goto
  <2>9. CASE Connect(t)         BY <2>9 DEF Connect, Goto
  <2>10. CASE Announce(t)       BY <2>10 DEF Announce, Return, Goto
  <2> QED BY <1>2, <2>1, <2>2, <2>3, <2>4, <2>5, <2>6, <2>7, <2>8, <2>9, <2>10 DEF Reconnect
<1>3. ASSUME NEW a \in Attempts, MonitorTick(a) \/ MonitorReset(a) \/ PreProbe(a)
      PROVE TypeOK'
  BY <1>3 DEF MonitorTick, MonitorReset, PreProbe, Goto
<1>4. CASE CircuitExpires
  BY <1>4 DEF CircuitExpires
<1>5. ASSUME NEW k \in Callers, Call(k) \/ CallStep(k) PROVE TypeOK'
  <2>1. CASE Call(k)          BY <2>1 DEF Call, Goto
  <2>2. CASE OpenStream(k)    BY <2>2 DEF OpenStream, Goto
  <2>3. CASE Down(k)          BY <2>3 DEF Down, Goto
  <2>4. CASE Mark(k)          BY <2>4 DEF Mark, Goto
  <2>5. CASE Breaker(k)       BY <2>5 DEF Breaker, Goto
  <2>6. CASE CallProbe(k)     BY <2>6 DEF CallProbe, Goto
  <2>7. CASE Choose(k)        BY <2>7 DEF Choose
  <2>8. CASE CallTold(k)      BY <2>8 DEF CallTold, Goto
  <2>9. CASE CallWaitEnds(k)  BY <2>9 DEF CallWaitEnds, Goto
  <2>10. CASE Verify(k)       BY <2>10 DEF Verify, Goto
  <2>11. CASE GiveUp(k)       BY <2>11 DEF GiveUp, Goto, CloseSession
  <2> QED
    BY <1>5, <2>1, <2>2, <2>3, <2>4, <2>5, <2>6, <2>7, <2>8, <2>9, <2>10, <2>11 DEF CallStep
<1>6. ASSUME NEW c \in Conns, Lose(c) \/ Forget(c) PROVE TypeOK'
  BY <1>6 DEF Lose, Forget
<1>7. CASE Vanish \/ Reappear \/ Stop
  BY <1>7 DEF Vanish, Reappear, Stop
<1>8. CASE UNCHANGED vars
  BY <1>8 DEF vars
<1> QED
  BY <1>1, <1>2, <1>3, <1>4, <1>5, <1>6, <1>7, <1>8 DEF Next

\* Every variable keeps its type, and nobody serves, stores or calls on a nil connection
\* (the errors dialWithBackoff returns are looked at, connection_manager.go 303-308).
THEOREM TypeCorrect == Spec => []TypeOK
<1>1. Init => TypeOK                   BY TypeInit
<1>2. TypeOK /\ [Next]_vars => TypeOK' BY TypeStep
<1> QED BY <1>1, <1>2, PTL DEF Spec

\* A goroutine that leaves the stages of a reconnection stores another state on its way.
LEMMA OwnedStep == TypeOK /\ ReconnectOwned /\ [Next]_vars => ReconnectOwned'
<1> SUFFICES ASSUME TypeOK, ReconnectOwned, [Next]_vars, state' = "reconnecting"
             PROVE  \E t \in Reconnectors : at'[t] \in Reconnecting
  BY DEF ReconnectOwned
<1>a. at \in [Threads -> ServeStages \cup SpawnedStages \cup CallStages]
  BY DEF TypeOK
<1>b. Reconnectors \subseteq Threads
  BY DEF Threads
<1>c. Callers \subseteq Threads /\ Attempts \subseteq Reconnectors /\ Serve \in Reconnectors
  BY DEF Threads, Reconnectors
\* A step of one goroutine that is not reconnecting leaves the others where they are.
<1>d. ASSUME state = "reconnecting", NEW t \in Threads, at[t] \notin Reconnecting,
             NEW stage, at' = [at EXCEPT ![t] = stage]
      PROVE  \E u \in Reconnectors : at'[u] \in Reconnecting
  <2>1. PICK u \in Reconnectors : at[u] \in Reconnecting
    BY <1>d DEF ReconnectOwned
  <2>2. at'[u] = at[u]
    BY <1>a, <1>b, <1>d, <2>1
  <2> QED BY <2>1, <2>2
<1>e. ASSUME state = "reconnecting", at' = at
      PROVE  \E u \in Reconnectors : at'[u] \in Reconnecting
  BY <1>e DEF ReconnectOwned
<1>1. CASE ServeStep
  <2>1. CASE Load         BY <1>c, <1>b, <1>d, <2>1 DEF Load, Goto, Reconnecting, sharedVars
  <2>2. CASE AcceptFails  BY <2>2 DEF AcceptFails
  <2>3. CASE ServeAgain   BY <1>c, <1>b, <1>d, <2>3 DEF ServeAgain, Goto, Reconnecting, sharedVars
  <2>4. CASE Quit         BY <1>c, <1>b, <1>d, <2>4 DEF Quit, Goto, Reconnecting
  <2> QED BY <1>1, <2>1, <2>2, <2>3, <2>4 DEF ServeStep
<1>2. ASSUME NEW t \in Reconnectors, Reconnect(t)
      PROVE  \E u \in Reconnectors : at'[u] \in Reconnecting
  <2> t \in Threads
    BY <1>b
  <2>1. CASE CompareAndSwap(t)
    <3>1. CASE Goto(t, "cas", "probe")
      BY <1>a, <3>1 DEF Goto, Reconnecting
    <3>2. CASE Goto(t, "cas", "check") /\ UNCHANGED state
      BY <1>d, <3>2 DEF Goto, Reconnecting
    <3> QED BY <2>1, <3>1, <3>2 DEF CompareAndSwap
  <2>2. CASE Check(t)
    BY <1>d, <2>2 DEF Check, Return, Goto, Reconnecting, sharedVars
  <2>3. CASE Told(t)
    BY <1>d, <2>3 DEF Told, Return, Goto, Reconnecting
  <2>4. CASE WaitCancelled(t)
    BY <1>d, <2>4 DEF WaitCancelled, Return, Goto, Reconnecting, sharedVars
  <2>5. CASE Probe(t)
    BY <1>a, <2>5 DEF Probe, Goto, Reconnecting
  <2>6. CASE Dial(t)
    BY <1>a, <2>6 DEF Dial, Goto, Reconnecting
  <2>7. CASE DialCancelled(t)   BY <2>7 DEF DialCancelled
  <2>8. CASE Store(t)
    BY <1>a, <2>8 DEF Store, Goto, Reconnecting
  <2>9. CASE Connect(t)         BY <2>9 DEF Connect
  <2>10. CASE Announce(t)
    BY <1>d, <2>10 DEF Announce, Return, Goto, Reconnecting
  <2> QED BY <1>2, <2>1, <2>2, <2>3, <2>4, <2>5, <2>6, <2>7, <2>8, <2>9, <2>10 DEF Reconnect
<1>3. ASSUME NEW a \in Attempts, MonitorTick(a) \/ MonitorReset(a) \/ PreProbe(a)
      PROVE  \E u \in Reconnectors : at'[u] \in Reconnecting
  <2> a \in Threads
    BY <1>b, <1>c
  <2> QED
    BY <1>d, <1>3 DEF MonitorTick, MonitorReset, PreProbe, Goto, Reconnecting, sharedVars
<1>4. CASE CircuitExpires
  BY <1>e, <1>4 DEF CircuitExpires
<1>5. ASSUME NEW k \in Callers, Call(k) \/ CallStep(k)
      PROVE  \E u \in Reconnectors : at'[u] \in Reconnecting
  <2> k \in Threads
    BY <1>c
  <2>1. CASE Call(k)          BY <1>d, <2>1 DEF Call, Goto, Reconnecting, sharedVars
  <2>2. CASE OpenStream(k)    BY <1>d, <2>2 DEF OpenStream, Goto, Reconnecting, sharedVars
  <2>3. CASE Down(k)          BY <1>d, <2>3 DEF Down, Goto, Reconnecting, sharedVars
  <2>4. CASE Mark(k)          BY <2>4 DEF Mark
  <2>5. CASE Breaker(k)       BY <1>d, <2>5 DEF Breaker, Goto, Reconnecting
  <2>6. CASE CallProbe(k)     BY <1>d, <2>6 DEF CallProbe, Goto, Reconnecting
  <2>7. CASE Choose(k)
    BY <1>d, <2>7 DEF Choose, Reconnecting, sharedVars
  <2>8. CASE CallTold(k)      BY <1>d, <2>8 DEF CallTold, Goto, Reconnecting
  <2>9. CASE CallWaitEnds(k)  BY <1>d, <2>9 DEF CallWaitEnds, Goto, Reconnecting, sharedVars
  <2>10. CASE Verify(k)       BY <1>d, <2>10 DEF Verify, Goto, Reconnecting, sharedVars
  <2>11. CASE GiveUp(k)       BY <1>d, <2>11 DEF GiveUp, Goto, Reconnecting
  <2> QED
    BY <1>5, <2>1, <2>2, <2>3, <2>4, <2>5, <2>6, <2>7, <2>8, <2>9, <2>10, <2>11 DEF CallStep
<1>6. ASSUME NEW c \in Conns, Lose(c) \/ Forget(c)
      PROVE  \E u \in Reconnectors : at'[u] \in Reconnecting
  BY <1>e, <1>6 DEF Lose, Forget, sharedVars
<1>7. CASE Vanish \/ Reappear \/ Stop
  BY <1>e, <1>7 DEF Vanish, Reappear, Stop, sharedVars
<1>8. CASE UNCHANGED vars
  BY <1>e, <1>8 DEF vars
<1> QED
  BY <1>1, <1>2, <1>3, <1>4, <1>5, <1>6, <1>7, <1>8 DEF Next

\* Whatever overtakes what, a state that keeps the monitor and the calls from reconnecting
\* has a goroutine behind it that is reconnecting.
THEOREM ReconnectIsOwned == Spec => []ReconnectOwned
<1>1. Init => ReconnectOwned
  BY DEF Init, ReconnectOwned
<1>2. TypeOK /\ ReconnectOwned /\ [Next]_vars => ReconnectOwned'
  BY OwnedStep
<1> QED BY <1>1, <1>2, TypeCorrect, PTL DEF Spec
=============================================================================
