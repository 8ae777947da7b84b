------------------------ MODULE ActiveSocketsProofs ------------------------
(***************************************************************************)
(* What ActiveSockets guarantees for any number of connections and handles.*)
(***************************************************************************)
EXTENDS ActiveSockets, TLAPS

\* Until Stop closes the active sockets, the handle of a connection that is being
\* accepted or served is its own; afterwards no handle is given out any more.
OwnInv ==
    /\ acceptor # "insert" => accepting = Nobody
    /\ \A h \in Handlers : pc[h] = "accepted" <=> accepting = h
    /\ \A h \in Handlers : pc[h] \in {"accepted", "serving"} =>
          /\ handle[h] \in Handles
          /\ openBy[handle[h]] = h \/ stop = "joinAccept"
          /\ openBy[handle[h]] \in {h, Nobody}
    /\ \A h \in Handlers : pc[h] = "closed" => handle[h] \in Handles

\* Until its Stop closes it, the discovery socket is open under socket_ and the
\* thread knows no other value; when Stop goes on, the thread has ended.
ResponderInv ==
    /\ discovery \in {"running", "closing"} =>
          /\ socket \in Handles
          /\ openBy[socket] = Responder
          /\ loop \in {"receive", "receiving", "send"} => reading = socket
          /\ loop = "receiving" => peer = Responder
    /\ discovery = "stopped" => loop = "ended"
    /\ stop = "up" => discovery \in {"running", "stopped"}
    /\ stop \in {"closeListen", "closeActive", "joinAccept"} => discovery = "stopped"

\* A connection that is served and not listed lost its entry to the thread that had
\* its handle before.
ListedInv ==
    stop # "joinAccept" =>
        \A h \in Handlers : pc[h] = "serving" /\ handle[h] \notin activeSockets =>
            \E g \in Handlers \ {h} : handle[g] = handle[h] /\ pc[g] = "done"

IInv == TypeOK /\ OwnInv /\ ActiveIsServed /\ ResponderInv /\ ListedInv

LEMMA InitIInv == Init => IInv
<1> SUFFICES ASSUME Init PROVE IInv
  OBVIOUS
<1> USE NobodyAssumption, ResponderAssumption, NoHandleAssumption
    DEF Init, DiscoveryInit, TypeOK, DiscoveryTypeOK, DiscoveryStates, LoopStates, HandlerStates, StopStates
<1>1. OwnInv /\ ActiveIsServed /\ ListedInv
  BY DEF OwnInv, ActiveIsServed, ListedInv
<1>2. TypeOK /\ ResponderInv
  <2>1. CASE loop = "ended"
    BY <2>1 DEF ResponderInv
  <2>2. CASE loop # "ended"
    BY <2>2 DEF ResponderInv
  <2> QED BY <2>1, <2>2
<1> QED BY <1>1, <1>2 DEF IInv

\* Steps of the responder and of its Stop leave the connections alone: the only
\* handle they close is their own.
LEMMA ResponderStep ==
    ASSUME IInv, RunLoop \/ Datagram \/ DiscoveryStopBegins \/ StopDiscovery,
           stop = "up" => ~(DiscoveryStopBegins \/ StopDiscovery),
           stop = "discovery" \/ UNCHANGED discovery,
           UNCHANGED serverVars
    PROVE  IInv'
<1> USE NobodyAssumption, ResponderAssumption, NoHandleAssumption
    DEF IInv, TypeOK, DiscoveryTypeOK, DiscoveryStates, LoopStates, HandlerStates, StopStates,
        serverVars, handlerVars
<1>1. CASE RunLoop \/ Datagram
  <2>1. UNCHANGED <<openBy, socket, discovery>>
    BY <1>1 DEF RunLoop, TestRunning, EnterReceive, ReceiveAborted, ReadSocket, SendAnswer, Datagram
  <2>2. TypeOK'
    BY <1>1, <2>1 DEF RunLoop, TestRunning, EnterReceive, ReceiveAborted, ReadSocket, SendAnswer,
                      Datagram, Reached
  <2>3. ResponderInv'
    BY <1>1, <2>1 DEF RunLoop, TestRunning, EnterReceive, ReceiveAborted, ReadSocket, SendAnswer,
                      Datagram, Reached, ResponderInv
  <2> QED BY <2>1, <2>2, <2>3 DEF OwnInv, ActiveIsServed, ListedInv
<1>2. CASE DiscoveryStopBegins \/ ClearSocket \/ JoinDiscovery
  <2>1. TypeOK' /\ ResponderInv'
    BY <1>2 DEF DiscoveryStopBegins, ClearSocket, JoinDiscovery, StopDiscovery, ResponderInv
  <2>2. UNCHANGED openBy
    BY <1>2 DEF DiscoveryStopBegins, ClearSocket, JoinDiscovery
  <2> QED BY <2>1, <2>2 DEF OwnInv, ActiveIsServed, ListedInv
<1>3. CASE CloseDiscovery
  <2>1. socket \in Handles /\ openBy[socket] = Responder
    BY <1>3 DEF CloseDiscovery, ResponderInv
  <2>2. \A h \in Handlers : pc[h] \in {"accepted", "serving"} => handle[h] # socket
    BY <2>1 DEF OwnInv
  <2>3. TypeOK' /\ ResponderInv'
    BY <1>3, <2>1 DEF CloseDiscovery, StopDiscovery, ResponderInv
  <2>4. OwnInv'
    BY <1>3, <2>1, <2>2 DEF CloseDiscovery, OwnInv
  <2> QED BY <1>3, <2>3, <2>4 DEF CloseDiscovery, ActiveIsServed, ListedInv
<1> QED BY <1>1, <1>2, <1>3 DEF StopDiscovery

LEMMA NextIInv == IInv /\ [Next]_vars => IInv'
<1> SUFFICES ASSUME IInv, [Next]_vars PROVE IInv'
  OBVIOUS
<1> USE NobodyAssumption, ResponderAssumption, NoHandleAssumption
    DEF IInv, TypeOK, DiscoveryTypeOK, HandlerStates, StopStates, discoveryVars, serverVars, handlerVars
<1>1. CASE UNCHANGED vars
  BY <1>1 DEF vars, OwnInv, ActiveIsServed, ResponderInv, ListedInv
<1>2. ASSUME NEW h \in Handlers, Accept(h) PROVE IInv'
  <2>1. PICK s \in Handles :
           /\ openBy[s] = Nobody
           /\ openBy' = [openBy EXCEPT ![s] = h]
           /\ handle' = [handle EXCEPT ![h] = s]
    BY <1>2 DEF Accept
  <2>2. TypeOK'
    BY <1>2, <2>1 DEF Accept
  <2>3. OwnInv'
    BY <1>2, <2>1 DEF Accept, Listening, OwnInv
  <2>4. ActiveIsServed'
    BY <1>2, <2>1 DEF Accept, ActiveIsServed
  <2>5. ResponderInv'
    BY <1>2, <2>1 DEF Accept, ResponderInv
  <2>6. ASSUME NEW i \in Handlers, stop # "joinAccept", pc'[i] = "serving", handle'[i] \notin activeSockets'
        PROVE  \E g \in Handlers \ {i} : handle'[g] = handle'[i] /\ pc'[g] = "done"
    <3>1. i # h /\ pc[i] = "serving" /\ handle[i] \notin activeSockets
      BY <1>2, <2>1, <2>6 DEF Accept
    <3>2. PICK g \in Handlers \ {i} : handle[g] = handle[i] /\ pc[g] = "done"
      BY <2>6, <3>1 DEF ListedInv
    <3> QED BY <1>2, <2>1, <3>1, <3>2 DEF Accept
  <2> QED BY <1>2, <2>2, <2>3, <2>4, <2>5, <2>6 DEF Accept, ListedInv
<1>3. ASSUME NEW h \in Handlers, InsertAndSpawn(h) PROVE IInv'
  <2>1. TypeOK' /\ OwnInv' /\ ResponderInv'
    BY <1>3 DEF InsertAndSpawn, OwnInv, ResponderInv
  <2>2. ASSUME NEW s \in activeSockets'
        PROVE  \E g \in Handlers : handle'[g] = s /\ pc'[g] \in {"serving", "closed"}
    <3>1. CASE s = handle[h]
      BY <1>3, <3>1 DEF InsertAndSpawn
    <3>2. CASE s \in activeSockets
      <4>1. PICK g \in Handlers : handle[g] = s /\ pc[g] \in {"serving", "closed"}
        BY <3>2 DEF ActiveIsServed
      <4> QED BY <1>3, <4>1 DEF InsertAndSpawn
    <3> QED BY <1>3, <2>2, <3>1, <3>2 DEF InsertAndSpawn
  <2>3. ListedInv'
    BY <1>3 DEF InsertAndSpawn, ListedInv, OwnInv
  <2> QED BY <2>1, <2>2, <2>3 DEF ActiveIsServed
<1>4. ASSUME NEW h \in Handlers, CloseSocket(h) PROVE IInv'
  <2>1. TypeOK' /\ OwnInv'
    BY <1>4 DEF CloseSocket, Closed, OwnInv
  <2>2. ActiveIsServed' /\ ListedInv'
    BY <1>4 DEF CloseSocket, ActiveIsServed, ListedInv
  <2>3. ResponderInv'
    <3>1. openBy[handle[h]] # Responder
      BY <1>4 DEF CloseSocket, OwnInv
    <3> QED BY <1>4, <3>1 DEF CloseSocket, Closed, ResponderInv
  <2> QED BY <2>1, <2>2, <2>3
<1>5. ASSUME NEW h \in Handlers, Erase(h) PROVE IInv'
  <2>1. TypeOK' /\ OwnInv' /\ ResponderInv'
    BY <1>5 DEF Erase, OwnInv, ResponderInv
  <2>2. ActiveIsServed'
    BY <1>5 DEF Erase, ActiveIsServed
  <2>3. ListedInv'
    BY <1>5 DEF Erase, ListedInv
  <2> QED BY <2>1, <2>2, <2>3
<1>6. CASE StopBegins \/ DiscoveryStopped \/ CloseListen \/ TestAccept \/ AcceptFails
  BY <1>6 DEF StopBegins, DiscoveryStopped, CloseListen, TestAccept, AcceptFails,
              OwnInv, ActiveIsServed, ResponderInv, ListedInv
<1>7. CASE CloseActiveClientSockets
  BY <1>7 DEF CloseActiveClientSockets, OwnInv, ActiveIsServed, ResponderInv, ListedInv
<1>8. CASE RunLoopStep
  <2>1. UNCHANGED discovery /\ ~(DiscoveryStopBegins \/ StopDiscovery)
    BY <1>8 DEF RunLoopStep, RunLoop, TestRunning, EnterReceive, ReceiveAborted, ReadSocket, SendAnswer,
                Datagram, DiscoveryStopBegins, StopDiscovery, CloseDiscovery, ClearSocket, JoinDiscovery
  <2> QED BY <1>8, <2>1, ResponderStep DEF RunLoopStep
<1>9. CASE StopDiscoveryStep
  BY <1>9, ResponderStep DEF StopDiscoveryStep
<1> QED
  BY <1>1, <1>2, <1>3, <1>4, <1>5, <1>6, <1>7, <1>8, <1>9 DEF Next

\* TypeOK: the server and the responder keep their types.
THEOREM SocketTypes == Spec => []TypeOK
BY InitIInv, NextIInv, PTL DEF Spec, IInv

\* ClosesOwnSocket: no order of closing, reusing and erasing handles makes a thread
\* close a connection of another.
THEOREM SocketsAreOwn == Spec => []ClosesOwnSocket
<1>1. IInv => ClosesOwnSocket
  BY DEF IInv, OwnInv, ClosesOwnSocket
<1> QED
  BY <1>1, InitIInv, NextIInv, PTL DEF Spec

\* ActiveIsServed: no handle stays in activeSockets_ after its last thread.
THEOREM ActiveSocketsAreServed == Spec => []ActiveIsServed
BY InitIInv, NextIInv, PTL DEF Spec, IInv

\* StopMissesOnlyReused: Stop reaches every connection that is served, except those
\* whose handle an earlier connection's thread has erased since.
THEOREM StopReachesServed == Spec => StopMissesOnlyReused
<1> DEFINE Reaches ==
      CloseActiveClientSockets =>
          \A h \in Handlers : pc[h] = "serving" /\ openBy'[handle[h]] = h =>
              \E g \in Handlers \ {h} : handle[g] = handle[h] /\ pc[g] = "done"
<1>1. IInv => Reaches
  BY NobodyAssumption
     DEF IInv, TypeOK, OwnInv, ListedInv, CloseActiveClientSockets
<1>2. IInv /\ [Next]_vars => [Reaches]_vars
  BY <1>1
<1> QED
  BY <1>2, InitIInv, NextIInv, PTL DEF Spec, StopMissesOnlyReused

\* DisturbsOnlyAtStop: a stale handle value of the responder reaches a phone's
\* connection only while Stop waits for its thread.
THEOREM RespondersCallsAreOwn == Spec => []DisturbsOnlyAtStop
<1>1. IInv => DisturbsOnlyAtStop
  BY ResponderAssumption
     DEF IInv, TypeOK, DiscoveryTypeOK, DiscoveryStates, StopStates, ResponderInv, DisturbsOnlyAtStop,
         Disturbs, Reached
<1> QED
  BY <1>1, InitIInv, NextIInv, PTL DEF Spec
=============================================================================
