--------------------------- MODULE ActiveSockets ---------------------------
(***************************************************************************)
(* The bookkeeping of socket handles in server/WifiDropServer.cpp: the set *)
(* activeSockets_, the accept thread that fills it, the detached handler   *)
(* threads that close their handle and then take it out, and Stop, which   *)
(* closes every handle in the set.                                         *)
(*                                                                         *)
(* WifiDropServer knows a connection by its thread.  Here the name is what *)
(* the code has, the handle, and the system may give the handle of a       *)
(* closed socket to the next connection.  How a handler comes to close its *)
(* socket is left to ControlServer.                                        *)
(***************************************************************************)
EXTENDS DiscoveryResponder

VARIABLES handle,         \* clientSocket of each handler
          pc,             \* where each handler is
          activeSockets,  \* activeSockets_
          acceptor,       \* where the accept thread is
          accepting,      \* the connection it is about to insert
          stop            \* how far Stop is

handlerVars == <<handle, pc, activeSockets>>
serverVars == <<handlerVars, acceptor, accepting, stop>>
vars == <<openBy, discoveryVars, serverVars>>

HandlerStates == {"none", "accepted", "serving", "closed", "done"}

StopStates == {"up", "discovery", "closeListen", "closeActive", "joinAccept"}

TypeOK ==
    /\ DiscoveryTypeOK
    /\ handle \in [Handlers -> Handles \cup {NoHandle}]
    /\ pc \in [Handlers -> HandlerStates]
    /\ activeSockets \subseteq Handles
    /\ acceptor \in {"test", "accept", "insert", "ended"}
    /\ accepting \in Handlers \cup {Nobody}
    /\ stop \in StopStates

Init ==
    /\ DiscoveryInit
    /\ handle = [h \in Handlers |-> NoHandle]
    /\ pc = [h \in Handlers |-> "none"]
    /\ activeSockets = {}
    /\ acceptor = "test"
    /\ accepting = Nobody
    /\ stop = "up"

Listening == stop \in {"up", "discovery", "closeListen"}

-----------------------------------------------------------------------------
(* The accept thread *)

TestAccept ==
    /\ acceptor = "test"
    /\ acceptor' = IF stop = "up" THEN "accept" ELSE "ended"
    /\ UNCHANGED <<openBy, discoveryVars, handlerVars, accepting, stop>>

\* Mutated form: the result of accept is not compared with INVALID_SOCKET.
AcceptUnchecked(h) ==
    /\ acceptor = "accept"
    /\ Listening
    /\ pc[h] = "none"
    /\ pc' = [pc EXCEPT ![h] = "accepted"]
    /\ acceptor' = "insert"
    /\ accepting' = h
    /\ UNCHANGED <<openBy, discoveryVars, handle, activeSockets, stop>>

\* accept returns a connection under any handle that is not in use.
Accept(h) ==
    /\ acceptor = "accept"
    /\ Listening
    /\ pc[h] = "none"
    /\ \E s \in Handles :
          /\ openBy[s] = Nobody
          /\ openBy' = [openBy EXCEPT ![s] = h]
          /\ handle' = [handle EXCEPT ![h] = s]
    /\ pc' = [pc EXCEPT ![h] = "accepted"]
    /\ acceptor' = "insert"
    /\ accepting' = h
    /\ UNCHANGED <<discoveryVars, activeSockets, stop>>

AcceptFails ==
    /\ acceptor = "accept"
    /\ acceptor' = "test"
    /\ UNCHANGED <<openBy, discoveryVars, handlerVars, accepting, stop>>

\* Mutated form: the connection is served without being listed.
SpawnUnlisted(h) ==
    /\ acceptor = "insert"
    /\ accepting = h
    /\ pc' = [pc EXCEPT ![h] = "serving"]
    /\ acceptor' = "test"
    /\ accepting' = Nobody
    /\ UNCHANGED <<openBy, discoveryVars, handle, activeSockets, stop>>

InsertAndSpawn(h) ==
    /\ acceptor = "insert"
    /\ accepting = h
    /\ activeSockets' = activeSockets \cup {handle[h]}
    /\ pc' = [pc EXCEPT ![h] = "serving"]
    /\ acceptor' = "test"
    /\ accepting' = Nobody
    /\ UNCHANGED <<openBy, discoveryVars, handle, stop>>

-----------------------------------------------------------------------------
(* The handler threads *)

\* closesocket on a handle nobody has open fails and changes nothing.
Closed(s) == openBy' = [openBy EXCEPT ![s] = Nobody]

CloseSocket(h) ==
    /\ pc[h] = "serving"
    /\ Closed(handle[h])
    /\ pc' = [pc EXCEPT ![h] = "closed"]
    /\ UNCHANGED <<discoveryVars, handle, activeSockets, acceptor, accepting, stop>>

\* Mutated form: the thread ends without taking its handle out.
EndWithoutErase(h) ==
    /\ pc[h] = "closed"
    /\ pc' = [pc EXCEPT ![h] = "done"]
    /\ UNCHANGED <<openBy, discoveryVars, handle, activeSockets, acceptor, accepting, stop>>

Erase(h) ==
    /\ pc[h] = "closed"
    /\ activeSockets' = activeSockets \ {handle[h]}
    /\ pc' = [pc EXCEPT ![h] = "done"]
    /\ UNCHANGED <<openBy, discoveryVars, handle, acceptor, accepting, stop>>

-----------------------------------------------------------------------------
(* Stop *)

\* Mutated form: the handlers' sockets are closed before the listening one.
CloseActiveFirst ==
    /\ stop = "up"
    /\ openBy' = [s \in Handles |-> IF s \in activeSockets THEN Nobody ELSE openBy[s]]
    /\ activeSockets' = {}
    /\ stop' = "discovery"
    /\ UNCHANGED <<discoveryVars, handle, pc, acceptor, accepting>>

StopBegins ==
    /\ stop = "up"
    /\ stop' = "discovery"
    /\ UNCHANGED <<openBy, discoveryVars, handlerVars, acceptor, accepting>>

StopDiscoveryStep ==
    /\ stop = "discovery"
    /\ DiscoveryStopBegins \/ StopDiscovery
    /\ UNCHANGED serverVars

DiscoveryStopped ==
    /\ stop = "discovery"
    /\ discovery = "stopped"
    /\ stop' = "closeListen"
    /\ UNCHANGED <<openBy, discoveryVars, handlerVars, acceptor, accepting>>

CloseListen ==
    /\ stop = "closeListen"
    /\ stop' = "closeActive"
    /\ UNCHANGED <<openBy, discoveryVars, handlerVars, acceptor, accepting>>

CloseActiveClientSockets ==
    /\ stop = "closeActive"
    /\ openBy' = [s \in Handles |-> IF s \in activeSockets THEN Nobody ELSE openBy[s]]
    /\ activeSockets' = {}
    /\ stop' = "joinAccept"
    /\ UNCHANGED <<discoveryVars, handle, pc, acceptor, accepting>>

-----------------------------------------------------------------------------
RunLoopStep == (RunLoop \/ Datagram) /\ UNCHANGED serverVars

Next ==
    \/ \E h \in Handlers : Accept(h) \/ InsertAndSpawn(h) \/ CloseSocket(h) \/ Erase(h)
    \/ TestAccept
    \/ AcceptFails
    \/ RunLoopStep
    \/ StopBegins
    \/ StopDiscoveryStep
    \/ DiscoveryStopped
    \/ CloseListen
    \/ CloseActiveClientSockets

Spec == Init /\ [][Next]_vars

ResponderWork == RunLoop /\ UNCHANGED serverVars
StopWork == StopDiscoveryStep \/ DiscoveryStopped

FairSpec == Spec /\ WF_vars(ResponderWork) /\ WF_vars(StopWork)

-----------------------------------------------------------------------------
\* A handler closes its own connection or one that is closed already.  Stop closes
\* the same handles, so a handler's closesocket may come second; by then nobody
\* else may have been given the handle.
ClosesOwnSocket ==
    \A h \in Handlers : pc[h] = "serving" => openBy[handle[h]] \in {h, Nobody}

\* The set holds no handle that its threads have finished with: it would be
\* closed again at Stop, whoever has it then.
ActiveIsServed ==
    \A s \in activeSockets : \E h \in Handlers : handle[h] = s /\ pc[h] \in {"serving", "closed"}

\* "Закрывает все активные клиентские сокеты" (WifiDropServer.h), as far as it is
\* true: a connection that is served and that Stop leaves open was given the
\* handle of an earlier one, whose thread has erased that handle since.
StopMissesOnlyReused ==
    [][CloseActiveClientSockets =>
          \A h \in Handlers : pc[h] = "serving" /\ openBy'[handle[h]] = h =>
              \E g \in Handlers \ {h} : handle[g] = handle[h] /\ pc[g] = "done"]_vars

\* The unlocked reads of socket_ do harm only while Stop waits for the thread,
\* never while the server runs and never to what comes after the join.
DisturbsOnlyAtStop ==
    Disturbs => stop = "discovery" /\ discovery \in {"clearing", "joining"}

\* Closing the socket ends the thread that waits on it, so that Stop gets past the
\* join.  The exception is a thread that has got hold of a phone's connection: it
\* waits for that phone.
DiscoveryStops ==
    stop = "discovery" ~> \/ stop = "closeListen"
                          \/ loop = "receiving" /\ peer \in Handlers
=============================================================================
