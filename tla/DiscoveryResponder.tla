-------------------------- MODULE DiscoveryResponder --------------------------
(***************************************************************************)
(* server/DiscoveryResponder.cpp: the thread that answers UDP probes, and  *)
(* its Stop, which closes the thread's socket under it and joins it.       *)
(*                                                                         *)
(* The thread reads the word socket_ without a lock before every call, and *)
(* Stop closes the socket before it resets that word.  Windows may give    *)
(* the handle value to a phone's connection in between, so the calls go to *)
(* whatever the value refers to when they are made.  A call that has begun *)
(* stays with its socket (peer) and is aborted when that one is closed.    *)
(***************************************************************************)
EXTENDS Naturals

CONSTANTS Handlers,  \* connections, each with the thread that serves it
          Handles,   \* SOCKET values
          Responder, \* the discovery socket
          Nobody,    \* no connection
          NoHandle   \* INVALID_SOCKET

ASSUME NobodyAssumption == Nobody \notin Handlers
ASSUME NoHandleAssumption == NoHandle \notin Handles
ASSUME ResponderAssumption == Responder \notin Handlers \cup {Nobody}

VARIABLES openBy,     \* what each handle refers to now
          socket,     \* socket_
          discovery,  \* how far the responder's Stop is
          loop,       \* where RunLoop is
          reading,    \* the value of socket_ that its next call got
          peer        \* the socket that its recvfrom waits on

discoveryVars == <<socket, discovery, loop, reading, peer>>

DiscoveryStates == {"running", "closing", "clearing", "joining", "stopped"}
LoopStates == {"test", "receive", "receiving", "answer", "send", "ended"}

DiscoveryTypeOK ==
    /\ openBy \in [Handles -> Handlers \cup {Responder, Nobody}]
    /\ socket \in Handles \cup {NoHandle}
    /\ discovery \in DiscoveryStates
    /\ loop \in LoopStates
    /\ reading \in Handles \cup {NoHandle}
    /\ peer \in Handlers \cup {Responder, Nobody}

\* Start has bound the port, or has failed: then nothing runs and Stop returns.
DiscoveryInit ==
    /\ reading = NoHandle
    /\ peer = Nobody
    /\ \/ \E s \in Handles :
             /\ openBy = [x \in Handles |-> IF x = s THEN Responder ELSE Nobody]
             /\ socket = s
             /\ discovery = "running"
             /\ loop = "test"
       \/ /\ openBy = [x \in Handles |-> Nobody]
          /\ socket = NoHandle
          /\ discovery = "stopped"
          /\ loop = "ended"

\* What a call on a handle value reaches.
Reached(s) == IF s \in Handles THEN openBy[s] ELSE Nobody

-----------------------------------------------------------------------------
(* RunLoop *)

TestRunning ==
    /\ loop = "test"
    /\ IF discovery = "running"
       THEN loop' = "receive" /\ reading' = socket
       ELSE loop' = "ended" /\ UNCHANGED reading
    /\ UNCHANGED <<openBy, socket, discovery, peer>>

\* recvfrom takes hold of a socket, or fails at once on a handle that is closed.
EnterReceive ==
    /\ loop = "receive"
    /\ peer' = Reached(reading)
    /\ loop' = IF Reached(reading) = Nobody THEN "test" ELSE "receiving"
    /\ UNCHANGED <<openBy, socket, discovery, reading>>

\* A probe, which is answered, or anything else, which is not.
Datagram ==
    /\ loop = "receiving"
    /\ openBy[reading] = peer
    /\ loop' \in {"answer", "test"}
    /\ peer' = Nobody
    /\ UNCHANGED <<openBy, socket, discovery, reading>>

ReceiveAborted ==
    /\ loop = "receiving"
    /\ openBy[reading] # peer
    /\ loop' = "test"
    /\ peer' = Nobody
    /\ UNCHANGED <<openBy, socket, discovery, reading>>

ReadSocket ==
    /\ loop = "answer"
    /\ loop' = "send"
    /\ reading' = socket
    /\ UNCHANGED <<openBy, socket, discovery, peer>>

SendAnswer ==
    /\ loop = "send"
    /\ loop' = "test"
    /\ UNCHANGED <<openBy, socket, discovery, reading, peer>>

-----------------------------------------------------------------------------
(* Stop *)

DiscoveryStopBegins ==
    /\ discovery = "running"
    /\ discovery' = "closing"
    /\ UNCHANGED <<openBy, socket, loop, reading, peer>>

\* Mutated form: the socket is left to the join.
JoinFirst ==
    /\ discovery = "closing"
    /\ discovery' = "clearing"
    /\ UNCHANGED <<openBy, socket, loop, reading, peer>>

CloseDiscovery ==
    /\ discovery = "closing"
    /\ openBy' = [openBy EXCEPT ![socket] = Nobody]
    /\ discovery' = "clearing"
    /\ UNCHANGED <<socket, loop, reading, peer>>

ClearSocket ==
    /\ discovery = "clearing"
    /\ socket' = NoHandle
    /\ discovery' = "joining"
    /\ UNCHANGED <<openBy, loop, reading, peer>>

\* Mutated form: the thread is left behind.
DetachDiscovery ==
    /\ discovery = "joining"
    /\ discovery' = "stopped"
    /\ UNCHANGED <<openBy, socket, loop, reading, peer>>

JoinDiscovery ==
    /\ discovery = "joining"
    /\ loop = "ended"
    /\ discovery' = "stopped"
    /\ UNCHANGED <<openBy, socket, loop, reading, peer>>

RunLoop == TestRunning \/ EnterReceive \/ ReceiveAborted \/ ReadSocket \/ SendAnswer

StopDiscovery == CloseDiscovery \/ ClearSocket \/ JoinDiscovery

-----------------------------------------------------------------------------
\* A call of the responder that gets at a phone's connection: it takes bytes of a
\* request, or writes its answer into one.
Disturbs ==
    \/ loop = "receiving" /\ peer \in Handlers
    \/ loop = "send" /\ Reached(reading) \in Handlers
=============================================================================
