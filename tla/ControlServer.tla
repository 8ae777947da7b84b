--------------------------- MODULE ControlServer ---------------------------
(***************************************************************************)
(* The two control requests that live as long as a client does             *)
(* (server/ControlServer.cpp), each on the detached thread of its socket:  *)
(*                                                                         *)
(*   POST /wifidrop/client/connect     makes a client id, mounts the       *)
(*     phone's drive, registers the client and answers with the id;        *)
(*   GET  /wifidrop/client/session/ID  is held open and carries a          *)
(*     heartbeat until sending fails for DisconnectTimeout or the client   *)
(*     is no longer registered.  The thread then removes and unmounts it.  *)
(*                                                                         *)
(* A connect thread is named by the id it makes (ids do not repeat), a     *)
(* session thread by a member of Handlers; a handler that has ended serves *)
(* another session.  A phone may hold several sessions for one id.  All    *)
(* other requests only use a socket: they end a thread in "receive".       *)
(***************************************************************************)
EXTENDS ClientManager, WebDavDriveMapper

CONSTANT Handlers

ASSUME HandlersAssumption ==
    /\ Handlers \cap Clients = {}
    /\ Nobody \notin Handlers

Threads == Clients \cup Handlers

VARIABLES sock,       \* the socket of each thread, as its peer and the server left it
          connect,    \* where the connect thread of each id is
          localName,  \* the letter Mount has found and not yet connected
          session,    \* where each session thread is
          target,     \* the id it was asked for
          silence     \* age of its lastSuccessfulSend, up to DisconnectTimeout

controlVars == <<sock, connect, localName, session, target, silence>>

SockStates == {"none", "accepted", "open", "dead"}

ConnectStates == {"none", "receive", "find", "attach", "add", "done"}
Building == {"find", "attach", "add"}

SessionStates ==
    {"none", "receive", "headers", "beat", "sleep", "remove", "unmount", "close"}

ControlTypeOK ==
    /\ sock \in [Threads -> SockStates]
    /\ connect \in [Clients -> ConnectStates]
    /\ localName \in [Clients -> Letters \cup {NoLetter}]
    /\ \A c \in Clients : connect[c] = "attach" => localName[c] \in Letters
    /\ session \in [Handlers -> SessionStates]
    /\ target \in [Handlers -> Clients \cup {Nobody}]
    /\ silence \in [Handlers -> 0 .. DisconnectTimeout]

ControlInit ==
    /\ sock = [t \in Threads |-> "none"]
    /\ connect = [c \in Clients |-> "none"]
    /\ localName = [c \in Clients |-> NoLetter]
    /\ session = [h \in Handlers |-> "none"]
    /\ target = [h \in Handlers |-> Nobody]
    /\ silence = [h \in Handlers |-> 0]

ConnectAt(c, s) == connect' = [connect EXCEPT ![c] = s]
SessionAt(h, s) == session' = [session EXCEPT ![h] = s]
Close(t) == sock' = [sock EXCEPT ![t] = "none"]

-----------------------------------------------------------------------------
(* HandleConnectRequest. *)

connectOthers == <<session, target, silence>>

\* The request is parsed; a client without a WebDAV endpoint is not mounted.
ReceiveConnect(c) ==
    /\ connect[c] = "receive"
    /\ sock[c] = "open"
    /\ ConnectAt(c, "find") \/ ConnectAt(c, "add")
    /\ UNCHANGED <<sock, localName, connectOthers, managerVars, driveVars>>

\* The socket fails, or the request is malformed, of another protocol version,
\* or for another endpoint.
RejectConnect(c) ==
    /\ connect[c] = "receive"
    /\ ConnectAt(c, "done")
    /\ Close(c)
    /\ UNCHANGED <<localName, connectOthers, managerVars, driveVars>>

\* Mutated form: the search goes on below D: and Mount takes what it finds there.
FindDriveLetterBelow(c) ==
    /\ connect[c] = "find"
    /\ \E l \in Letters \cup {NoLetter} :
          /\ IsHighestFree(l) \/ (FreeLetters = {} /\ l = NoLetter)
          /\ localName' = [localName EXCEPT ![c] = l]
    /\ ConnectAt(c, "attach")
    /\ UNCHANGED <<sock, connectOthers, managerVars, driveVars>>

FindDriveLetter(c) ==
    /\ connect[c] = "find"
    /\ \/ \E l \in Letters :
             /\ IsHighestFree(l)
             /\ localName' = [localName EXCEPT ![c] = l]
             /\ ConnectAt(c, "attach")
       \/ /\ FreeLetters = {}
          /\ ConnectAt(c, "add")
          /\ UNCHANGED localName
    /\ UNCHANGED <<sock, connectOthers, managerVars, driveVars>>

AttachDrive(c) ==
    /\ connect[c] = "attach"
    /\ AttachSucceeds(c, localName[c])
    /\ ConnectAt(c, "add")
    /\ localName' = [localName EXCEPT ![c] = NoLetter]
    /\ UNCHANGED <<sock, connectOthers, managerVars>>

\* "trying another letter"
AttachCollision(c) ==
    /\ connect[c] = "attach"
    /\ AttachCollides(localName[c])
    /\ ConnectAt(c, "find")
    /\ localName' = [localName EXCEPT ![c] = NoLetter]
    /\ UNCHANGED <<sock, connectOthers, managerVars, driveVars>>

\* Any other error: the client is registered without a drive.
AttachError(c) ==
    /\ connect[c] = "attach"
    /\ ~AttachCollides(localName[c])
    /\ ConnectAt(c, "add")
    /\ localName' = [localName EXCEPT ![c] = NoLetter]
    /\ UNCHANGED <<sock, connectOthers, managerVars, driveVars>>

\* Sending the answer, which may take as long as the phone likes, and closing the
\* socket are part of this step: nobody looks at the result, and the thread does
\* nothing after it.
RegisterClient(c) ==
    /\ connect[c] = "add"
    /\ AddClient(c)
    /\ ConnectAt(c, "done")
    /\ Close(c)
    /\ UNCHANGED <<localName, connectOthers, driveVars>>

-----------------------------------------------------------------------------
(* HandleSessionRequest. *)

sessionOthers == <<connect, localName>>

\* The id is looked up in the registry, where it is from RegisterClient on: the
\* session may come before the connect request is answered.
ReceiveSession(h) ==
    /\ session[h] = "receive"
    /\ sock[h] = "open"
    /\ \E c \in Clients :
          /\ MarkSessionStarted(c)
          /\ target' = [target EXCEPT ![h] = c]
    /\ SessionAt(h, "headers")
    /\ UNCHANGED <<sock, silence, sessionOthers, driveVars>>

\* 404 for an id that is not registered; also every request that is not for a
\* session, and every socket that fails first.
RejectSession(h) ==
    /\ session[h] = "receive"
    /\ SessionAt(h, "none")
    /\ Close(h)
    /\ UNCHANGED <<target, silence, sessionOthers, managerVars, driveVars>>

SendHeaders(h) ==
    /\ session[h] = "headers"
    /\ sock[h] = "open"
    /\ silence' = [silence EXCEPT ![h] = 0]
    /\ SessionAt(h, "beat")
    /\ UNCHANGED <<sock, target, sessionOthers, managerVars, driveVars>>

HeadersFail(h) ==
    /\ session[h] = "headers"
    /\ sock[h] = "dead"
    /\ SessionAt(h, "remove")
    /\ UNCHANGED <<sock, target, silence, sessionOthers, managerVars, driveVars>>

\* send blocks while the peer does not read, so this step may never come.
SendHeartbeat(h) ==
    /\ session[h] = "beat"
    /\ sock[h] = "open"
    /\ silence' = [silence EXCEPT ![h] = 0]
    /\ TouchClient(target[h])
    /\ SessionAt(h, "sleep")
    /\ UNCHANGED <<sock, target, sessionOthers, driveVars>>

\* Mutated form: the send is retried until it succeeds.
HeartbeatRetried(h) ==
    /\ session[h] = "beat"
    /\ sock[h] = "dead"
    /\ UNCHANGED <<controlVars, managerVars, driveVars>>

HeartbeatFails(h) ==
    /\ session[h] = "beat"
    /\ sock[h] = "dead"
    /\ SessionAt(h, IF silence[h] >= DisconnectTimeout THEN "remove" ELSE "sleep")
    /\ UNCHANGED <<sock, target, silence, sessionOthers, managerVars, driveVars>>

WakeSession(h) ==
    /\ session[h] = "sleep"
    /\ SessionAt(h, IF target[h] \in clients THEN "beat" ELSE "remove")
    /\ UNCHANGED <<sock, target, silence, sessionOthers, managerVars, driveVars>>

\* Mutated form: the removed record is dropped without unmounting it.
RemoveSessionClientOnly(h) ==
    /\ session[h] = "remove"
    /\ IF target[h] \in clients THEN RemoveClient(target[h]) ELSE UNCHANGED managerVars
    /\ SessionAt(h, "close")
    /\ UNCHANGED <<sock, target, silence, sessionOthers, driveVars>>

RemoveSessionClient(h) ==
    /\ session[h] = "remove"
    /\ IF target[h] \in clients
       THEN RemoveClient(target[h]) /\ SessionAt(h, "unmount")
       ELSE SessionAt(h, "close") /\ UNCHANGED managerVars
    /\ UNCHANGED <<sock, target, silence, sessionOthers, driveVars>>

UnmountSessionClient(h) ==
    /\ session[h] = "unmount"
    /\ Unmount(target[h])
    /\ SessionAt(h, "close")
    /\ UNCHANGED <<sock, target, silence, sessionOthers, managerVars>>

CloseSession(h) ==
    /\ session[h] = "close"
    /\ SessionAt(h, "none")
    /\ target' = [target EXCEPT ![h] = Nobody]
    /\ silence' = [silence EXCEPT ![h] = 0]
    /\ Close(h)
    /\ UNCHANGED <<sessionOthers, managerVars, driveVars>>

-----------------------------------------------------------------------------
(* Time passes for every send loop and every record in memory. *)

Connecting == {c \in Clients : connect[c] \in Building}
Holding == {h \in Handlers : session[h] \in {"beat", "sleep"}}

PassTime ==
    /\ Age(Connecting \cup clients)
    /\ silence' = [h \in Handlers |-> IF h \in Holding THEN Older(silence[h]) ELSE silence[h]]
    /\ UNCHANGED <<sock, connect, localName, session, target, driveVars>>
=============================================================================
