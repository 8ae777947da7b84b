--------------------------- MODULE WifiDropServer ---------------------------
(***************************************************************************)
(* The running server (server/WifiDropServer.cpp): the accept thread, the  *)
(* maintenance thread, the detached threads of ControlServer and the UI    *)
(* thread in Stop, over one client registry and one set of drive letters.  *)
(*                                                                         *)
(* Every thread step is one action; threads interleave freely, and a sleep *)
(* or a system call may take any number of Ticks.  The threads Stop does   *)
(* not join run on after it, until the process exits.                      *)
(***************************************************************************)
EXTENDS ControlServer

VARIABLES acceptor,     \* acceptThread_
          maintenance,  \* maintenanceThread_
          sweepBatch,   \* what RemoveInactive returned, not yet unmounted
          stop,         \* how far Stop is; running_ is true until it begins
          caught,       \* the phone connection in whose handle the discovery thread
                        \* waits, while Stop joins that thread
          stopBatch     \* what Clear returned, not yet unmounted

serverVars == <<acceptor, maintenance, sweepBatch, stop, caught, stopBatch>>
vars == <<managerVars, driveVars, controlVars, serverVars>>

StopStates ==
    {"up", "joinDiscovery", "closeListen", "closeActive", "joinAccept",
     "joinMaintenance", "clear", "unmount", "stopped", "exited"}

TypeOK ==
    /\ ManagerTypeOK
    /\ DriveTypeOK
    /\ ControlTypeOK
    /\ acceptor \in {"accept", "insert", "exited"}
    /\ maintenance \in {"sleep", "sweep", "unmount", "exited"}
    /\ sweepBatch \subseteq Clients
    /\ stop \in StopStates
    /\ caught \in Threads \cup {Nobody}
    /\ stopBatch \subseteq Clients

\* Start has returned: both threads run and no phone has connected yet.
Init ==
    /\ ManagerInit
    /\ DriveInit
    /\ ControlInit
    /\ acceptor = "accept"
    /\ maintenance = "sleep"
    /\ sweepBatch = {}
    /\ stop = "up"
    /\ caught = Nobody
    /\ stopBatch = {}

Running == stop = "up"

\* Mutated form: Stop does not close the listening socket.
ListenSocketLeaks == stop # "exited"

Listening == stop \in {"up", "joinDiscovery", "closeListen"}

ProcessAlive == stop # "exited"

-----------------------------------------------------------------------------
(* AcceptLoop.  The test of running_ is part of the step before it: nothing *)
(* the accept thread does lies between them.                                *)

acceptOthers == <<localName, target, silence, maintenance, sweepBatch, stop, stopBatch,
                  managerVars, driveVars>>

\* accept returns the socket of a new phone connection.  While Stop is at the discovery
\* thread, whose socket it has closed, that thread may be about to receive from the
\* handle value that the new connection got (DiscoveryResponder.tla).
AcceptReturns(t) ==
    /\ acceptor = "accept"
    /\ Listening
    /\ IF t \in Clients THEN connect[t] = "none" ELSE session[t] = "none"
    /\ sock' = [sock EXCEPT ![t] = "accepted"]
    /\ acceptor' = "insert"
    /\ IF stop = "joinDiscovery" THEN caught' \in {Nobody, t} ELSE UNCHANGED caught
    /\ UNCHANGED <<connect, session, acceptOthers>>

\* The socket enters activeSockets_ and its thread is started and detached.
InsertAndSpawn(t) ==
    /\ acceptor = "insert"
    /\ sock[t] = "accepted"
    /\ sock' = [sock EXCEPT ![t] = "open"]
    /\ acceptor' = IF Running THEN "accept" ELSE "exited"
    /\ IF t \in Clients
       THEN ConnectAt(t, "receive") /\ UNCHANGED session
       ELSE SessionAt(t, "receive") /\ UNCHANGED connect
    /\ UNCHANGED <<caught, acceptOthers>>

\* accept fails once the listening socket is closed.
AcceptFails ==
    /\ acceptor = "accept"
    /\ ~Listening
    /\ acceptor' = "exited"
    /\ UNCHANGED <<controlVars, maintenance, sweepBatch, stop, caught, stopBatch,
                   managerVars, driveVars>>

-----------------------------------------------------------------------------
(* MaintenanceLoop, with the test of running_ after the last unmount. *)

maintenanceOthers == <<controlVars, acceptor, stop, caught, stopBatch>>

MaintenanceWakes ==
    /\ maintenance = "sleep"
    /\ ReadNow
    /\ maintenance' = "sweep"
    /\ UNCHANGED <<sweepBatch, maintenanceOthers, driveVars>>

MaintenanceSweeps ==
    /\ maintenance = "sweep"
    /\ sweepBatch' = Inactive
    /\ RemoveInactive
    /\ maintenance' = "unmount"
    /\ UNCHANGED <<maintenanceOthers, driveVars>>

\* Mutated form: the loop over removedClients ends after its first round.
MaintenanceUnmountsFirst(c) ==
    /\ maintenance = "unmount"
    /\ c \in sweepBatch
    /\ Unmount(c)
    /\ sweepBatch' = {}
    /\ UNCHANGED <<maintenance, maintenanceOthers, managerVars>>

MaintenanceUnmounts(c) ==
    /\ maintenance = "unmount"
    /\ c \in sweepBatch
    /\ Unmount(c)
    /\ sweepBatch' = sweepBatch \ {c}
    /\ UNCHANGED <<maintenance, maintenanceOthers, managerVars>>

\* Mutated form: one pass and no loop.
MaintenanceEnds ==
    /\ maintenance = "unmount"
    /\ sweepBatch = {}
    /\ maintenance' = "exited"
    /\ UNCHANGED <<sweepBatch, maintenanceOthers, managerVars, driveVars>>

MaintenanceLoops ==
    /\ maintenance = "unmount"
    /\ sweepBatch = {}
    /\ maintenance' = IF Running THEN "sleep" ELSE "exited"
    /\ UNCHANGED <<sweepBatch, maintenanceOthers, managerVars, driveVars>>

-----------------------------------------------------------------------------
(* Stop, on the UI thread, and the end of the process after it. *)

stopOthers == <<acceptor, maintenance, sweepBatch>>

StopAt(from, to) == stop = from /\ stop' = to

StopBegins ==
    /\ StopAt("up", "joinDiscovery")
    /\ UNCHANGED <<caught, stopBatch, stopOthers, controlVars, managerVars, driveVars>>

\* The discovery thread waits for a phone, not for Stop.
DiscoveryWaits == caught # Nobody /\ sock[caught] \in {"accepted", "open"}

\* discoveryResponder_.Stop() comes back from its join.
JoinDiscovery ==
    /\ StopAt("joinDiscovery", "closeListen")
    /\ ~DiscoveryWaits
    /\ caught' = Nobody
    /\ UNCHANGED <<stopBatch, stopOthers, controlVars, managerVars, driveVars>>

CloseListen ==
    /\ StopAt("closeListen", "closeActive")
    /\ UNCHANGED <<caught, stopBatch, stopOthers, controlVars, managerVars, driveVars>>

\* Every socket in activeSockets_; one that is accepted and not inserted yet is
\* not among them.
CloseActiveClientSockets ==
    /\ StopAt("closeActive", "joinAccept")
    /\ sock' = [t \in Threads |-> IF sock[t] = "open" THEN "dead" ELSE sock[t]]
    /\ UNCHANGED <<connect, localName, session, target, silence,
                   caught, stopBatch, stopOthers, managerVars, driveVars>>

JoinAccept ==
    /\ StopAt("joinAccept", "joinMaintenance")
    /\ acceptor = "exited"
    /\ UNCHANGED <<caught, stopBatch, stopOthers, controlVars, managerVars, driveVars>>

JoinMaintenance ==
    /\ StopAt("joinMaintenance", "clear")
    /\ maintenance = "exited"
    /\ UNCHANGED <<caught, stopBatch, stopOthers, controlVars, managerVars, driveVars>>

ClearClients ==
    /\ StopAt("clear", "unmount")
    /\ stopBatch' = clients
    /\ Clear
    /\ UNCHANGED <<caught, stopOthers, controlVars, driveVars>>

StopUnmounts(c) ==
    /\ StopAt("unmount", "unmount")
    /\ c \in stopBatch
    /\ Unmount(c)
    /\ stopBatch' = stopBatch \ {c}
    /\ UNCHANGED <<caught, stopOthers, controlVars, managerVars>>

StopReturns ==
    /\ StopAt("unmount", "stopped")
    /\ stopBatch = {}
    /\ UNCHANGED <<caught, stopBatch, stopOthers, controlVars, managerVars, driveVars>>

\* App::Run returns, and with it every thread that is still running ends.
ProcessExits ==
    /\ StopAt("stopped", "exited")
    /\ UNCHANGED <<caught, stopBatch, stopOthers, controlVars, managerVars, driveVars>>

-----------------------------------------------------------------------------
(* The phones, the network, the user and the clock. *)

\* A phone closes a connection, or the network gives it up.
PeerLost(t) ==
    /\ sock[t] = "open"
    /\ sock' = [sock EXCEPT ![t] = "dead"]
    /\ UNCHANGED <<connect, localName, session, target, silence,
                   serverVars, managerVars, driveVars>>

\* The phone sends: its bytes end the discovery thread's recvfrom.
PhoneFreesDiscovery ==
    /\ DiscoveryWaits
    /\ caught' = Nobody
    /\ UNCHANGED <<acceptor, maintenance, sweepBatch, stop, stopBatch,
                   controlVars, managerVars, driveVars>>

Tick ==
    /\ ProcessAlive
    /\ PassTime
    /\ UNCHANGED serverVars

DriveChanges(l) ==
    /\ OtherProgramMaps(l) \/ UserDisconnects(l)
    /\ UNCHANGED <<serverVars, controlVars, managerVars>>

-----------------------------------------------------------------------------
\* What a thread does without waiting for a phone.
ConnectWork(c) ==
    /\ ProcessAlive
    /\ \/ FindDriveLetter(c)
       \/ AttachDrive(c)
       \/ AttachCollision(c)
       \/ AttachError(c)
       \/ RegisterClient(c)
       \/ sock[c] = "dead" /\ RejectConnect(c)
    /\ UNCHANGED serverVars

SessionWork(h) ==
    /\ ProcessAlive
    /\ \/ HeadersFail(h)
       \/ HeartbeatFails(h)
       \/ WakeSession(h)
       \/ RemoveSessionClient(h)
       \/ UnmountSessionClient(h)
       \/ CloseSession(h)
       \/ sock[h] = "dead" /\ RejectSession(h)
    /\ UNCHANGED serverVars

\* Receiving from a phone and sending to it.
ConnectNetwork(c) ==
    /\ ProcessAlive
    /\ ReceiveConnect(c) \/ RejectConnect(c)
    /\ UNCHANGED serverVars

SessionNetwork(h) ==
    /\ ProcessAlive
    /\ \/ ReceiveSession(h)
       \/ RejectSession(h)
       \/ SendHeaders(h)
       \/ SendHeartbeat(h)
    /\ UNCHANGED serverVars

AcceptWork == AcceptFails \/ \E t \in Threads : InsertAndSpawn(t)

MaintenanceWork ==
    \/ MaintenanceWakes
    \/ MaintenanceSweeps
    \/ \E c \in Clients : MaintenanceUnmounts(c)
    \/ MaintenanceLoops

StopWork ==
    \/ JoinDiscovery
    \/ CloseListen
    \/ CloseActiveClientSockets
    \/ JoinAccept
    \/ JoinMaintenance
    \/ ClearClients
    \/ \E c \in Clients : StopUnmounts(c)
    \/ StopReturns

Environment ==
    /\ ProcessAlive
    /\ \/ \E t \in Threads : AcceptReturns(t) \/ PeerLost(t)
       \/ \E l \in Letters : DriveChanges(l)
       \/ PhoneFreesDiscovery

Next ==
    \/ \E c \in Clients : ConnectWork(c) \/ ConnectNetwork(c)
    \/ \E h \in Handlers : SessionWork(h) \/ SessionNetwork(h)
    \/ AcceptWork
    \/ MaintenanceWork
    \/ StopBegins
    \/ StopWork
    \/ ProcessExits
    \/ Environment
    \/ Tick

Spec == Init /\ [][Next]_vars

\* The operating system runs every thread that is not waiting for a phone, and
\* the clock ticks.  Nothing makes a phone send or read, or the user quit.
Fairness ==
    /\ \A c \in Clients : WF_vars(ConnectWork(c))
    /\ \A h \in Handlers : WF_vars(SessionWork(h))
    /\ WF_vars(AcceptWork)
    /\ WF_vars(MaintenanceWork)
    /\ WF_vars(StopWork)
    /\ WF_vars(Tick)

FairSpec == Spec /\ Fairness

-----------------------------------------------------------------------------
(* Who answers for a client: the thread that still builds its record, the   *)
(* registry, or a thread that took the record out to unmount it.            *)

Unmounting(h) == {c \in Clients : session[h] = "unmount" /\ target[h] = c}

Responsible ==
    Connecting \cup clients \cup sweepBatch \cup stopBatch
        \cup UNION {Unmounting(h) : h \in Handlers}

Disjoint(S, T) == S \cap T = {}

\* A client's record is in one place: of the session threads of one id, the
\* maintenance thread and Stop, all of which remove clients under no common
\* lock, one at most gets to unmount it (RemoveClient, RemoveInactive, Clear).
OneHolder ==
    /\ Disjoint(Connecting, clients)
    /\ Disjoint(Connecting, sweepBatch)
    /\ Disjoint(Connecting, stopBatch)
    /\ Disjoint(clients, sweepBatch)
    /\ Disjoint(clients, stopBatch)
    /\ Disjoint(sweepBatch, stopBatch)
    /\ \A h \in Handlers :
          /\ Disjoint(Unmounting(h), Connecting)
          /\ Disjoint(Unmounting(h), clients)
          /\ Disjoint(Unmounting(h), sweepBatch)
          /\ Disjoint(Unmounting(h), stopBatch)
          /\ \A g \in Handlers \ {h} : Disjoint(Unmounting(h), Unmounting(g))

\* Records that Stop's Clear has missed: requests that had not registered yet, and what
\* they registered since.  Once the process has exited, the sessions that had not come
\* to their unmount either.
MissedByStop ==
    IF stop \in {"unmount", "stopped", "exited"}
    THEN Connecting \cup clients
            \cup (IF ProcessAlive THEN {} ELSE UNION {Unmounting(h) : h \in Handlers})
    ELSE {}

\* No drive is forgotten: while a letter is connected to a phone, there is one record
\* that names this letter, and who has it is still to unmount it.  The two exceptions
\* are a drive that Windows refused to disconnect, whose record is dropped all the same
\* (WebDavDriveMapper.cpp), and a drive whose record Stop has missed.
NoLostDrive ==
    \A l \in Letters : drives[l] \in Clients =>
        /\ \/ drives[l] \in Responsible \ MissedByStop
           \/ drives[l] \in refused
           \/ drives[l] \in MissedByStop
        /\ driveLetter[drives[l]] = l

\* A client's drive is taken away only on that client's behalf.  Unmount goes by
\* letter, and letters are reused at once: an unmount that came late, or twice,
\* would force out the next client's drive.
UnmountsOwnDrive ==
    [][\A l \in Letters, c \in Clients :
          drives[l] = c /\ drives'[l] # c =>
              c \in Responsible \ (Connecting \cup clients) /\ c \notin Responsible']_vars

\* A client is timed out only if nothing was heard of it up to the moment it is
\* taken out of the registry, although RemoveInactive reads the clock before it
\* locks and a heartbeat may come in between.
SweptWasSilent ==
    [][\A c \in sweepBatch' \ sweepBatch : idle[c] >= DisconnectTimeout]_vars

\* The abstract promise: a letter is lent to one client and comes back only when
\* that client was given up, that is, answered once and no longer registered.
Lease == INSTANCE DriveLease WITH
    holder <- [l \in Letters |-> IF drives[l] \in Clients THEN drives[l] ELSE Nobody],
    revoked <- {c \in Clients : connect[c] = "done"} \ clients

LeaseSpec == Lease!Spec

-----------------------------------------------------------------------------
(* Liveness, under FairSpec. *)

HasDrive(c) == \E l \in Letters : drives[l] = c

\* Stop returns although session threads may hang in send and a connection may be
\* accepted while the sockets are being closed: it waits for a phone in one place only,
\* the join of a discovery thread that has got hold of a phone's connection.
StopTerminates ==
    (stop = "joinDiscovery" ~> stop = "stopped") \/ <>[]DiscoveryWaits

\* Mount comes back with a letter or an error: it does not look for letters
\* for ever.
MountReturns ==
    \A c \in Clients :
        connect[c] = "find" ~> (connect[c] \in {"add", "done"} \/ stop = "exited")

\* A session whose connection broke ends, after the timeout or when its client
\* is removed by someone else.
DeadSessionEnds ==
    \A h \in Handlers :
        sock[h] = "dead" ~> (session[h] = "none" \/ stop = "exited")

\* A client that is given up loses its drive, unless the process ends first or Windows
\* refuses to disconnect it: nobody tries a second time.
RevokedDriveIsReleased ==
    \A c \in Clients :
        (connect[c] = "done" /\ c \notin clients) ~>
            (~HasDrive(c) \/ c \in refused \/ stop = "exited")

\* A phone that connects and never opens a session, or loses it for good, does
\* not keep its letter while the server runs.
AbandonedDriveIsReleased ==
    \A c \in Clients :
        <>[](\A h \in Handlers : target[h] # c)
            => <>[](~HasDrive(c) \/ c \in refused \/ ~Running)

-----------------------------------------------------------------------------
(* What comments of the code promise and the code does not keep. *)

\* "Завершает работу сервисов и освобождает системные ресурсы" (App.h): when the
\* process has shut down, it leaves no phone's drive behind.
ShutdownReleasesDrives ==
    stop = "exited" => \A c \in Clients : ~HasDrive(c)

\* "Удерживает persistent session, пока Android не отключится" (ControlServer.h): a
\* session thread that ends does not remove a client whose phone is connected
\* through another session.
SessionLastsWhileConnected ==
    [][\A h, g \in Handlers :
          /\ session[h] = "remove" /\ session'[h] = "unmount"
          /\ g # h /\ target[g] = target[h] /\ session[g] \in {"beat", "sleep"}
          => sock[g] = "dead"]_vars
=============================================================================
