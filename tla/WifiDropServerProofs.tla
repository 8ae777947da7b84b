------------------------ MODULE WifiDropServerProofs ------------------------
(***************************************************************************)
(* What WifiDropServer guarantees for any number of clients, session       *)
(* threads and drive letters and any timeout.                              *)
(***************************************************************************)
EXTENDS WifiDropServer, TLAPS

-----------------------------------------------------------------------------
(* Types. *)

\* Every variable keeps its type.
LEMMA InitTypeOK == Init => TypeOK
BY TimeoutAssumption, SMT
   DEF Init, TypeOK, ManagerInit, DriveInit, ControlInit, ManagerTypeOK, DriveTypeOK,
       ControlTypeOK, NoLetter, Threads, SockStates, ConnectStates, SessionStates, StopStates

LEMMA NextTypeOK == TypeOK /\ [Next]_vars => TypeOK'
<1> SUFFICES ASSUME TypeOK, [Next]_vars PROVE TypeOK'
  OBVIOUS
<1>0. 0 \in 0 .. DisconnectTimeout
  BY TimeoutAssumption
<1> USE <1>0 DEF TypeOK, ManagerTypeOK, DriveTypeOK, ControlTypeOK
<1>1. CASE UNCHANGED vars
  BY <1>1 DEF vars, managerVars, driveVars, controlVars, serverVars
<1>2. ASSUME NEW c \in Clients, ConnectWork(c) PROVE TypeOK'
  <2> USE DEF ConnectStates, connectOthers, ConnectAt, managerVars, driveVars, serverVars
  <2>1. CASE FindDriveLetter(c)
    BY <1>2, <2>1 DEF ConnectWork, FindDriveLetter, IsHighestFree
  <2>2. CASE AttachDrive(c)
    BY <1>2, <2>2 DEF ConnectWork, AttachDrive, AttachSucceeds
  <2>3. CASE AttachCollision(c) \/ AttachError(c)
    BY <1>2, <2>3 DEF ConnectWork, AttachCollision, AttachError
  <2>4. CASE RegisterClient(c)
    BY <1>2, <2>4 DEF ConnectWork, RegisterClient, AddClient, Close, SockStates, Threads
  <2>5. CASE RejectConnect(c)
    BY <1>2, <2>5 DEF ConnectWork, RejectConnect, Close, SockStates, Threads
  <2> QED BY <1>2, <2>1, <2>2, <2>3, <2>4, <2>5 DEF ConnectWork
<1>3. ASSUME NEW c \in Clients, ConnectNetwork(c) PROVE TypeOK'
  BY <1>3 DEF ConnectNetwork, ReceiveConnect, RejectConnect, ConnectAt, Close,
     ConnectStates, SockStates, Threads, connectOthers, managerVars, driveVars, serverVars
<1>4. ASSUME NEW h \in Handlers, SessionWork(h) PROVE TypeOK'
  <2> USE DEF SessionStates, sessionOthers, SessionAt, managerVars, driveVars, serverVars
  <2>1. CASE HeadersFail(h) \/ HeartbeatFails(h) \/ WakeSession(h)
    BY <1>4, <2>1 DEF SessionWork, HeadersFail, HeartbeatFails, WakeSession
  <2>2. CASE RemoveSessionClient(h)
    BY <1>4, <2>2 DEF SessionWork, RemoveSessionClient, RemoveClient
  <2>3. CASE UnmountSessionClient(h)
    BY <1>4, <2>3 DEF SessionWork, UnmountSessionClient, Unmount, UnmountByLetter, UnmountById, CancelSucceeds, CancelFails
  <2>4. CASE CloseSession(h) \/ RejectSession(h)
    BY <1>4, <2>4 DEF SessionWork, CloseSession, RejectSession, Close, SockStates, Threads
  <2> QED BY <1>4, <2>1, <2>2, <2>3, <2>4 DEF SessionWork
<1>5. ASSUME NEW h \in Handlers, SessionNetwork(h) PROVE TypeOK'
  <2> USE DEF SessionStates, sessionOthers, SessionAt, TouchClient, driveVars, serverVars
  <2>1. CASE ReceiveSession(h)
    BY <1>5, <2>1 DEF SessionNetwork, ReceiveSession, MarkSessionStarted
  <2>2. CASE RejectSession(h)
    BY <1>5, <2>2 DEF SessionNetwork, RejectSession, Close, SockStates, Threads, managerVars
  <2>3. CASE SendHeaders(h) \/ SendHeartbeat(h)
    BY <1>5, <2>3 DEF SessionNetwork, SendHeaders, SendHeartbeat, managerVars
  <2> QED BY <1>5, <2>1, <2>2, <2>3 DEF SessionNetwork
<1>6. CASE AcceptWork
  BY <1>6 DEF AcceptWork, AcceptFails, InsertAndSpawn, acceptOthers, ConnectAt, SessionAt,
     ConnectStates, SessionStates, SockStates, Threads, controlVars, managerVars, driveVars
<1>7. CASE MaintenanceWork
  <2> USE DEF maintenanceOthers, controlVars, driveVars
  <2>1. CASE MaintenanceWakes \/ MaintenanceLoops
    BY <1>7, <2>1 DEF MaintenanceWakes, MaintenanceLoops, ReadNow, managerVars
  <2>2. CASE MaintenanceSweeps
    BY <1>7, <2>2 DEF MaintenanceSweeps, RemoveInactive, Inactive
  <2>3. ASSUME NEW c \in Clients, MaintenanceUnmounts(c) PROVE TypeOK'
    BY <2>3 DEF MaintenanceUnmounts, Unmount, UnmountByLetter, UnmountById, CancelSucceeds, CancelFails, managerVars
  <2> QED BY <1>7, <2>1, <2>2, <2>3 DEF MaintenanceWork
<1>8. CASE StopBegins \/ StopWork \/ ProcessExits
  <2> USE DEF StopStates, StopAt, stopOthers, driveVars
  <2>1. CASE StopBegins \/ JoinDiscovery \/ CloseListen \/ JoinAccept \/ JoinMaintenance \/ StopReturns \/ ProcessExits
    BY <2>1 DEF StopBegins, JoinDiscovery, CloseListen, JoinAccept, JoinMaintenance, StopReturns, ProcessExits,
       controlVars, managerVars
  <2>2. CASE CloseActiveClientSockets
    BY <2>2 DEF CloseActiveClientSockets, SockStates, managerVars
  <2>3. CASE ClearClients
    BY <2>3 DEF ClearClients, Clear, controlVars
  <2>4. ASSUME NEW c \in Clients, StopUnmounts(c) PROVE TypeOK'
    BY <2>4 DEF StopUnmounts, Unmount, UnmountByLetter, UnmountById, CancelSucceeds, CancelFails, controlVars, managerVars
  <2> QED BY <1>8, <2>1, <2>2, <2>3, <2>4 DEF StopWork
<1>9. CASE Environment
  BY <1>9 DEF Environment, AcceptReturns, PeerLost, PhoneFreesDiscovery, DriveChanges, OtherProgramMaps, UserDisconnects,
     acceptOthers, SockStates, Threads, serverVars, controlVars, managerVars, driveVars
<1>10. CASE Tick
  BY <1>10, TimeoutAssumption DEF Tick, PassTime, Age, Older, Holding, Connecting, serverVars, driveVars
<1> QED
  BY <1>1, <1>2, <1>3, <1>4, <1>5, <1>6, <1>7, <1>8, <1>9, <1>10 DEF Next

\* TypeOK: the registry, the drive table and every thread stay in their states,
\* and no age outgrows the timeout.
THEOREM TypeCorrect == Spec => []TypeOK
BY InitTypeOK, NextTypeOK, PTL DEF Spec

-----------------------------------------------------------------------------
(* Who holds a client's record.  OneHolder is not inductive: that a record    *)
(* being built is nowhere else takes that records elsewhere belong to answered*)
(* requests, that session threads only have ids a phone was told, and that an *)
(* accepted socket never starts a thread that has run before.                 *)

OnlyDoneAreHeld == \A c \in clients \cup sweepBatch \cup stopBatch : connect[c] = "done"

TargetsAreDone ==
    \A h \in Handlers :
        /\ target[h] \in Clients => connect[target[h]] = "done"
        /\ session[h] \notin {"none", "receive"} => target[h] \in Clients

AcceptedAreNew ==
    /\ \A c \in Clients : sock[c] = "accepted" => connect[c] = "none"
    /\ \A h \in Handlers : sock[h] = "accepted" => session[h] = "none"

RecordInv == OneHolder /\ OnlyDoneAreHeld /\ TargetsAreDone /\ AcceptedAreNew

LEMMA InitRecordInv == Init => RecordInv
BY NobodyIsNoClient
   DEF Init, ManagerInit, ControlInit, RecordInv, OneHolder, OnlyDoneAreHeld, TargetsAreDone,
       AcceptedAreNew, Threads,
       Disjoint, Unmounting, Connecting, Building

\* An action that changes no record, no thread's record and no connect state.
LEMMA RecordFrame ==
    ASSUME RecordInv,
           UNCHANGED <<clients, sweepBatch, stopBatch, connect, session, target, sock>>
    PROVE  RecordInv'
BY DEF RecordInv, OneHolder, OnlyDoneAreHeld, TargetsAreDone, AcceptedAreNew,
       Disjoint, Unmounting, Connecting, Building

LEMMA NextRecordInv == TypeOK /\ RecordInv /\ [Next]_vars => RecordInv'
<1> SUFFICES ASSUME TypeOK, RecordInv, [Next]_vars PROVE RecordInv'
  OBVIOUS
<1> USE DEF OnlyDoneAreHeld, TargetsAreDone, AcceptedAreNew, OneHolder, Disjoint, Unmounting,
            Connecting, Building
<1> USE DEF TypeOK, ManagerTypeOK, ControlTypeOK
<1>1. CASE UNCHANGED vars
  BY <1>1, RecordFrame DEF vars, managerVars, controlVars, serverVars
<1>2. ASSUME NEW c \in Clients, ConnectWork(c) PROVE RecordInv'
  <2> USE DEF RecordInv, connectOthers, ConnectAt, managerVars, serverVars
  <2>1. CASE FindDriveLetter(c) \/ AttachDrive(c) \/ AttachCollision(c) \/ AttachError(c)
    BY <1>2, <2>1 DEF ConnectWork, FindDriveLetter, AttachDrive, AttachCollision, AttachError
  <2>2. CASE RegisterClient(c)
    BY <1>2, <2>2 DEF ConnectWork, RegisterClient, AddClient, Close, Threads
  <2>3. CASE RejectConnect(c)
    BY <1>2, <2>3 DEF ConnectWork, RejectConnect, Close, Threads
  <2> QED BY <1>2, <2>1, <2>2, <2>3 DEF ConnectWork
<1>3. ASSUME NEW c \in Clients, ConnectNetwork(c) PROVE RecordInv'
  BY <1>3 DEF RecordInv, ConnectNetwork, ReceiveConnect, RejectConnect, ConnectAt,
     Close, Threads, connectOthers, managerVars, serverVars
<1>4. ASSUME NEW h \in Handlers, SessionWork(h) PROVE RecordInv'
  <2> USE DEF RecordInv, sessionOthers, SessionAt, managerVars, serverVars
  <2>1. CASE HeadersFail(h) \/ HeartbeatFails(h) \/ WakeSession(h)
    BY <1>4, <2>1 DEF SessionWork, HeadersFail, HeartbeatFails, WakeSession
  <2>2. CASE RemoveSessionClient(h)
    BY <1>4, <2>2 DEF SessionWork, RemoveSessionClient, RemoveClient
  <2>3. CASE UnmountSessionClient(h)
    BY <1>4, <2>3 DEF SessionWork, UnmountSessionClient
  <2>4. CASE CloseSession(h) \/ RejectSession(h)
    BY <1>4, <2>4, NobodyIsNoClient DEF SessionWork, CloseSession, RejectSession, Close, Threads
  <2> QED BY <1>4, <2>1, <2>2, <2>3, <2>4 DEF SessionWork
<1>5. ASSUME NEW h \in Handlers, SessionNetwork(h) PROVE RecordInv'
  BY <1>5 DEF RecordInv, SessionNetwork, ReceiveSession, RejectSession, SendHeaders, SendHeartbeat,
     MarkSessionStarted, TouchClient, SessionAt, Close, Threads, sessionOthers, managerVars,
     serverVars
<1>6. CASE AcceptWork
  BY <1>6, HandlersAssumption DEF RecordInv, AcceptWork, AcceptFails, InsertAndSpawn, acceptOthers, ConnectAt,
     SessionAt, Threads, controlVars, managerVars
<1>7. CASE MaintenanceWork
  <2> USE DEF RecordInv, maintenanceOthers, controlVars
  <2>1. CASE MaintenanceWakes \/ MaintenanceLoops
    BY <2>1, RecordFrame DEF MaintenanceWakes, MaintenanceLoops, ReadNow, managerVars
  <2>2. CASE MaintenanceSweeps
    BY <2>2 DEF MaintenanceSweeps, RemoveInactive, Inactive
  <2>3. ASSUME NEW c \in Clients, MaintenanceUnmounts(c) PROVE RecordInv'
    BY <2>3 DEF MaintenanceUnmounts, managerVars
  <2> QED BY <1>7, <2>1, <2>2, <2>3 DEF MaintenanceWork
<1>8. CASE StopBegins \/ StopWork \/ ProcessExits
  <2> USE DEF StopAt, stopOthers
  <2>1. CASE StopBegins \/ JoinDiscovery \/ CloseListen \/ JoinAccept \/ JoinMaintenance \/ StopReturns \/ ProcessExits
    BY <2>1, RecordFrame DEF StopBegins, JoinDiscovery, CloseListen, JoinAccept, JoinMaintenance, StopReturns,
       ProcessExits, controlVars, managerVars
  <2>2. CASE CloseActiveClientSockets
    BY <2>2 DEF RecordInv, CloseActiveClientSockets, Threads, managerVars
  <2>3. CASE ClearClients
    BY <2>3 DEF RecordInv, ClearClients, Clear, controlVars
  <2>4. ASSUME NEW c \in Clients, StopUnmounts(c) PROVE RecordInv'
    BY <2>4 DEF RecordInv, StopUnmounts, controlVars, managerVars
  <2> QED BY <1>8, <2>1, <2>2, <2>3, <2>4 DEF StopWork
<1>9. CASE Environment
  <2> USE DEF serverVars, controlVars, managerVars
  <2>1. ASSUME NEW t \in Threads, AcceptReturns(t) \/ PeerLost(t) PROVE RecordInv'
    BY <2>1, HandlersAssumption DEF RecordInv, AcceptReturns, PeerLost, acceptOthers, Threads
  <2>2. ASSUME NEW l \in Letters, DriveChanges(l) PROVE RecordInv'
    BY <2>2, RecordFrame DEF DriveChanges
  <2>3. CASE PhoneFreesDiscovery
    BY <2>3, RecordFrame DEF PhoneFreesDiscovery
  <2> QED BY <1>9, <2>1, <2>2, <2>3 DEF Environment
<1>10. CASE Tick
  BY <1>10, RecordFrame DEF Tick, PassTime, Age, serverVars
<1> QED
  BY <1>1, <1>2, <1>3, <1>4, <1>5, <1>6, <1>7, <1>8, <1>9, <1>10 DEF Next

\* OneHolder: whatever the session threads, the maintenance thread and Stop do at
\* once, one of them at most takes a client's record out of the registry.
THEOREM RecordHasOneHolder == Spec => []OneHolder
<1>1. Spec => [](TypeOK /\ RecordInv)
  BY InitTypeOK, InitRecordInv, NextTypeOK, NextRecordInv, PTL DEF Spec
<1> QED BY <1>1, PTL DEF RecordInv

-----------------------------------------------------------------------------
(* Drives that are mounted.  A drive needs someone who answers for it, and    *)
(* nobody's batch may be overwritten while it still holds records.            *)

DrivesAreKnown ==
    \A l \in Letters : drives[l] \in Clients =>
        drives[l] \in Responsible \cup refused /\ driveLetter[drives[l]] = l

\* Whom Stop has missed still has a record, so that the exceptions of NoLostDrive
\* take nothing from the induction.
LEMMA KnownIsNotLost == DrivesAreKnown <=> NoLostDrive
BY DEF DrivesAreKnown, NoLostDrive, MissedByStop, Responsible

BatchesAreWorkedOff ==
    /\ maintenance # "unmount" => sweepBatch = {}
    /\ stop # "unmount" => stopBatch = {}

\* A connect thread sets driveLetter once, when it connects the letter it found.
MountsOnce ==
    \A c \in Clients :
        /\ connect[c] = "attach" => localName[c] \in Letters
        /\ connect[c] \in {"none", "receive", "find", "attach"} => driveLetter[c] = NoLetter

DriveInv == BatchesAreWorkedOff /\ MountsOnce /\ DrivesAreKnown

LEMMA LettersAreNumbers == NoLetter \notin Letters
BY LettersAssumption

LEMMA InitDriveInv == Init => DriveInv
BY NobodyIsNoClient, ForeignAssumption
   DEF Init, DriveInit, ControlInit, DriveInv, BatchesAreWorkedOff, MountsOnce, DrivesAreKnown

\* An action that takes no record away from those who answer for one, leaves the
\* batches' threads and the mounting threads alone, and maps nothing.
LEMMA DriveFrame ==
    ASSUME DriveInv, Responsible \subseteq Responsible',
           UNCHANGED <<driveVars, connect, localName, maintenance, sweepBatch, stop, stopBatch>>
    PROVE  DriveInv'
BY DEF DriveInv, BatchesAreWorkedOff, MountsOnce, DrivesAreKnown, driveVars

\* Unmounting a client's drive leaves every other drive with who answers for it.
LEMMA UnmountKeepsDrives ==
    ASSUME TypeOK, DrivesAreKnown, NEW c \in Clients, Unmount(c),
           Responsible \ {c} \subseteq Responsible'
    PROVE  DrivesAreKnown'
<1> USE LettersAreNumbers, NobodyIsNoClient, ForeignAssumption
    DEF TypeOK, DriveTypeOK, DrivesAreKnown
<1>1. ASSUME NEW l \in Letters, drives'[l] \in Clients
      PROVE  drives'[l] = drives[l] /\ (drives[l] # c \/ c \in refused')
  BY <1>1 DEF Unmount, UnmountByLetter, UnmountById, CancelSucceeds, CancelFails
<1>2. driveLetter' = driveLetter /\ refused \subseteq refused'
  BY DEF Unmount, UnmountByLetter, UnmountById, CancelSucceeds, CancelFails
<1> QED BY <1>1, <1>2

LEMMA NextDriveInv == TypeOK /\ RecordInv /\ DriveInv /\ [Next]_vars => DriveInv'
<1> SUFFICES ASSUME TypeOK, RecordInv, DriveInv, [Next]_vars PROVE DriveInv'
  OBVIOUS
<1> USE DEF TypeOK, ManagerTypeOK, DriveTypeOK, ControlTypeOK
<1> USE DEF Responsible, Unmounting, Connecting, Building, driveVars
<1>1. CASE UNCHANGED vars
  BY <1>1, DriveFrame DEF vars, managerVars, controlVars, serverVars
<1>2. ASSUME NEW c \in Clients, ConnectWork(c) PROVE DriveInv'
  <2> USE DEF DriveInv, BatchesAreWorkedOff, MountsOnce, DrivesAreKnown,
              connectOthers, ConnectAt, managerVars, serverVars
  <2>1. CASE FindDriveLetter(c)
    BY <1>2, <2>1 DEF ConnectWork, FindDriveLetter, IsHighestFree, FreeLetters
  <2>2. CASE AttachDrive(c)
    BY <1>2, <2>2, LettersAreNumbers DEF ConnectWork, AttachDrive, AttachSucceeds
  <2>3. CASE AttachCollision(c) \/ AttachError(c)
    BY <1>2, <2>3 DEF ConnectWork, AttachCollision, AttachError
  <2>4. CASE RegisterClient(c)
    BY <1>2, <2>4 DEF ConnectWork, RegisterClient, AddClient
  <2>5. CASE RejectConnect(c)
    BY <1>2, <2>5 DEF ConnectWork, RejectConnect
  <2> QED BY <1>2, <2>1, <2>2, <2>3, <2>4, <2>5 DEF ConnectWork
<1>3. ASSUME NEW c \in Clients, ConnectNetwork(c) PROVE DriveInv'
  BY <1>3 DEF DriveInv, BatchesAreWorkedOff, MountsOnce, DrivesAreKnown, ConnectNetwork,
     ReceiveConnect, RejectConnect, ConnectAt, connectOthers, managerVars, serverVars
<1>4. ASSUME NEW h \in Handlers, SessionWork(h) PROVE DriveInv'
  <2> USE DEF sessionOthers, SessionAt, managerVars, serverVars
  <2>1. CASE HeadersFail(h) \/ HeartbeatFails(h) \/ WakeSession(h) \/ CloseSession(h) \/ RejectSession(h)
    BY <1>4, <2>1, DriveFrame
       DEF SessionWork, HeadersFail, HeartbeatFails, WakeSession, CloseSession, RejectSession
  <2>2. CASE RemoveSessionClient(h)
    BY <1>4, <2>2, DriveFrame DEF SessionWork, RemoveSessionClient, RemoveClient
  <2>3. CASE UnmountSessionClient(h)
    <3>1. target[h] \in Clients
      BY <2>3 DEF UnmountSessionClient, RecordInv, TargetsAreDone
    <3>2. DrivesAreKnown'
      BY <1>4, <2>3, <3>1, UnmountKeepsDrives DEF SessionWork, UnmountSessionClient, DriveInv
    <3> QED
      BY <1>4, <2>3, <3>2 DEF SessionWork, UnmountSessionClient, Unmount, DriveInv,
         BatchesAreWorkedOff, MountsOnce
  <2> QED BY <1>4, <2>1, <2>2, <2>3 DEF SessionWork
<1>5. ASSUME NEW h \in Handlers, SessionNetwork(h) PROVE DriveInv'
  BY <1>5, DriveFrame DEF SessionNetwork, ReceiveSession, RejectSession, SendHeaders, SendHeartbeat,
     MarkSessionStarted, TouchClient, SessionAt, sessionOthers, managerVars, serverVars
<1>6. CASE AcceptWork
  <2>1. CASE AcceptFails
    BY <2>1, DriveFrame DEF AcceptFails, controlVars, managerVars
  <2>2. ASSUME NEW t \in Threads, InsertAndSpawn(t) PROVE DriveInv'
    BY <2>2, HandlersAssumption
       DEF DriveInv, BatchesAreWorkedOff, MountsOnce, DrivesAreKnown, RecordInv, AcceptedAreNew,
           InsertAndSpawn, acceptOthers, ConnectAt, SessionAt, Threads, managerVars
  <2> QED BY <1>6, <2>1, <2>2 DEF AcceptWork
<1>7. CASE MaintenanceWork
  <2> USE DEF maintenanceOthers, controlVars
  <2>1. CASE MaintenanceWakes \/ MaintenanceLoops
    BY <2>1 DEF DriveInv, BatchesAreWorkedOff, MountsOnce, DrivesAreKnown,
       MaintenanceWakes, MaintenanceLoops, ReadNow, managerVars
  <2>2. CASE MaintenanceSweeps
    BY <2>2 DEF DriveInv, BatchesAreWorkedOff, MountsOnce, DrivesAreKnown,
       MaintenanceSweeps, RemoveInactive, Inactive
  <2>3. ASSUME NEW c \in Clients, MaintenanceUnmounts(c) PROVE DriveInv'
    <3>1. DrivesAreKnown'
      BY <2>3, UnmountKeepsDrives DEF MaintenanceUnmounts, DriveInv, managerVars
    <3> QED
      BY <2>3, <3>1 DEF MaintenanceUnmounts, Unmount, DriveInv, BatchesAreWorkedOff, MountsOnce
  <2> QED BY <1>7, <2>1, <2>2, <2>3 DEF MaintenanceWork
<1>8. CASE StopBegins \/ StopWork \/ ProcessExits
  <2> USE DEF StopAt, stopOthers
  <2>1. CASE StopBegins \/ JoinDiscovery \/ CloseListen \/ JoinAccept \/ JoinMaintenance \/ StopReturns \/ ProcessExits
    BY <2>1 DEF DriveInv, BatchesAreWorkedOff, MountsOnce, DrivesAreKnown, StopBegins, JoinDiscovery, CloseListen,
       JoinAccept, JoinMaintenance, StopReturns, ProcessExits, controlVars, managerVars
  <2>2. CASE CloseActiveClientSockets
    BY <2>2 DEF DriveInv, BatchesAreWorkedOff, MountsOnce, DrivesAreKnown,
       CloseActiveClientSockets, managerVars
  <2>3. CASE ClearClients
    BY <2>3 DEF DriveInv, BatchesAreWorkedOff, MountsOnce, DrivesAreKnown,
       ClearClients, Clear, controlVars
  <2>4. ASSUME NEW c \in Clients, StopUnmounts(c) PROVE DriveInv'
    <3>1. DrivesAreKnown'
      BY <2>4, UnmountKeepsDrives DEF StopUnmounts, DriveInv, controlVars, managerVars
    <3> QED
      BY <2>4, <3>1 DEF StopUnmounts, Unmount, DriveInv, BatchesAreWorkedOff, MountsOnce, controlVars
  <2> QED BY <1>8, <2>1, <2>2, <2>3, <2>4 DEF StopWork
<1>9. CASE Environment
  <2> USE DEF serverVars, controlVars, managerVars
  <2>1. ASSUME NEW t \in Threads, AcceptReturns(t) \/ PeerLost(t) PROVE DriveInv'
    BY <2>1, DriveFrame DEF AcceptReturns, PeerLost, acceptOthers
  <2>2. ASSUME NEW l \in Letters, DriveChanges(l) PROVE DriveInv'
    BY <2>2, NobodyIsNoClient, ForeignAssumption
       DEF DriveInv, BatchesAreWorkedOff, MountsOnce, DrivesAreKnown,
           DriveChanges, OtherProgramMaps, UserDisconnects
  <2>3. CASE PhoneFreesDiscovery
    BY <2>3, DriveFrame DEF PhoneFreesDiscovery
  <2> QED BY <1>9, <2>1, <2>2, <2>3 DEF Environment
<1>10. CASE Tick
  BY <1>10, DriveFrame DEF Tick, PassTime, Age, serverVars
<1> QED
  BY <1>1, <1>2, <1>3, <1>4, <1>5, <1>6, <1>7, <1>8, <1>9, <1>10 DEF Next

IInv == TypeOK /\ RecordInv /\ DriveInv

LEMMA Invariance == Spec => []IInv
BY InitTypeOK, InitRecordInv, InitDriveInv, NextTypeOK, NextRecordInv, NextDriveInv, PTL
   DEF Spec, IInv

\* NoLostDrive: whatever the interleaving of removals, timeouts and the shutdown, a
\* phone's drive is mounted with nobody to unmount it only if Windows refused to
\* disconnect it, or if Stop's Clear came before its registration.
THEOREM DriveIsAnsweredFor == Spec => []NoLostDrive
BY Invariance, KnownIsNotLost, PTL DEF IInv, DriveInv

-----------------------------------------------------------------------------
(* What Stop leaves behind. *)

\* The threads that Stop has joined have ended.
JoinedHaveEnded ==
    /\ stop \in {"joinMaintenance", "clear", "unmount", "stopped", "exited"} => acceptor = "exited"
    /\ stop \in {"clear", "unmount", "stopped", "exited"} => maintenance = "exited"

LEMMA NextJoinedHaveEnded == JoinedHaveEnded /\ [Next]_vars => JoinedHaveEnded'
<1> SUFFICES ASSUME JoinedHaveEnded, [Next]_vars PROVE JoinedHaveEnded'
  OBVIOUS
<1> USE DEF JoinedHaveEnded
<1>1. CASE UNCHANGED serverVars
  BY <1>1 DEF serverVars
<1>2. CASE AcceptWork \/ MaintenanceWork
  BY <1>2 DEF AcceptWork, AcceptFails, InsertAndSpawn, acceptOthers, MaintenanceWork,
     MaintenanceWakes, MaintenanceSweeps, MaintenanceUnmounts, MaintenanceLoops, maintenanceOthers
<1>3. CASE StopBegins \/ StopWork \/ ProcessExits
  BY <1>3 DEF StopAt, stopOthers, StopBegins, StopWork, ProcessExits, JoinDiscovery, CloseListen,
     CloseActiveClientSockets, JoinAccept, JoinMaintenance, ClearClients, StopUnmounts, StopReturns
<1>4. ASSUME NEW t \in Threads, AcceptReturns(t) PROVE JoinedHaveEnded'
  BY <1>4 DEF AcceptReturns, acceptOthers, Listening
<1> QED
  BY <1>1, <1>2, <1>3, <1>4 DEF Next, vars, ConnectWork, ConnectNetwork, SessionWork,
     SessionNetwork, Environment, PeerLost, PhoneFreesDiscovery, DriveChanges, Tick, serverVars

\* What ShutdownReleasesDrives leaves true: once Stop has returned, every phone's drive
\* that is still there is one that Windows refused to disconnect, or is in the hands of a
\* detached thread (a connect request that was late for Clear, or a session that
\* unmounts), or was registered by one after Clear.
DrivesLeftAreOfRequests ==
    stop \in {"stopped", "exited"} =>
        \A l \in Letters : drives[l] \in Clients =>
            drives[l] \in refused \cup Connecting \cup clients
                            \cup UNION {Unmounting(h) : h \in Handlers}

THEOREM StopLeavesOnlyRequests == Spec => []DrivesLeftAreOfRequests
<1>1. Init => JoinedHaveEnded
  BY DEF Init, JoinedHaveEnded
<1>2. IInv /\ JoinedHaveEnded => DrivesLeftAreOfRequests
  BY DEF IInv, DriveInv, BatchesAreWorkedOff, DrivesAreKnown, Responsible, JoinedHaveEnded,
     DrivesLeftAreOfRequests
<1> QED
  BY <1>1, <1>2, NextJoinedHaveEnded, Invariance, PTL DEF Spec

-----------------------------------------------------------------------------
(* What a step does to the registry, and timeouts. *)

ManagerStep ==
    \/ UNCHANGED managerVars
    \/ \E c \in Clients : AddClient(c) /\ connect[c] = "add"
    \/ \E c : TouchClient(c)
    \/ \E c : RemoveClient(c)
    \/ ReadNow
    \/ RemoveInactive
    \/ Clear
    \/ \E S : Age(S)

LEMMA NextManagerStep == [Next]_vars => ManagerStep
<1> SUFFICES ASSUME [Next]_vars PROVE ManagerStep
  OBVIOUS
<1>1. CASE UNCHANGED vars
  BY <1>1 DEF vars, ManagerStep
<1>2. ASSUME NEW c \in Clients, ConnectWork(c) \/ ConnectNetwork(c) PROVE ManagerStep
  BY <1>2 DEF ManagerStep, ConnectWork, ConnectNetwork, FindDriveLetter, AttachDrive, AttachCollision,
     AttachError, RegisterClient, RejectConnect, ReceiveConnect
<1>3. ASSUME NEW h \in Handlers, SessionWork(h) \/ SessionNetwork(h) PROVE ManagerStep
  BY <1>3 DEF ManagerStep, SessionWork, SessionNetwork, HeadersFail, HeartbeatFails, WakeSession,
     RemoveSessionClient, UnmountSessionClient, CloseSession, RejectSession, ReceiveSession,
     SendHeaders, SendHeartbeat, MarkSessionStarted
<1>4. CASE AcceptWork \/ MaintenanceWork
  BY <1>4 DEF ManagerStep, AcceptWork, AcceptFails, InsertAndSpawn, acceptOthers, MaintenanceWork,
     MaintenanceWakes, MaintenanceSweeps, MaintenanceUnmounts, MaintenanceLoops
<1>5. CASE StopBegins \/ StopWork \/ ProcessExits
  BY <1>5 DEF ManagerStep, StopBegins, StopWork, ProcessExits, JoinDiscovery, CloseListen, CloseActiveClientSockets,
     JoinAccept, JoinMaintenance, ClearClients, StopUnmounts, StopReturns
<1>6. CASE Environment \/ Tick
  BY <1>6 DEF ManagerStep, Environment, AcceptReturns, acceptOthers, PeerLost, PhoneFreesDiscovery, DriveChanges, Tick,
     PassTime
<1> QED
  BY <1>1, <1>2, <1>3, <1>4, <1>5, <1>6 DEF Next

\* A verdict still stands: every client found stale is as idle now.
StaleIsIdle == \A c \in stale : idle[c] >= DisconnectTimeout

LEMMA NextStaleIsIdle == TypeOK /\ StaleIsIdle /\ [Next]_vars => StaleIsIdle'
<1> SUFFICES ASSUME TypeOK, StaleIsIdle, ManagerStep PROVE StaleIsIdle'
  BY NextManagerStep
<1> USE DEF TypeOK, ManagerTypeOK, StaleIsIdle
<1>1. CASE UNCHANGED managerVars
  BY <1>1 DEF managerVars
<1>2. ASSUME NEW c, AddClient(c) \/ TouchClient(c) \/ RemoveClient(c) PROVE StaleIsIdle'
  BY <1>2 DEF AddClient, TouchClient, RemoveClient
<1>3. CASE ReadNow \/ RemoveInactive \/ Clear
  BY <1>3 DEF ReadNow, RemoveInactive, Clear
<1>4. ASSUME NEW S, Age(S) PROVE StaleIsIdle'
  BY <1>4, TimeoutAssumption DEF Age, Older
<1> QED
  BY <1>1, <1>2, <1>3, <1>4 DEF ManagerStep

\* Only a sweep adds to the batch, and only clients that are stale.
LEMMA BatchGrowsByVerdict == [Next]_vars => sweepBatch' \subseteq sweepBatch \cup stale
<1> SUFFICES ASSUME [Next]_vars PROVE sweepBatch' \subseteq sweepBatch \cup stale
  OBVIOUS
<1>1. CASE MaintenanceWork
  BY <1>1 DEF MaintenanceWork, MaintenanceWakes, MaintenanceSweeps, Inactive, MaintenanceUnmounts,
     MaintenanceLoops
<1>2. CASE ~MaintenanceWork
  BY <1>2 DEF vars, serverVars, Next, ConnectWork, ConnectNetwork, SessionWork, SessionNetwork,
     AcceptWork, AcceptFails, InsertAndSpawn, acceptOthers, StopBegins, StopWork, ProcessExits,
     JoinDiscovery, CloseListen, CloseActiveClientSockets, JoinAccept, JoinMaintenance, ClearClients,
     StopUnmounts, StopReturns, stopOthers, Environment, AcceptReturns, PeerLost, PhoneFreesDiscovery, DriveChanges, Tick
<1> QED
  BY <1>1, <1>2

\* SweptWasSilent: a heartbeat that comes between RemoveInactive's look at the
\* clock and its lock saves the client.
THEOREM SweepsOnlySilent == Spec => SweptWasSilent
<1>1. Init => StaleIsIdle
  BY DEF Init, ManagerInit, StaleIsIdle
<1>2. StaleIsIdle /\ [Next]_vars
        => [\A c \in sweepBatch' \ sweepBatch : idle[c] >= DisconnectTimeout]_vars
  BY BatchGrowsByVerdict DEF StaleIsIdle
<1> QED
  BY <1>1, <1>2, InitTypeOK, NextTypeOK, NextStaleIsIdle, PTL DEF Spec, SweptWasSilent

-----------------------------------------------------------------------------
(* What a step does to the drives.  A letter that its user disconnects may be *)
(* lent to another client while the first one's record still names it; what   *)
(* follows is about the letters of which no user does.                        *)

Attached == IF WinFsp THEN Letters ELSE Letters \ Detachable

NobodyDetaches == WinFsp \/ Detachable = {}

UnmountStep(c) ==
    \/ \E h \in Handlers : UnmountSessionClient(h) /\ target[h] = c /\ UNCHANGED serverVars
    \/ MaintenanceUnmounts(c)
    \/ StopUnmounts(c)

DriveStep ==
    \/ UNCHANGED driveVars
    \/ \E c \in Clients : AttachDrive(c) /\ UNCHANGED serverVars
    \/ \E c \in Clients : UnmountStep(c)
    \/ \E l \in Letters :
          /\ OtherProgramMaps(l) \/ (UserDisconnects(l) /\ l \notin Attached)
          /\ UNCHANGED <<serverVars, controlVars, managerVars>>

LEMMA NextDriveStep ==
    ASSUME TypeOK, RecordInv, [Next]_vars
    PROVE  DriveStep
<1>1. CASE UNCHANGED vars
  BY <1>1 DEF vars, DriveStep
<1>2. ASSUME NEW c \in Clients, ConnectWork(c) \/ ConnectNetwork(c) PROVE DriveStep
  BY <1>2 DEF DriveStep, ConnectWork, ConnectNetwork, FindDriveLetter, AttachCollision,
     AttachError, RegisterClient, RejectConnect, ReceiveConnect
<1>3. ASSUME NEW h \in Handlers, SessionWork(h) \/ SessionNetwork(h) PROVE DriveStep
  <2>1. CASE UnmountSessionClient(h)
    <3>1. target[h] \in Clients
      BY <2>1 DEF UnmountSessionClient, RecordInv, TargetsAreDone
    <3>2. UNCHANGED serverVars
      BY <1>3 DEF SessionWork, SessionNetwork
    <3> QED BY <2>1, <3>1, <3>2 DEF DriveStep, UnmountStep
  <2>2. CASE ~UnmountSessionClient(h)
    BY <1>3, <2>2 DEF DriveStep, SessionWork, SessionNetwork, HeadersFail, HeartbeatFails,
       WakeSession, RemoveSessionClient, CloseSession, RejectSession, ReceiveSession,
       SendHeaders, SendHeartbeat
  <2> QED BY <2>1, <2>2
<1>4. CASE AcceptWork \/ MaintenanceWork
  BY <1>4 DEF DriveStep, UnmountStep, AcceptWork, AcceptFails, InsertAndSpawn, acceptOthers,
     MaintenanceWork, MaintenanceWakes, MaintenanceSweeps, MaintenanceLoops
<1>5. CASE StopBegins \/ StopWork \/ ProcessExits
  BY <1>5 DEF DriveStep, UnmountStep, StopBegins, StopWork, ProcessExits, JoinDiscovery, CloseListen,
     CloseActiveClientSockets, JoinAccept, JoinMaintenance, ClearClients, StopReturns
<1>6. CASE Environment \/ Tick
  BY <1>6 DEF DriveStep, Environment, AcceptReturns, acceptOthers, PeerLost, PhoneFreesDiscovery, DriveChanges,
     UserDisconnects, Attached, Tick, PassTime
<1> QED
  BY <1>1, <1>2, <1>3, <1>4, <1>5, <1>6 DEF Next

\* Who unmounts a client was the only one to answer for it.
LEMMA UnmountEndsIt ==
    ASSUME TypeOK, RecordInv, NEW c \in Clients, UnmountStep(c)
    PROVE  /\ Unmount(c)
           /\ c \in Responsible /\ connect[c] = "done" /\ c \notin clients
           /\ Responsible' = Responsible \ {c}
           /\ UNCHANGED <<connect, clients>>
<1> USE DEF TypeOK, ControlTypeOK, RecordInv, OneHolder, OnlyDoneAreHeld, TargetsAreDone, Disjoint,
            Unmounting, Connecting, Building, Responsible
<1>1. ASSUME NEW h \in Handlers, UnmountSessionClient(h), target[h] = c, UNCHANGED serverVars
      PROVE  /\ Unmount(c)
             /\ c \in Responsible /\ connect[c] = "done" /\ c \notin clients
             /\ Responsible' = Responsible \ {c}
             /\ UNCHANGED <<connect, clients>>
  BY <1>1 DEF UnmountSessionClient, SessionAt, sessionOthers, serverVars, managerVars
<1>2. CASE MaintenanceUnmounts(c)
  BY <1>2 DEF MaintenanceUnmounts, maintenanceOthers, controlVars, managerVars
<1>3. CASE StopUnmounts(c)
  BY <1>3 DEF StopUnmounts, stopOthers, controlVars, managerVars
<1> QED
  BY <1>1, <1>2, <1>3 DEF UnmountStep

\* Who answers for a client with such a letter has that very drive.
OwnsDrive ==
    \A c \in Responsible : driveLetter[c] \in Attached => drives[driveLetter[c]] = c

\* Unmounting takes the drive of the client it is for, and no other.
LEMMA UnmountTakesOwn ==
    ASSUME TypeOK, OwnsDrive, NEW c \in Clients, Unmount(c), c \in Responsible,
           NEW l \in Attached, drives'[l] # drives[l]
    PROVE  drives[l] = c /\ drives'[l] = Nobody
BY DEF Attached, Unmount, UnmountByLetter, UnmountById, CancelSucceeds, CancelFails, OwnsDrive, TypeOK, DriveTypeOK

\* A client is answered for from the moment its request is read; an answered
\* request stays answered.
ConnectStep ==
    \A c \in Clients :
        /\ c \in Responsible' => c \in Responsible \/ connect[c] = "receive"
        /\ connect[c] = "done" => connect'[c] = "done"

LEMMA NextConnectStep ==
    ASSUME TypeOK, RecordInv, [Next]_vars
    PROVE  ConnectStep
<1> USE DEF TypeOK, ControlTypeOK, ConnectStep, Responsible, Unmounting, Connecting, Building
<1>1. CASE UNCHANGED vars
  BY <1>1 DEF vars, managerVars, controlVars, serverVars
<1>2. ASSUME NEW c \in Clients, ConnectWork(c) \/ ConnectNetwork(c) PROVE ConnectStep
  BY <1>2 DEF ConnectWork, ConnectNetwork, FindDriveLetter, AttachDrive, AttachCollision,
     AttachError, RegisterClient, AddClient, RejectConnect, ReceiveConnect,
     ConnectAt, connectOthers, managerVars, serverVars
<1>3. ASSUME NEW h \in Handlers, SessionWork(h) \/ SessionNetwork(h) PROVE ConnectStep
  <2> USE DEF SessionAt, sessionOthers, managerVars, serverVars
  <2>1. CASE RemoveSessionClient(h)
    BY <1>3, <2>1 DEF SessionWork, SessionNetwork, RemoveSessionClient, RemoveClient
  <2>2. CASE ~RemoveSessionClient(h)
    BY <1>3, <2>2 DEF SessionWork, SessionNetwork, HeadersFail, HeartbeatFails, WakeSession,
       UnmountSessionClient, CloseSession, RejectSession, ReceiveSession, SendHeaders,
       SendHeartbeat, MarkSessionStarted, TouchClient
  <2> QED BY <2>1, <2>2
<1>4. CASE AcceptWork
  <2>1. CASE AcceptFails
    BY <2>1 DEF AcceptFails, controlVars, managerVars
  <2>2. ASSUME NEW t \in Threads, InsertAndSpawn(t) PROVE ConnectStep
    BY <2>2, HandlersAssumption DEF InsertAndSpawn, acceptOthers, ConnectAt, SessionAt, Threads,
       RecordInv, AcceptedAreNew, managerVars
  <2> QED BY <1>4, <2>1, <2>2 DEF AcceptWork
<1>5. CASE MaintenanceWork
  BY <1>5 DEF MaintenanceWork, MaintenanceWakes, ReadNow, MaintenanceSweeps, RemoveInactive, Inactive,
     MaintenanceUnmounts, MaintenanceLoops, maintenanceOthers, controlVars, managerVars
<1>6. CASE StopBegins \/ StopWork \/ ProcessExits
  BY <1>6 DEF StopBegins, StopWork, ProcessExits, JoinDiscovery, CloseListen, CloseActiveClientSockets,
     JoinAccept, JoinMaintenance, ClearClients, Clear, StopUnmounts, StopReturns, stopOthers,
     controlVars, managerVars
<1>7. CASE Environment \/ Tick
  BY <1>7 DEF Environment, AcceptReturns, acceptOthers, PeerLost, PhoneFreesDiscovery, DriveChanges, Tick, PassTime, Age,
     controlVars, managerVars, serverVars
<1> QED
  BY <1>1, <1>2, <1>3, <1>4, <1>5, <1>6, <1>7 DEF Next

LEMMA NextOwnsDrive ==
    ASSUME IInv, OwnsDrive, [Next]_vars
    PROVE  OwnsDrive'
<1>1. TypeOK /\ RecordInv /\ DriveInv /\ DriveStep /\ ConnectStep
  BY NextDriveStep, NextConnectStep DEF IInv
<1>0. Attached \subseteq Letters
  BY DEF Attached
<1> USE LettersAreNumbers, <1>0 DEF OwnsDrive, TypeOK, DriveTypeOK, DriveInv, MountsOnce, ConnectStep
<1>2. Responsible \subseteq Clients /\ Responsible' \subseteq Clients
  <2>1. TypeOK'
    BY <1>1, NextTypeOK
  <2> QED
    BY <1>1, <2>1 DEF Responsible, Connecting, Unmounting, ManagerTypeOK
<1>3. CASE UNCHANGED driveVars
  BY <1>1, <1>2, <1>3 DEF driveVars
<1>4. ASSUME NEW c \in Clients, AttachDrive(c), UNCHANGED serverVars PROVE OwnsDrive'
  BY <1>1, <1>2, <1>4, NobodyIsNoClient DEF AttachDrive, AttachSucceeds
<1>5. ASSUME NEW c \in Clients, UnmountStep(c) PROVE OwnsDrive'
  <2>1. Unmount(c) /\ c \in Responsible /\ Responsible' = Responsible \ {c}
    BY <1>1, <1>5, UnmountEndsIt
  <2>2. ASSUME NEW d \in Responsible', driveLetter'[d] \in Attached
        PROVE  drives'[driveLetter'[d]] = d
    <3>1. d # c /\ driveLetter[d] \in Attached /\ drives[driveLetter[d]] = d
      BY <1>1, <1>2, <2>1, <2>2 DEF Unmount
    <3>2. drives'[driveLetter[d]] = drives[driveLetter[d]]
      BY <1>1, <2>1, <3>1, UnmountTakesOwn
    <3> QED BY <2>1, <3>1, <3>2 DEF Unmount
  <2> QED BY <2>2
<1>6. ASSUME NEW l \in Letters, OtherProgramMaps(l) \/ (UserDisconnects(l) /\ l \notin Attached),
             UNCHANGED <<serverVars, controlVars, managerVars>>
      PROVE  OwnsDrive'
  <2>1. Responsible' = Responsible
    BY <1>6 DEF Responsible, Connecting, Unmounting, serverVars, controlVars, managerVars
  <2> QED
    BY <1>1, <1>2, <1>6, <2>1, NobodyIsNoClient DEF OtherProgramMaps, UserDisconnects
<1> QED
  BY <1>1, <1>3, <1>4, <1>5, <1>6 DEF DriveStep

LEMMA OwnerInvariance == Spec => [](IInv /\ OwnsDrive)
<1>1. Init => OwnsDrive
  BY DEF Init, ManagerInit, DriveInit, ControlInit, OwnsDrive, Responsible, Connecting, Building,
     Unmounting
<1>2. IInv /\ OwnsDrive /\ [Next]_vars => OwnsDrive'
  BY NextOwnsDrive
<1> QED
  BY <1>1, <1>2, Invariance, PTL DEF Spec

\* A letter that no user disconnects is taken only on behalf of the client it is lent to.
UnmountsAttached ==
    [][\A l \in Attached, c \in Clients :
          drives[l] = c /\ drives'[l] # c =>
              c \in Responsible \ (Connecting \cup clients) /\ c \notin Responsible']_vars

\* No removal, however late or however often tried, takes away a drive that the letter
\* was lent for since, unless the user has disconnected a drive from that very letter.
THEOREM AttachedDrivesAreSafe == Spec => UnmountsAttached
<1>1. ASSUME IInv, OwnsDrive, [Next]_vars,
             NEW l \in Attached, NEW c \in Clients, drives[l] = c, drives'[l] # c
      PROVE  c \in Responsible \ (Connecting \cup clients) /\ c \notin Responsible'
  <2>1. TypeOK /\ RecordInv /\ DriveStep /\ l \in Letters
    BY <1>1, NextDriveStep DEF IInv, Attached
  <2>2. PICK d \in Clients : UnmountStep(d)
    BY <1>1, <2>1, NobodyIsNoClient DEF DriveStep, driveVars, AttachDrive, AttachSucceeds,
       OtherProgramMaps, UserDisconnects, TypeOK, DriveTypeOK
  <2>3. d = c
    BY <1>1, <2>1, <2>2, UnmountEndsIt, UnmountTakesOwn
  <2> QED
    BY <2>1, <2>2, <2>3, UnmountEndsIt DEF Connecting, Building
<1>2. IInv /\ OwnsDrive /\ [Next]_vars
        => [\A l \in Attached, c \in Clients :
              drives[l] = c /\ drives'[l] # c =>
                  c \in Responsible \ (Connecting \cup clients) /\ c \notin Responsible']_vars
  BY <1>1
<1> QED
  BY <1>2, OwnerInvariance, PTL DEF Spec, UnmountsAttached

LEMMA AllAttached == ASSUME NobodyDetaches PROVE Attached = Letters
BY DEF NobodyDetaches, Attached

\* UnmountsOwnDrive, which is about all letters: in WinFsp's build, or if no user
\* disconnects drives at all.
THEOREM UnmountTakesOwnDrive == ASSUME NobodyDetaches PROVE Spec => UnmountsOwnDrive
<1>1. [\A l \in Attached, c \in Clients :
          drives[l] = c /\ drives'[l] # c =>
              c \in Responsible \ (Connecting \cup clients) /\ c \notin Responsible']_vars
      => [\A l \in Letters, c \in Clients :
             drives[l] = c /\ drives'[l] # c =>
                 c \in Responsible \ (Connecting \cup clients) /\ c \notin Responsible']_vars
  BY AllAttached
<1> QED
  BY <1>1, AttachedDrivesAreSafe, PTL DEF UnmountsAttached, UnmountsOwnDrive

-----------------------------------------------------------------------------
(* The server implements DriveLease, as to the letters that no user disconnects. *)

Holder == [l \in Attached |-> IF drives[l] \in Clients THEN drives[l] ELSE Nobody]
Revoked == {c \in Clients : connect[c] = "done"} \ clients

AttachedLease == INSTANCE DriveLease WITH
    Letters <- Attached, holder <- Holder, revoked <- Revoked

LEMMA LeaseStep ==
    ASSUME IInv, OwnsDrive, [Next]_vars
    PROVE  [AttachedLease!Next]_<<Holder, Revoked>>
<1>1. /\ TypeOK /\ RecordInv /\ DriveInv /\ DriveStep /\ ConnectStep /\ ManagerStep
      /\ Attached \subseteq Letters
  BY NextDriveStep, NextConnectStep, NextManagerStep DEF IInv, Attached
<1>2. CASE Holder' = Holder /\ Revoked \subseteq Revoked'
  <2>1. AttachedLease!Revoke(Revoked' \ Revoked)
    BY <1>2 DEF AttachedLease!Revoke, Holder, Revoked
  <2>2. Revoked' \ Revoked \in SUBSET Clients
    BY DEF Revoked
  <2> QED BY <2>1, <2>2 DEF AttachedLease!Next, AttachedLease!Revoke
<1>3. Revoked \subseteq Revoked'
  <2>1. ASSUME NEW c \in clients', c \notin clients PROVE connect[c] # "done"
    BY <1>1, <2>1 DEF ManagerStep, managerVars, AddClient, TouchClient, RemoveClient, ReadNow,
       RemoveInactive, Clear, Age
  <2> QED
    BY <1>1, <2>1 DEF Revoked, ConnectStep
<1>4. CASE UNCHANGED driveVars
  BY <1>2, <1>3, <1>4 DEF driveVars, Holder
<1>5. ASSUME NEW c \in Clients, AttachDrive(c), localName[c] \in Attached
      PROVE  AttachedLease!Grant(c, localName[c])
  <2>1. /\ connect[c] = "attach" /\ drives[localName[c]] = Nobody
        /\ localName[c] \in Letters /\ driveLetter[c] = NoLetter
    BY <1>1, <1>5 DEF AttachDrive, AttachSucceeds, DriveInv, MountsOnce
  <2>2. c \notin Revoked /\ Revoked' = Revoked
    BY <1>1, <1>5, <2>1 DEF AttachDrive, ConnectAt, managerVars, Revoked, TypeOK, ControlTypeOK
  <2>3. Holder[localName[c]] = Nobody /\ \A m \in Attached : Holder[m] # c
    BY <1>1, <1>5, <2>1, NobodyIsNoClient, LettersAreNumbers DEF Holder, DriveInv, DrivesAreKnown
  <2>4. Holder' = [Holder EXCEPT ![localName[c]] = c]
    BY <1>1, <1>5, <2>1 DEF AttachDrive, AttachSucceeds, Holder, TypeOK, DriveTypeOK
  <2> QED
    BY <2>2, <2>3, <2>4 DEF AttachedLease!Grant, Holder, Revoked
<1>6. ASSUME NEW c \in Clients, UnmountStep(c)
      PROVE  [AttachedLease!Next]_<<Holder, Revoked>>
  <2>1. /\ Unmount(c) /\ c \in Responsible /\ connect[c] = "done" /\ c \notin clients
        /\ UNCHANGED <<connect, clients>>
    BY <1>1, <1>6, UnmountEndsIt
  <2>2. c \in Revoked /\ Revoked' = Revoked
    BY <2>1 DEF Revoked
  <2>3. CASE Holder' = Holder
    BY <2>2, <2>3
  <2>4. CASE Holder' # Holder
    <3>1. PICK l \in Attached : drives'[l] # drives[l]
      BY <2>4 DEF Holder
    <3>2. drives[l] = c /\ drives'[l] = Nobody /\ l = driveLetter[c]
      BY <1>1, <2>1, <3>1, UnmountTakesOwn DEF DriveInv, DrivesAreKnown
    <3>3. \A m \in Attached \ {l} : drives'[m] = drives[m]
      BY <1>1, <2>1, <3>2, UnmountTakesOwn DEF DriveInv, DrivesAreKnown
    <3>4. Holder' = [Holder EXCEPT ![l] = Nobody]
      BY <3>2, <3>3, ForeignAssumption, NobodyIsNoClient DEF Holder
    <3> QED
      BY <2>2, <3>2, <3>4 DEF AttachedLease!Next, AttachedLease!Return, Holder, Revoked
  <2> QED BY <2>3, <2>4
<1>7. ASSUME NEW l \in Letters, OtherProgramMaps(l) \/ (UserDisconnects(l) /\ l \notin Attached)
      PROVE  Holder' = Holder
  BY <1>1, <1>7, ForeignAssumption, NobodyIsNoClient
     DEF OtherProgramMaps, UserDisconnects, Holder, TypeOK, DriveTypeOK
<1>8. ASSUME NEW c \in Clients, AttachDrive(c) PROVE [AttachedLease!Next]_<<Holder, Revoked>>
  <2>1. CASE localName[c] \in Attached
    BY <1>5, <1>8, <2>1 DEF AttachedLease!Next, AttachedLease!Grant
  <2>2. CASE localName[c] \notin Attached
    <3>1. Holder' = Holder
      BY <1>1, <1>8, <2>2 DEF AttachDrive, AttachSucceeds, Holder, TypeOK, DriveTypeOK
    <3> QED BY <1>2, <1>3, <3>1
  <2> QED BY <2>1, <2>2
<1> QED
  BY <1>1, <1>2, <1>3, <1>4, <1>6, <1>7, <1>8 DEF DriveStep

\* The threads do no more with such letters than lend a free one to a client and take it
\* back once the client is given up.
THEOREM AttachedLettersAreLent == Spec => AttachedLease!Spec
<1>1. Init => AttachedLease!Init
  BY NobodyIsNoClient, ForeignAssumption
     DEF Init, ManagerInit, DriveInit, ControlInit, AttachedLease!Init, Holder, Revoked,
         Attached
<1>2. IInv /\ OwnsDrive /\ [Next]_vars => [AttachedLease!Next]_AttachedLease!leaseVars
  BY LeaseStep DEF AttachedLease!leaseVars
<1> QED
  BY <1>1, <1>2, OwnerInvariance, PTL DEF Spec, AttachedLease!Spec

\* LeaseSpec, which is about all letters: in WinFsp's build, or if no user disconnects
\* drives at all.
THEOREM ServerKeepsLease == ASSUME NobodyDetaches PROVE Spec => LeaseSpec
<1> USE AllAttached
    DEF Lease!leaseVars, AttachedLease!leaseVars, Holder, Revoked
<1>1. AttachedLease!Init => Lease!Init
  BY DEF Lease!Init, AttachedLease!Init
<1>2. [AttachedLease!Next]_AttachedLease!leaseVars => [Lease!Next]_Lease!leaseVars
  BY DEF Lease!Next, AttachedLease!Next, Lease!Grant, AttachedLease!Grant, Lease!Revoke,
     AttachedLease!Revoke, Lease!Return, AttachedLease!Return
<1> QED
  BY <1>1, <1>2, AttachedLettersAreLent, PTL DEF LeaseSpec, Lease!Spec, AttachedLease!Spec
=============================================================================
