# TLA+ models of WiFiDrop for Windows

WiFiDrop is a tray program that waits for Android phones in the local network.
A phone finds it by UDP, sends files to it by HTTP, and may *connect*: then its
own files appear on the PC under a drive letter until it goes away.

This directory holds TLA+ modules that model the program's concurrent core, TLC
configurations that check them on small instances, and TLAPS proofs of the
safety properties for instances of any size.  Paths below are relative to
`src/src/`.

## 1. The system

| Component | State it keeps | Operations | Threads |
|---|---|---|---|
| `clients/ClientManager` | `clients_`: client id -> record (drive letter, `lastActivity`) | Add, MarkSessionStarted, Touch, Remove, RemoveInactive, Clear, List | any; one mutex |
| `server/ControlServer` | none of its own; `lastSuccessfulSend` on the stack of a session | info, connect, session | the thread of the socket |
| `server/WifiDropServer` | `running_`, `listenSocket_`, `activeSockets_`, two threads | Start, Stop, AcceptLoop, HandleClient, MaintenanceLoop | accept, maintenance, one detached thread per connection; Stop on the UI thread |
| `utils/WebDavDriveMapper` | none; the drive letters of the logon session | Mount, Unmount | connect threads; whoever removed a client |
| `utils/WinFspDriveHost` | `g_mounts`; per open file a temporary copy and a dirty flag | Mount, Unmount, the FUSE callbacks | as above, and one FUSE loop per mount |
| `utils/AndroidFsHttpClient` | none; the phone's files | metadata, list, read, upload, delete, mkdir, move | FUSE loop |
| `server/UploadController` | none; the incoming folder | `PUT /wifidrop/upload` | the thread of the socket |
| `utils/FileName` | none | decode, validate, find a free name | the thread of the socket |
| `server/DiscoveryResponder` | `running_`, `socket_`, a thread | Start, Stop, answer a probe | its own; Stop on the UI thread |
| `utils/WebClientService` | none; a Windows service and its settings | EnsureRunning, EnsureHttpBasicOverHttpEnabled | UI thread |
| `App`, `TrayIcon`, `ConnectedDevicesWindow` | menu commands -> client ids | Initialize, Shutdown, open a drive, menus | UI thread |
| `AutoStart`, `Log`, `Utf`, `DesktopFolders` | a registry value, a log file | - | any |

How they interact: `App` starts `WifiDropServer`, which owns `ControlServer`,
`UploadController` and `DiscoveryResponder` and shares `ClientManager` with the
UI.  The accept thread puts every connection into `activeSockets_` and hands it
to a detached thread.  A *connect* request mounts the phone's drive and only then
registers the client.  A *session* request holds its thread: a heartbeat every
interval, until sending has failed for the timeout or the client is not
registered any more; then the thread removes the client and unmounts its drive.
The maintenance thread removes clients nothing was heard of for the timeout and
unmounts them.  `Stop` closes sockets, joins the two threads it can join, clears
the registry and unmounts what it held.  So three kinds of threads remove and
unmount clients, and they share nothing but the registry's mutex, which none of
them holds while it unmounts.

What is hard in it:

* who unmounts: a record must be unmounted once, by whoever removed it;
* drive letters are reused at once, and unmounting goes by letter;
* `RemoveInactive` reads the clock before it locks;
* handler threads are detached, so Stop ends under running requests;
* sockets are closed before their handle leaves `activeSockets_`, and Windows
  reuses handle values;
* looking for a free letter or file name and taking it are two calls;
* `send` and `recv` block for as long as a phone likes;
* the discovery thread reads its socket word without a lock while Stop closes the
  socket;
* the UI acts on a menu, a device list and drive letters that change meanwhile;
* a Windows service is polled that others start and stop;
* open files on a phone's drive are written back late, over a network that loses
  answers, while the phone itself changes its files.

`PROJECT.json` lists these hazards line by line with the properties that cover
them.

What makes each component correct:

* registry and server: a client's record has one holder; a drive is unmounted, on
  its own client's behalf, and only after the client was given up; only silent
  clients time out; everything that was begun comes to an end.
* sockets: a thread closes its own connection only; what is in `activeSockets_`
  is still served; Stop reaches every connection that is served and was not given a
  used handle.
* uploads: what is saved has a plain name, an upload overwrites no file, and every
  upload is answered.
* mounted files: what a program wrote and was told is saved, is on the phone; before the
  close of the file no change is lost without an error.
* discovery: it ends when told to and uses no socket but its own.
* service control: it waits for the timeout and no longer, and fails for a cause only.
* UI: a command acts on the device it was shown for; what was taken is given back.

## 2. The modules

    AndroidClient                 the set of client ids
      ClientManager               the registry, one action per locked operation
      WebDavDriveMapper           drive letters, Mount and Unmount in steps
      DriveLease                  abstract: letters are lent and returned
        ControlServer             connect and session requests (extends both)
          WifiDropServer          accept, maintenance, Stop, environment; properties
            MCWifiDropServer      for TLC
            WifiDropServerProofs  theorems
    DiscoveryResponder            the UDP answerer: its loop, its Stop
      ActiveSockets               activeSockets_, handle reuse, Stop
        MCActiveSockets, ActiveSocketsProofs
    HttpFraming                   a request cut out of a stream, its answer
      MCHttpFraming, HttpFramingProofs
    FileName                      names: decoding, validation, candidates
      UploadController            uploads and MakeUniquePath
        MCUploadController
        FileNameProofs, UploadControllerProofs
    AndroidFsHttpClient           the phone's files and the requests that change them
      WriteBack                   abstract: a change is pending, then saved, reported lost, or lost at the close
      WinFspDriveHost             open files of a mounted phone (the FUSE callbacks)
        MCWinFspDriveHost, WinFspDriveHostProofs
    TrayIcon                      the icon's messages, the menu, the map behind it
    WebClientService              EnsureRunning and the service's other users
      AppThread                   the UI thread (extends both; uses DriveLease)
        MCAppThread, AppThreadProofs

**ClientManager.**  `clients` is the key set of `clients_`.  `lastActivity` is
represented by its age (`idle`), counted in heartbeat intervals up to
`DisconnectTimeout` and no further: the code only compares it with that bound.  Every operation
holds the mutex throughout and is one action, except that `RemoveInactive` reads
`now` before it locks: `ReadNow` fixes which records are old enough by that clock
(`stale`), and a touch in between takes a record out again, because `now -
lastActivity` is negative then.  `sessionState` is written and never read.  When
a record leaves the registry its age and verdict are reset: the code has no such
data any more, and nothing reads it.

**WebDavDriveMapper.**  `drives` says who holds each letter of the logon session.
`FindFreeDriveLetter` (highest letter first) and `WNetAddConnection2W` are two
steps; the outcomes of the second are success, the two collision errors (retry),
and any other error (no drive).  `Unmount` forces the letter free whoever holds
it, or fails; after a failure the code only logs, the letter stays connected to the
phone while its record is dropped, and the history variable `refused` notes the client:
nobody tries a second time.  `Remembered` letters have a connection in the
user's profile: attaching them fails with ERROR_DEVICE_ALREADY_REMEMBERED although
they look free.  `Detachable` letters may be disconnected by the user in Explorer.
With `WinFsp` the same operators are `Mount` and `Unmount` of `WinFspDriveHost.cpp`: a mount
tries one letter only (`MountRetries`), and an unmount finds its mount by the client's
id (`UnmountById`; `g_mounts` is the set of letters that hold the id).

**ControlServer.**  A connect thread is named by the id it makes (that ids are
unique is assumed; they are random); its states are the points where other
threads can get in: `receive`, `find`, `attach`, `add`, then `done`.  Sending the answer and
closing the socket are part of `RegisterClient`: nothing in the server depends on them.  A session
for the id may come as soon as it is registered (`ReceiveSession`).  A session thread goes `receive`, `headers`, `beat`, `sleep` (and back),
`remove`, `unmount`, `close`.  A phone may open several sessions for one id.  Every other
request only occupies a socket and is a `receive` that is rejected.  The JSON, the
info answer and the opening of Explorer are left out.

**WifiDropServer.**  `acceptor`, `maintenance` and `stop` are the program counters of the
three other threads; `sweepBatch` and `stopBatch` the records they took out and
have not unmounted.  A socket is `accepted` (not yet in `activeSockets_`), `open`, `dead`
or `none`; `PeerLost` and `CloseActiveClientSockets` make it dead, and what a thread
does on a dead socket never blocks.  Sleeps and system calls may take any number
of `Tick`s: clock and threads are asynchronous, so what is checked does not depend on
how the intervals relate.  `Stop` first joins the discovery thread (`JoinDiscovery`); that
thread may have got hold of a connection that was accepted in between (`caught`, the case
that `ActiveSockets` has in detail), and then the join waits until the phone sends or goes
(`DiscoveryWaits`, `PhoneFreesDiscovery`).  The test of `running_` belongs to the step before it.
`ProcessExits` ends every thread.

**DriveLease** is what the server promises about letters, without threads: a free
letter is granted to a client that was not given up and has none, clients are
revoked for good, and a letter returns only after its client was revoked.
`WifiDropServer!Lease` maps `holder` to the drives that belong to clients, and `revoked` to the clients
whose connect request was finished and that are no longer registered.

**DiscoveryResponder** has the responder's thread and its Stop over handle values.
`openBy` says what each value refers to now.  The thread reads `socket_` (`reading`), and
makes its call on that value a step later; a call that waits belongs to the
socket it found (`peer`) and is aborted when that one closes.  `Start` has either
bound its port or failed before the server accepts anything.

**ActiveSockets** is the same server seen through socket handles instead of
threads, together with the responder: the system may give the value of any
closed socket, the discovery socket included, to the next connection.  It keeps
the order of HandleClient (close, then erase) and of Stop (responder, listening
socket, active sockets).

**FileName** has the pure functions of `FileName.cpp` as operators.  A name is a sequence
of characters; one constant or set of constants stands for those the code treats
alike (`Separators`, `Dropped`, `Dot`, `Space`, `Plus`, `NotUtf8`).  `Kept` is the
loop that drops what Windows refuses, as a recursive function of the position; the two
loops that cut the ends are given by what they leave: the kept characters from the
first that is no space to the last that is neither dot nor space.  `Candidate` is the n-th name of `MakeUniquePath`.
`Devices` are the names that Windows reserves (NUL, COM1); the code does not look for them, so they
may be plain, and `NamesDevice` says which paths open a device.

**UploadController** models each upload as its thread: decode and validate, look at one
candidate name after the other, open (and so truncate), write, close.  A file's
content is the set of uploads whose bytes are in it; what is written to a device leaves the folder
as it is (`Store`).  Names that phones send are
each other's candidates.  Folder, open and write errors are steps of their own.  A
name that is not UTF-8 makes `Utf8ToWide` throw outside the try block: state `thrown`, after
which the process is gone (`Terminated`) and no upload goes on.

**HttpFraming** follows one connection through `ReceiveHttpRequest` and `SendAll`.  A request is
its sizes: header, body, declared length, whether it can be parsed, whether the
method reads a body.  `received` counts bytes from the start of the stream; `Recv(n)`
takes any piece up to the size of the buffer.  The buffer of the code is the first
`received` bytes, so its search for the end of the header is `n >= request.head`.
What header lines and targets mean is left out.  A handler (`Handle`) makes an answer, keeps the
socket for a session, throws, or does not return at all.

**AndroidFsHttpClient** and **WinFspDriveHost** are the mounted drive of the WinFsp build.
`remote` is what has each name in one folder of the phone; each request is its effect
on it.  A handle is one call or open file: `pc` says which callback it is in and
between which of its requests, `local` is the temporary copy, `sent` what is being
uploaded.  Callbacks of different handles interleave, more than the one FUSE loop
of a mount may allow; those of one handle hold its mutex to the end, so that `Write`
waits for the upload of `Flush`.  Between two requests `PhoneChanges`.  An upload may fail
before it has an effect, break off, or lose its answer (`UploadFails`), or not be sent because
`fflush` failed, which may leave the copy short (`CopyFails`).  `reply` is what the program
hears of a callback: of a failed `release` it hears nothing (`unheard`), because FUSE drops
that result.  `owed` is a
history variable: the program was told of a change that the phone has not
confirmed.  Contents are a few values; a copy whose later ranges are read after
the phone changed the file may be anything (`Copies`).  `mount` follows `Unmount`: after
`UnmountBegins` no new callback starts, those that run come to their end, and `LoopEnds`
when they have.  Files that are still open then are not released: their handles
stay as they are.

**WriteBack** is what the drive promises a program that writes, without callbacks, copies or
requests: its `change` is `pending`, with the path and what the program left, until the phone has
exactly that (`Save`) or the program was told that it is lost (`Lose`).  A program that closes its
file (`Close`) gives the change one attempt more, and when that fails it is dropped without a word
(`Drop`).  `ChangeOf` maps a handle to it: nothing owed, or owed after an unheard failure, is
`none`; an idle handle whose last answer was an error is `lost`; a handle in `release` is
`closing`; everything else that is owed is `pending` with the handle's path and copy.

**WebClientService** is `EnsureRunning` call by call; every call may fail.  Between any two steps
the service goes on, is started or is stopped by others.  `tick` is GetTickCount modulo
`TickModulus` (2^32 in the program) and starts the wait at any value; `waited` is the real time,
a history variable, as is `excused`: a call failed or the service was stopped.  While
nobody is in `EnsureRunning` its variables rest at fixed values; `EnsureBegins` picks the state
the service is in by then.

**TrayIcon** has the messages of the hidden window (`queue`), the menu on the screen (`popup`)
and `deviceCommands_`.  A right click comes as two messages and both call `ShowContextMenu`; the
second runs inside `TrackPopupMenu` of the first, builds the map again and shows nothing.
`fresh` is history: the registry has not changed since the menu was built.

**AppThread** composes the two with the UI thread: `Initialize` with the failure of each
step, the message loop, `OpenClientDrive` in steps (the second `ListClients`, then the use of the
copied record), `Shutdown`.  `held` is what the program has to give back; a step that can fail
half way (`LoadResources`) may leave a part.  The device contexts that `CreateMenuBitmap`
draws with are given back within that step on each of its paths (`TrayIcon.cpp:330`, `335`, `345`).
The devices window fails before there is an icon to report it with, so a modal box waits for
the user (`errorBox`).  In `Stop` the UI thread may have to wait for a phone, with the discovery thread
(`discoveryHeld`).  The server appears as `DriveLease` and a registry
whose listing changes order only when it changes content.  The user may click
while the UI thread is busy, but picks and dismisses only while it dispatches
messages.

## 3. What TLC checks

| Run | Instance | Properties | Result |
|---|---|---|---|
| `server_drives` | 2 clients, 1 session thread, 2 letters, timeout 1 | `TypeOK`, `NoLostDrive`, `UnmountsOwnDrive`, `SweptWasSilent`, `LeaseSpec` | hold; 925 000 states |
| `server_progress` | 1 client, 1 session thread, 2 letters, one detachable, fair | `StopTerminates`, `MountReturns`, `DeadSessionEnds`, `RevokedDriveIsReleased`, `AbandonedDriveIsReleased` | hold; 45 000 states |
| `server_shutdown` | 1 client | `ShutdownReleasesDrives` | **violated** |
| `server_reconnect` | 1 client, 2 session threads | `SessionLastsWhileConnected` | **violated** |
| `server_remembered` | 1 client, 2 letters, one remembered | `MountReturns` | **violated** |
| `server_winfsp` | WinFsp build, 2 clients, 2 session threads, 1 letter that is remembered and detachable | `OneHolder`, `LeaseSpec` | hold; 2.6 million states |
| `sockets` | 3 connections and the discovery socket, 3 handles, fair | `TypeOK`, `ClosesOwnSocket`, `ActiveIsServed`, `DisturbsOnlyAtStop`, `StopMissesOnlyReused`, `DiscoveryStops` | hold; 278 000 states |
| `app` | 2 clients, 1 letter, queue of 2, counter modulo 2, timeout 1, fair | `TypeOK`, `OpensOwnDrive`, `NothingLeft`, `OpensShownDevice`, `WaitsForTimeout`, `GivesUpForCause`, `UiThreadReturns` | hold; 480 000 states |
| `upload` | 2 uploads, fair | `TypeOK`, `SavedUnderPlainName`, `KeepsEarlierFiles`, `UploadIsAnswered` | hold; 54 000 states |
| `http` | headers up to the limit + 1, bodies up to 3, buffer 2, limit 4, fair | `TypeOK`, `BodyIsWhole`, `HeaderLimit`, `RefusedForCause`, `AnswerIsWhole`, `CompleteIsTaken` | hold; 24 000 states |
| `winfsp_files` | 2 handles, 2 paths, 2 contents, fair | `TypeOK`, `NoSilentLoss`, `UploadsOnlyChanges`, `WriteBackSpec`, `CallsReturn` | hold; 114 000 states |
| `upload_race` | the uploads of `upload` | `OpensNewFile` | **violated** |

Deadlock is not checked: the process exits, connections run out, and the phones
need not do anything.

Why the bounds are enough.  Two clients and two letters let a letter change
hands while an unmount is under way, let the search collide, and leave one client
to be hit by another's mistake; letters start out free or foreign in every
combination.  Two session threads are the least that can race for one id, and
with the sweep and Stop make four removers.  `DisconnectTimeout = 1` keeps every order of
ticks, heartbeats and sweeps apart that larger values do (young enough or not);
the proofs are for any value.  In `server_drives` the clients are symmetric, in `server_winfsp` the session threads too; the
runs with liveness use no symmetry.  Three handles for three connections and the
discovery socket force reuse, of that socket's value too, while two others are
open.  Two uploads race for one name, and the names are each other's
candidates; among them are names with an escaped separator, with a dot or space
to be cleaned off, that are nothing after cleaning, that are not UTF-8, and that name a
device once they are decoded.  In `http` the limit is twice the buffer, so that a header
can end before, within and after the piece that passes the limit, and bodies
are shorter than, as long as and longer than declared; sessions are left to the
server runs.  In `winfsp_files` two handles may be on one file or on two; one content
besides the empty one tells an old copy from a new one.  In `app` a queue of two holds
both messages of a right click, so that one menu is built inside the other, or a
click and a picked item; one letter passes from one client to the other; a
counter of two values wraps in every wait, whose timeout is over after one tick.
`TickModulus` exceeds the time a thread is ever held up: the model caps `waited` below one
turn, 49.7 days.  `server_winfsp` has one letter, so
that the second client always waits for the first one's; two session threads, for one id or for
two, the sweep and the shutdown remove clients.  In `server_progress` the session of the one client may end before
the sweep comes, or never begin: both ways of giving a client up are there.

Every property of a passing run has a mutant in `PROJECT.json`: a plausible bug,
kept in the module as a "Mutated form", under which TLC finds the property
violated.

### Fairness

`FairSpec` assumes that the operating system runs a thread that can run
(`ConnectWork`, `SessionWork`, `AcceptWork`, `MaintenanceWork`, `StopWork`) and that the clock goes on (`Tick`).
It assumes nothing about phones: receiving and sending to a live socket may block
for ever, and so carry no fairness; no user has to quit, and nothing in the
environment has to happen.  System calls on drives return (with any result).
The discovery thread, when it has got hold of a phone's connection, waits for that phone
as long as it takes.
For uploads: a thread that has its request goes on.  For a connection: what has
come is received; neither the handler nor `send` has to return.  For mounted files: requests end, with an answer or with the timeout of WinHTTP
(`Proceed`); that a download *fails* is never relied on.  For the responder: its thread
and Stop run; a datagram never has to come.  For the UI: the thread runs, system
calls return, and the clock goes on while it waits; no user has to click or to close the
error box, no phone has to let go of the discovery thread, and the service has to do nothing.

### Where the code does not do what it says

* **Shutdown leaves drives** (`server_shutdown`).  A connect request is in `Mount`; Stop
  clears the registry; the request adds its client afterwards.  `App.h:28` says
  the shutdown frees system resources.
* **An old session ends the new one** (`server_reconnect`).  A phone that lost its
  connection opens the session again.  The old thread notices its dead socket
  later and removes the client by id.  `ControlServer.h:31` says the session is held
  until the Android disconnects.
* **Mount can retry for ever** (`server_remembered`).  "trying another letter"
  (`WebDavDriveMapper.cpp:94`) tries the same one, when the profile remembers it.
* **Uploads overwrite each other** (`upload_race`).  Two uploads of one name find it free;
  the second one's open truncates.  `FileName.h:22` says a path is picked without
  overwriting an existing file.

Seen while modelling, and not against the word of any document, or known in
its extent:

* **Stop misses a connection**, but only one that was given the handle of an earlier
  one, between that one's close and its erase: the erase takes out the new
  entry.  `StopMissesOnlyReused` says that this is the only case.
* **The responder can take hold of a phone's connection** while Stop closes its socket
  (`DisturbsOnlyAtStop`); if it waits on that one, Stop and the UI thread wait with it, which is the
  exception in `DiscoveryStops`, `StopTerminates` and `UiThreadReturns`.
* **A drive that Windows refuses to disconnect stays**: its record is dropped and nobody tries again.
  `NoLostDrive` and `RevokedDriveIsReleased` name these clients (`refused`) and allow for no others.
* **A change can be lost at the close of its file**: the copy is deleted though the upload failed, and
  FUSE does not pass the result of `release` on.  `NoSilentLoss` and `WriteBack` allow for this only.
* **An upload named like a device** (`NUL`, `COM1.txt`) goes to the device and is answered 200.
  `SavedUnderPlainName` says that the folder gets nothing from it.
* **A device window that cannot be made stops the start at a message box**, which waits for the user.
* **A menu may open another device** if the registry changed after it was shown: items are
  numbers into a map that the second of the two menu messages builds again.
* **A drive may open that belongs to the next client** if the chosen one went between the
  lookup and the opening (`OpensOwnDrive` allows for this only).
* **A name that is not UTF-8 ends the process**: `ValidateUploadFileName` throws on a detached thread, outside
  the try block of the upload.  `UploadIsAnswered` allows for it.
* A tray icon that cannot be created is reported through that icon (`App.cpp:192`,
  `TrayIcon.cpp:179`), so nobody sees the message.
* Files that are open and dirty when their drive is unmounted are not uploaded,
  and their temporary copies remain, together with the directory.

## 4. What TLAPS proves

For any finite or infinite sets of clients, session threads, letters, handles, uploads and names,
and any timeout, from the named ASSUMEs of the modules (the sets are disjoint
where they must be, letters are positive numbers, the timeout is a positive number):

| Module | Theorem | Property |
|---|---|---|
| `WifiDropServerProofs` | `TypeCorrect` | `TypeOK` |
| | `RecordHasOneHolder` | `OneHolder` |
| | `DriveIsAnsweredFor` | `NoLostDrive` |
| | `SweepsOnlySilent` | `SweptWasSilent` |
| | `UnmountTakesOwnDrive` | `UnmountsOwnDrive`, if `WinFsp` or `Detachable = {}` |
| | `ServerKeepsLease` | `LeaseSpec`, under the same assumption |
| | `AttachedDrivesAreSafe` | what `UnmountsOwnDrive` says, of the letters that no user disconnects; no assumption |
| | `AttachedLettersAreLent` | `DriveLease` over these letters is implemented; no assumption |
| | `StopLeavesOnlyRequests` | how far `ShutdownReleasesDrives` fails: a drive that is left is one Windows refused to disconnect, a request's that was late for `Clear`, or a session's that is unmounting it |
| `ActiveSocketsProofs` | `SocketTypes` | `TypeOK` |
| | `SocketsAreOwn` | `ClosesOwnSocket` |
| | `ActiveSocketsAreServed` | `ActiveIsServed` |
| | `StopReachesServed` | `StopMissesOnlyReused` |
| | `RespondersCallsAreOwn` | `DisturbsOnlyAtStop` |
| `AppThreadProofs` | `AppTypes` | `TypeOK` |
| | `DrivesOpenedAreOwn` | `OpensOwnDrive` |
| | `EverythingIsGivenBack` | `NothingLeft` |
| | `ItemsOpenTheirDevice` | `OpensShownDevice` |
| | `TimeoutIsExact` | `WaitsForTimeout` |
| | `GivingUpHasCause` | `GivesUpForCause` |
| `UploadControllerProofs` | `UploadTypes` | `TypeOK` |
| | `EarlierFilesAreKept` | `KeepsEarlierFiles` |
| | `FilesHavePlainNames` | `SavedUnderPlainName` |
| | `OnlyUploadsCollide` | how far `OpensNewFile` fails: a file that an open empties is another upload's, newer than this one |
| `FileNameProofs` | `PlainNamesAreKept` | `SanitizeFileName` leaves a plain name as it is |
| | `SomeCandidateIsFree` | of n + 1 candidates one is free in a folder of n files |
| `HttpFramingProofs` | `FramingTypes` | `TypeOK` |
| | `BodiesAreWhole` | `BodyIsWhole` |
| | `HeadersAreLimited` | `HeaderLimit` |
| | `RefusalsHaveCause` | `RefusedForCause` |
| | `AnswersAreWhole` | `AnswerIsWhole` |
| `WinFspDriveHostProofs` | `FileTypes` | `TypeOK` |
| | `UnchangedFilesStayThePhones` | `UploadsOnlyChanges` |
| | `ChangesAreKeptOrReported` | `NoSilentLoss`, if `TRUE \notin OpenFlags` |
| | `OpenFilesAreWrittenBack` | `WriteBackSpec`, under the same assumption |

The argument for the server.  `OneHolder` is not inductive: that the maintenance thread
takes a client out of the registry while a session thread holds it is excluded
only because a held client is not registered, which in turn needs that only
clients whose connect request has ended are registered or held (`OnlyDoneAreHeld`), that a session's
target was answered (`TargetsAreDone`) and that accepted sockets belong to threads that
have not begun (`AcceptedAreNew`).  These make `RecordInv`.  `DriveInv` adds that the batches
are worked off only in their states and that a thread that still mounts has no
drive yet (`MountsOnce`); with it, a drive's holder stays among the `Responsible` in every step,
until its drive is taken away or refused.
`NextManagerStep`, `NextDriveStep` and `NextConnectStep` sort the steps by what they do to the registry, the
drives and the connect threads, so that each conjunct is proved once per kind
and not once per action.  `OwnsDrive` (who answers for a client whose record has a letter that no user
disconnects holds that very drive) is invariant too, and gives `AttachedDrivesAreSafe` and the
refinement over the `Attached` letters.  In WinFsp's build, or if nobody disconnects drives,
these are all letters, and `UnmountsOwnDrive` and `LeaseSpec` follow.  For a letter that a user does
disconnect both fail: it is given to the next client, and the late unmount hits that
one.  `JoinedHaveEnded` (the threads that Stop has joined are gone) empties the batches out of
`Responsible`; what is left of it when Stop has returned is `StopLeavesOnlyRequests`.

For the sockets, `OwnInv` says that until Stop closes the active sockets the
handle of a connection that is served is its own, and that afterwards no handle
is given out.  `ResponderInv`: the discovery socket is open under `socket_`, and the value the
thread has read is that one, until Stop has closed it.  `ListedInv`: a connection that is
served and not listed shares its handle with a thread that has erased it; it is
what `StopMissesOnlyReused` says, one step earlier.  For the uploads, `ChosenIsNew`: a chosen name is
not among the files that were there when the upload began, and those are still
there.

For names, the data is what matters, and names have any length.  The provers cannot
instantiate an induction principle, but they can use the minimum of a nonempty set
under a well-founded relation, which is a statement about sets: `LeastNumber`, and from
it `SetInduction`, are proved from that once.  With them `Kept` is shown to be defined step by step
(`StepsExist`, `KeptIsStepwise`), so that what it leaves is clean (`AllowedIsClean`), and the first and last
positions that `SanitizeFileName` cuts at exist (`MinOfPositions`, `MaxOfPositions`).  A valid name is then plain, or not
UTF-8 (`SanitizedIsPlain`), a number put before the extension keeps it plain (`CandidateIsPlain`), and
every upload that goes on has a plain name: `FilesHavePlainNames`.  The candidates of one name
differ (`CandidatesDiffer`), so that a finite folder cannot hold them all.  For `OnlyUploadsCollide`, a file that is found
under a chosen name was not there `before`, and only an `OpenFile` of another upload puts one there.

For the UI thread, `LeaseInv` ties each registered client's record to the letter lent to it;
from the lookup on only the weaker "or the client was given up" survives the
server's steps, and that is `OpensOwnDrive`.  `MenuInv` says that a menu that is up and fresh, and a
picked item that is fresh, agree with the listing *and* with the map: building the
map again from an unchanged registry gives the same map, because `clients_` is listed in
the same order until it changes.  `HeldInv` follows the resources through every failing
step.  `ClockInv` is the arithmetic of the wait: the counter is ahead of its start by the
time waited, up to one turn, so that the difference modulo `TickModulus` is that time
(`WrapAround`).  `ExcuseInv`: a service that is stopped or stopping during the wait was stopped by
someone.

For the connection, `HeaderInv` says that while the header is read its end has not come and
the limit is kept, which is what makes `RefusedForCause` exact: the last piece took the
stream over the limit and the header's end was not before it.  It also says that while a declared
body is read, some of it is missing, so that a stream that ends there was cut short; the end of an
undeclared body is no error.  For mounted files,
`Kept` says of each handle that its copy is dirty only while a change is owed, and
that what is being uploaded is dirty and is the copy as it is now.  The last is what the
mutex is for.  That holds for any flags and makes an upload carry a change.  `Reported` adds
that a change which is not in a dirty copy any more was reported lost, or its file was closed.  It
needs
`TRUE \notin OpenFlags`: `open` is never called with O_TRUNC, because the FUSE layer does so only for
file systems that ask for it in `init`, and `WinFspInit` does not.  Were it otherwise, a truncating
open without a write would leave the phone its old file: the copy is empty and
clean.  From both, each callback is a step of `WriteBack` or a stutter: the confirmed upload is
`Save` because what was sent is the copy, a failed one is `Lose` where the copy is deleted and
the program hears of it (truncate), `Drop` where it does not (release), and an edit or a change of the
phone's file where the copy is kept (flush), and
a handle without a change never touches one (`NoChange`, `EditStep`, `UploadRefines`).

Only model-checked: everything under fairness (TLAPS does not do ENABLED), which is
what must come to an end, and the violations.  Every invariant and every action
property of a passing run is proved, and so are both refinements.

What is taken over from one model to another: `AppThread` uses `DriveLease` in place of the server;
`ServerKeepsLease` proves that the server implements it, if the build is WinFsp's or nobody
disconnects drives from outside, and `AttachedLettersAreLent` that it does so in any case for the letters
that nobody disconnects.  `OpensOwnDrive` holds for the program under the same
condition.

## 5. What is not modelled

What header lines, JSON, metadata and listings mean; exceptions other than that
of a name that is not UTF-8 (a JSON number that does not fit, memory that runs
out); the unlocked reads of `listenSocket_`; nested folders on the phone and callbacks that
only read; `EnsureHttpBasicOverHttpEnabled` and the restart of the service, which nothing calls; the menu
items that open the incoming folder, show the devices window or toggle
autostart, notifications, logging, text conversion and other presentation.  See
the components in `PROJECT.json`.

## 6. Plan

The order follows the importance of the behaviour.  Done:

1. registry, control requests, server, drive letters in both builds against
   `DriveLease`; sockets; uploads; their proofs.
2. open files of a mounted phone, and the end of a mount under them; its proofs.
3. `HttpFraming`; its proofs.
4. the discovery responder, composed with the sockets; its proofs.
5. the UI thread with the tray icon and the service; its proofs.
6. names of uploads, of any length; their proofs.
7. `WriteBack`, which the open files of a mounted phone implement; the refinement proof.
8. the server's guarantees letter by letter; how far the violated promises fail.

Left:

9. paths and listings of `AndroidFsHttpClient` (encoding and parsing) as operators against a
   reference definition over bounded inputs.
