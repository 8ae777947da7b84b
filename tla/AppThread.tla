------------------------------ MODULE AppThread ------------------------------
(***************************************************************************)
(* The UI thread (main.cpp, App.cpp): it starts the parts of the program,  *)
(* runs the message loop of the tray icon, opens what the user picks, and  *)
(* shuts everything down.  TrayIcon and WebClientService are its parts.    *)
(*                                                                         *)
(* The server appears as what it promises: drive letters are lent and      *)
(* returned as DriveLease says, and ListClients returns the registered     *)
(* clients in some order that only a change of the registry changes        *)
(* (clients_ is an unordered_map).                                         *)
(***************************************************************************)
EXTENDS TrayIcon, WebClientService

CONSTANTS WinFsp,  \* WIFIDROP_ENABLE_WINFSP
          Letters  \* drive letters

NoLetter == 0

ASSUME WinFspAssumption == WinFsp \in BOOLEAN
ASSUME LettersAssumption == NoLetter \notin Letters

VARIABLES holder,   \* the client each letter is lent to
          revoked,  \* clients that were given up
          listing,  \* what ListClients returns
          record,   \* what each registered client's record says
          ui,       \* where the UI thread is
          held,     \* what the program holds and has to give back
          chosen,   \* the client OpenClientDrive is called for
          opening   \* the drive letter it is about to open

leaseVars == <<holder, revoked>>
registryVars == <<leaseVars, listing, record>>
openVars == <<chosen, opening>>
vars == <<registryVars, trayVars, serviceVars, ui, held, openVars>>

Lease == INSTANCE DriveLease

Starting == {"start", "devicesWindow", "trayWindow", "resources", "notifyIcon", "server"}
Opening == {"lookup", "openDrive", "openAddress"}
Ending ==
    {"errorBox", "stopServer", "joinDiscovery", "discoveryHeld", "closeWindow", "closeTray"}

Held == {"devicesWindow", "trayWindow", "icons", "bitmaps", "notifyIcon", "server"}

Records == [letter : Letters \cup {NoLetter}, mountReady : BOOLEAN]

TypeOK ==
    /\ TrayTypeOK
    /\ ServiceTypeOK
    /\ holder \in [Letters -> Clients \cup {Nobody}]
    /\ revoked \subseteq Clients
    /\ listing \in Seq(Clients)
    /\ record \in [Clients -> Records]
    /\ ui \in Starting \cup {"idle"} \cup Opening \cup Ending \cup {"exited"}
    /\ held \subseteq Held
    /\ chosen \in Clients \cup {Nobody}
    /\ opening \in Letters \cup {NoLetter}
    /\ ui = "openDrive" => opening \in Letters

Init ==
    /\ TrayInit
    /\ ServiceInit
    /\ Lease!Init
    /\ listing = <<>>
    /\ record = [c \in Clients |-> [letter |-> NoLetter, mountReady |-> FALSE]]
    /\ ui = "start"
    /\ held = {}
    /\ chosen = Nobody
    /\ opening = NoLetter

Registered == {listing[i] : i \in DOMAIN listing}

-----------------------------------------------------------------------------
(* Initialize *)

StartsWebClient ==
    /\ ui = "start"
    /\ ensure = "idle"
    /\ ~WinFsp
    /\ EnsureBegins
    /\ UNCHANGED <<registryVars, trayVars, ui, held, openVars>>

\* Nobody asks for its result.
WebClientDone ==
    /\ ui = "start"
    /\ IF WinFsp THEN UNCHANGED serviceVars ELSE EnsureEnds
    /\ ui' = "devicesWindow"
    /\ UNCHANGED <<registryVars, trayVars, held, openVars>>

\* One step of Initialize: it takes what it needs, or it fails.
Acquire(here, thing, next, failed) ==
    /\ ui = here
    /\ \/ held' = held \cup {thing} /\ ui' = next
       \/ ui' = failed /\ UNCHANGED held
    /\ UNCHANGED <<registryVars, trayVars, serviceVars, openVars>>

\* There is no tray icon yet to show the error with: a modal box asks the user.
CreateDevicesWindow == Acquire("devicesWindow", "devicesWindow", "trayWindow", "errorBox")

\* When one of these fails, Run goes on to Shutdown.
CreateTrayWindow == Acquire("trayWindow", "trayWindow", "resources", "stopServer")
AddNotifyIcon == Acquire("notifyIcon", "notifyIcon", "server", "stopServer")
StartServer == Acquire("server", "server", "idle", "stopServer")

UserClosesErrorBox ==
    /\ ui = "errorBox"
    /\ ui' = "stopServer"
    /\ UNCHANGED <<registryVars, trayVars, serviceVars, held, openVars>>

\* Bitmaps are made of icons; either may come in part only.  The device contexts
\* that CreateMenuBitmap draws with are given back on each of its paths.
LoadResources ==
    /\ ui = "resources"
    /\ \/ held' = held \cup {"icons", "bitmaps"} /\ ui' = "notifyIcon"
       \/ /\ \E some \in {{}, {"icons"}, {"icons", "bitmaps"}} : held' = held \cup some
          /\ ui' = "stopServer"
    /\ UNCHANGED <<registryVars, trayVars, serviceVars, openVars>>

-----------------------------------------------------------------------------
(* The message loop, and that of a menu *)

\* The user acts while there is an icon to act on.
Input == "notifyIcon" \in held /\ ui \notin Ending \cup {"exited"}

CanOpen(c) == record[c].letter # NoLetter \/ record[c].mountReady

User ==
    /\ Input
    /\ \/ RightClick
       \/ DoubleClick
       \/ ui = "idle" /\ \E i \in DOMAIN popup.shown : PickDevice(i, CanOpen(popup.shown[i]))
       \/ ui = "idle" /\ PickExit
       \/ ui = "idle" /\ Dismiss
    /\ UNCHANGED <<registryVars, serviceVars, ui, held, openVars>>

DispatchMenu ==
    /\ ui = "idle"
    /\ ShowContextMenu(listing) \/ MenuFails
    /\ UNCHANGED <<registryVars, serviceVars, ui, held, openVars>>

\* HandleCommand, for the items of clients.
DispatchDevice ==
    /\ ui = "idle"
    /\ Takes("device")
    /\ \/ \E c \in Clients :
             /\ CommandFound(Head(queue).item, c)
             /\ chosen' = c
             /\ ui' = "lookup"
       \/ /\ \A c \in Clients : ~CommandFound(Head(queue).item, c)
          /\ UNCHANGED <<ui, chosen>>
    /\ UNCHANGED <<registryVars, popup, deviceCommands, quitPosted, serviceVars, held, opening>>

\* HandleTrayDoubleClick: without clients the incoming folder opens, with several
\* nothing does.
DispatchDoubleClick ==
    /\ ui = "idle"
    /\ Takes("doubleClick")
    /\ IF Len(listing) = 1
       THEN chosen' = listing[1] /\ ui' = "lookup"
       ELSE UNCHANGED <<chosen, ui>>
    /\ UNCHANGED <<registryVars, popup, deviceCommands, quitPosted, serviceVars, held, opening>>

DispatchExit ==
    /\ ui = "idle"
    /\ ExitApplication
    /\ UNCHANGED <<registryVars, serviceVars, ui, held, openVars>>

MenuEnds ==
    /\ ui = "idle"
    /\ QuitClosesMenu
    /\ UNCHANGED <<registryVars, serviceVars, ui, held, openVars>>

\* WM_QUIT comes when no other message waits.
LoopEnds ==
    /\ ui = "idle"
    /\ quitPosted
    /\ queue = <<>>
    /\ ~popup.up
    /\ ui' = "stopServer"
    /\ UNCHANGED <<registryVars, trayVars, serviceVars, held, openVars>>

-----------------------------------------------------------------------------
(* OpenClientDrive *)

Forget == chosen' = Nobody /\ opening' = NoLetter

\* Mutated form: whether the record has a letter at all is not asked.
OpensUnchecked(c) ==
    /\ opening' = record[c].letter
    /\ ui' = "openDrive"
    /\ UNCHANGED <<serviceVars, chosen>>

\* The record of client c is used.
Opens(c) ==
    LET r == record[c] IN
    \/ /\ r.letter # NoLetter
       /\ opening' = r.letter
       /\ ui' = "openDrive"
       /\ UNCHANGED <<serviceVars, chosen>>
    \/ /\ r.letter = NoLetter /\ r.mountReady /\ ~WinFsp
       /\ EnsureBegins
       /\ ui' = "openAddress"
       /\ UNCHANGED <<chosen, opening>>
    \/ /\ r.letter = NoLetter /\ (~r.mountReady \/ WinFsp)
       /\ ui' = "idle"
       /\ Forget
       /\ UNCHANGED serviceVars

Gone ==
    /\ ui' = "idle"
    /\ Forget
    /\ UNCHANGED serviceVars

\* Mutated form: the first record is taken for the client's.
LookUpFirst ==
    /\ ui = "lookup"
    /\ IF listing # <<>> THEN Opens(listing[1]) ELSE Gone
    /\ UNCHANGED <<registryVars, trayVars, held>>

\* A second ListClients, in which the client may be missing.
LookUpClient ==
    /\ ui = "lookup"
    /\ IF chosen \in Registered THEN Opens(chosen) ELSE Gone
    /\ UNCHANGED <<registryVars, trayVars, held>>

OpenDrive ==
    /\ ui = "openDrive"
    /\ ui' = "idle"
    /\ Forget
    /\ UNCHANGED <<registryVars, trayVars, serviceVars, held>>

\* The WebDAV path or the browser, whatever became of the service.
OpenAddress ==
    /\ ui = "openAddress"
    /\ EnsureEnds
    /\ ui' = "idle"
    /\ Forget
    /\ UNCHANGED <<registryVars, trayVars, held>>

-----------------------------------------------------------------------------
(* Shutdown *)

\* WifiDropServer::Stop returns at once when the server does not run.  When it does,
\* the discovery thread is waited for, which may itself wait for a phone
\* (DiscoveryResponder).
StopServer ==
    /\ ui = "stopServer"
    /\ ui' \in IF "server" \in held THEN {"joinDiscovery", "discoveryHeld"} ELSE {"closeWindow"}
    /\ UNCHANGED <<registryVars, trayVars, serviceVars, held, openVars>>

PhoneFreesDiscovery ==
    /\ ui = "discoveryHeld"
    /\ ui' = "joinDiscovery"
    /\ UNCHANGED <<registryVars, trayVars, serviceVars, held, openVars>>

\* The rest of Stop, which clears the registry.
StopReturns ==
    /\ ui = "joinDiscovery"
    /\ ui' = "closeWindow"
    /\ held' = held \ {"server"}
    /\ Lease!Revoke(Registered)
    /\ listing' = <<>>
    /\ Outdated
    /\ UNCHANGED <<record, serviceVars, openVars>>

CloseWindow ==
    /\ ui = "closeWindow"
    /\ ui' = "closeTray"
    /\ held' = held \ {"devicesWindow"}
    /\ UNCHANGED <<registryVars, trayVars, serviceVars, openVars>>

\* Mutated form: nothing is done without an icon.
CloseWholeTray ==
    /\ ui = "closeTray"
    /\ ui' = "exited"
    /\ held' = IF "notifyIcon" \in held
               THEN held \ {"notifyIcon", "trayWindow", "icons", "bitmaps"}
               ELSE held
    /\ UNCHANGED <<registryVars, trayVars, serviceVars, openVars>>

\* TrayIcon::Shutdown looks at each handle by itself; the icon goes with the window.
CloseTray ==
    /\ ui = "closeTray"
    /\ ui' = "exited"
    /\ held' = held \ (IF "trayWindow" \in held
                       THEN {"notifyIcon", "trayWindow", "icons", "bitmaps"}
                       ELSE {"icons", "bitmaps"})
    /\ UNCHANGED <<registryVars, trayVars, serviceVars, openVars>>

-----------------------------------------------------------------------------
(* The server's threads *)

\* The orders in which n registered clients may be listed.
Listings(S, n) ==
    {s \in [1 .. n -> S] : \A c \in S : \E i \in 1 .. n : s[i] = c}

Grant(c, l) ==
    /\ "server" \in held
    /\ c \notin Registered
    /\ Lease!Grant(c, l)
    /\ UNCHANGED <<listing, record, trayVars, serviceVars, ui, held, openVars>>

\* A connect request ends: the record names the letter the client got, if any.
\* mountReady is read of clients without a letter only.
Register(c) ==
    /\ "server" \in held
    /\ c \notin revoked \cup Registered
    /\ \E l \in Letters \cup {NoLetter}, ready \in BOOLEAN :
          /\ l # NoLetter => ready
          /\ IF l = NoLetter THEN \A m \in Letters : holder[m] # c ELSE holder[l] = c
          /\ record' = [record EXCEPT ![c] = [letter |-> l, mountReady |-> ready]]
    /\ listing' \in Listings(Registered \cup {c}, Len(listing) + 1)
    /\ Outdated
    /\ UNCHANGED <<leaseVars, serviceVars, ui, held, openVars>>

\* A session ends or clients time out.
GiveUp(S) ==
    /\ "server" \in held
    /\ S # {} /\ S \subseteq Registered
    /\ Lease!Revoke(S)
    /\ \E n \in 0 .. Len(listing) : listing' \in Listings(Registered \ S, n)
    /\ Outdated
    /\ UNCHANGED <<record, serviceVars, ui, held, openVars>>

Release(l) ==
    /\ ui # "exited"
    /\ Lease!Return(l)
    /\ UNCHANGED <<listing, record, trayVars, serviceVars, ui, held, openVars>>

Server ==
    \/ \E c \in Clients, l \in Letters : Grant(c, l)
    \/ \E c \in Clients : Register(c)
    \/ \E S \in SUBSET Registered : GiveUp(S)
    \/ \E l \in Letters : Release(l)

-----------------------------------------------------------------------------
serviceOthers == <<registryVars, trayVars, ui, held, openVars>>

Initialize ==
    \/ StartsWebClient
    \/ WebClientDone
    \/ CreateDevicesWindow
    \/ CreateTrayWindow
    \/ LoadResources
    \/ AddNotifyIcon
    \/ StartServer

MessageLoop ==
    \/ DispatchMenu
    \/ DispatchDevice
    \/ DispatchDoubleClick
    \/ DispatchExit
    \/ MenuEnds
    \/ LoopEnds

OpenClientDrive == LookUpClient \/ OpenDrive \/ OpenAddress

Shutdown == StopServer \/ StopReturns \/ CloseWindow \/ CloseTray

Next ==
    \/ Initialize
    \/ MessageLoop
    \/ OpenClientDrive
    \/ Shutdown
    \/ EnsureWork /\ UNCHANGED serviceOthers
    \/ CallFails /\ UNCHANGED serviceOthers
    \/ Tick /\ UNCHANGED serviceOthers
    \/ ServiceEnvironment /\ UNCHANGED serviceOthers
    \/ User
    \/ UserClosesErrorBox
    \/ PhoneFreesDiscovery
    \/ Server

Spec == Init /\ [][Next]_vars

FairSpec ==
    /\ Spec
    /\ WF_vars(Initialize)
    /\ WF_vars(OpenClientDrive)
    /\ WF_vars(Shutdown)
    /\ WF_vars(EnsureWork /\ UNCHANGED serviceOthers)
    /\ WF_vars(Tick /\ UNCHANGED serviceOthers)

-----------------------------------------------------------------------------
\* The item the user picks opens the client it was shown for, although it comes as
\* a number that is looked up later, in a map that was built again since, unless
\* the registry changed after the menu was shown.
OpensShownDevice ==
    [][DispatchDevice /\ Head(queue).fresh => chosen' = Head(queue).device]_vars

\* The drive that opens is the chosen client's, or was until that client was given
\* up: never that of a client the user did not choose and that was there.
OpensOwnDrive ==
    ui = "openDrive" => holder[opening] = chosen \/ chosen \in revoked

\* Whichever step of Initialize failed, and however much of it was done, Shutdown gives
\* back what the process took: windows, icon, icons and bitmaps, and the server.
NothingLeft == ui = "exited" => held = {}

\* The UI thread comes back from whatever it does: from starting up, from opening a
\* drive while the service is waited for, and from shutting down.  Where it may stay
\* is the message loop, the box that waits for the user, and the join of the discovery
\* thread while that waits for a phone.
Resting == {"idle", "exited", "errorBox", "discoveryHeld"}

UiThreadReturns == ui \notin Resting ~> ui \in Resting
=============================================================================
