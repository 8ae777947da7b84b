------------------------------- MODULE TrayIcon -------------------------------
(***************************************************************************)
(* The tray icon and its menu (TrayIcon.cpp): the messages of the hidden   *)
(* window, the menu that is built from the connected clients, and the map  *)
(* deviceCommands_ that leads from a menu command back to a client.        *)
(*                                                                         *)
(* A right click comes as two messages, and both open the menu.  While the *)
(* menu is up, TrackPopupMenu goes on dispatching messages: a second       *)
(* ShowContextMenu inside the first cannot show a menu of its own, but has *)
(* built the map anew.  The item the user picks comes as a message too.    *)
(***************************************************************************)
EXTENDS AndroidClient, Naturals, Sequences

CONSTANT MaxQueue  \* bound on the messages that wait

ASSUME MaxQueueAssumption == MaxQueue \in Nat

VARIABLES queue,           \* the messages that wait for the UI thread
          popup,           \* the menu on the screen
          deviceCommands,  \* deviceCommands_: the client of each device item
          quitPosted       \* PostQuitMessage was called

trayVars == <<queue, popup, deviceCommands, quitPosted>>

\* A message; item, device and fresh are those of a picked item: its number, the
\* client it was shown for, and whether the registry is still the one that was
\* shown (history).
Message(what, item, device, fresh) ==
    [what |-> what, item |-> item, device |-> device, fresh |-> fresh]

Plain(what) == Message(what, 0, Nobody, FALSE)

Messages ==
    [what : {"menu", "doubleClick", "device", "exit"}, item : Nat,
     device : Clients \cup {Nobody}, fresh : BOOLEAN]

\* The menu: the clients of its device items, and whether the registry is unchanged
\* since it was read (history).
NoPopup == [up |-> FALSE, shown |-> <<>>, fresh |-> FALSE]

TrayTypeOK ==
    /\ queue \in Seq(Messages)
    /\ Len(queue) <= MaxQueue
    /\ popup \in [up : BOOLEAN, shown : Seq(Clients), fresh : BOOLEAN]
    /\ deviceCommands \in Seq(Clients)
    /\ quitPosted \in BOOLEAN

TrayInit ==
    /\ queue = <<>>
    /\ popup = NoPopup
    /\ deviceCommands = <<>>
    /\ quitPosted = FALSE

Post(messages) ==
    /\ Len(queue) + Len(messages) <= MaxQueue
    /\ queue' = queue \o messages

-----------------------------------------------------------------------------
(* The user *)

\* NOTIFYICON_VERSION_4 announces a right click by WM_RBUTTONUP and WM_CONTEXTMENU;
\* a menu that is up goes away.
RightClick ==
    /\ Post(<<Plain("menu"), Plain("menu")>>)
    /\ popup' = NoPopup
    /\ UNCHANGED <<deviceCommands, quitPosted>>

DoubleClick ==
    /\ Post(<<Plain("doubleClick")>>)
    /\ popup' = NoPopup
    /\ UNCHANGED <<deviceCommands, quitPosted>>

\* Items of clients that cannot be opened are disabled.
PickDevice(i, canOpen) ==
    /\ popup.up
    /\ i \in DOMAIN popup.shown
    /\ canOpen
    /\ Post(<<Message("device", i, popup.shown[i], popup.fresh)>>)
    /\ popup' = NoPopup
    /\ UNCHANGED <<deviceCommands, quitPosted>>

PickExit ==
    /\ popup.up
    /\ Post(<<Plain("exit")>>)
    /\ popup' = NoPopup
    /\ UNCHANGED <<deviceCommands, quitPosted>>

Dismiss ==
    /\ popup.up
    /\ popup' = NoPopup
    /\ UNCHANGED <<queue, deviceCommands, quitPosted>>

-----------------------------------------------------------------------------
(* The window procedure *)

Takes(what) ==
    /\ queue # <<>>
    /\ Head(queue).what = what
    /\ queue' = Tail(queue)

\* Mutated form: the map is not cleared, and emplace does not overwrite.
Keep(devices) ==
    [i \in 1 .. Len(devices) |-> IF i <= Len(deviceCommands) THEN deviceCommands[i] ELSE devices[i]]

\* The client of each device item, in the order of the list.
Commands(devices) == devices

\* TrackPopupMenu fails while a menu is up.
ShowContextMenu(devices) ==
    /\ Takes("menu")
    /\ deviceCommands' = Commands(devices)
    /\ popup' = IF popup.up THEN popup ELSE [up |-> TRUE, shown |-> devices, fresh |-> TRUE]
    /\ UNCHANGED quitPosted

\* CreatePopupMenu fails.
MenuFails ==
    /\ Takes("menu")
    /\ UNCHANGED <<popup, deviceCommands, quitPosted>>

\* The item as deviceCommands_ has it now.
CommandFound(i, c) == i \in DOMAIN deviceCommands /\ deviceCommands[i] = c

ExitApplication ==
    /\ Takes("exit")
    /\ quitPosted' = TRUE
    /\ UNCHANGED <<popup, deviceCommands>>

\* WM_QUIT ends the loop of a menu, too.
QuitClosesMenu ==
    /\ quitPosted
    /\ queue = <<>>
    /\ popup.up
    /\ popup' = NoPopup
    /\ UNCHANGED <<queue, deviceCommands, quitPosted>>

\* What is shown or picked is out of date when the registry changes.
Outdated ==
    /\ popup' = [popup EXCEPT !.fresh = FALSE]
    /\ queue' = [i \in DOMAIN queue |-> [queue[i] EXCEPT !.fresh = FALSE]]
    /\ UNCHANGED <<deviceCommands, quitPosted>>
=============================================================================
