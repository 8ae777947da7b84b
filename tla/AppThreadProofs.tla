--------------------------- MODULE AppThreadProofs ---------------------------
(***************************************************************************)
(* What AppThread guarantees for any number of clients and letters, any    *)
(* bound on the messages that wait, any timeout and any width of the clock.*)
(***************************************************************************)
EXTENDS AppThread, TLAPS

-----------------------------------------------------------------------------
(* The inductive invariant *)

\* A registered client was not given up and holds the letter its record names; so
\* does the client whose drive is about to open, or it was given up since.
LeaseInv ==
    /\ \A c \in Registered :
          /\ c \notin revoked
          /\ record[c].letter # NoLetter => holder[record[c].letter] = c
    /\ ui = "lookup" => chosen \in Clients
    /\ ui = "openDrive" =>
          /\ opening \in Letters
          /\ chosen \in Clients
          /\ holder[opening] = chosen \/ chosen \in revoked

\* What is shown or picked and still fresh is what ListClients returns now, and so
\* is the map.
MenuInv ==
    /\ popup.up /\ popup.fresh => popup.shown = listing /\ deviceCommands = listing
    /\ \A i \in DOMAIN queue : queue[i].what = "device" /\ queue[i].fresh =>
          /\ deviceCommands = listing
          /\ queue[i].item \in DOMAIN listing
          /\ listing[queue[i].item] = queue[i].device

\* The icon needs its window, and Shutdown gives back one thing after the other.
HeldInv ==
    /\ ui \in {"start", "devicesWindow"} => held = {}
    /\ ui \in {"resources", "notifyIcon"} => "trayWindow" \in held
    /\ "notifyIcon" \in held => "trayWindow" \in held
    /\ ui \in {"closeWindow", "closeTray", "exited"} => "server" \notin held
    /\ ui \in {"closeTray", "exited"} => "devicesWindow" \notin held
    /\ ui = "exited" => held = {}

\* EnsureRunning is called from two places.
CallInv == ui \notin {"start", "openAddress"} \/ WinFsp => ensure = "idle"

\* While EnsureRunning waits, the counter is ahead by the time that passed, or has
\* wrapped around.
ClockInv ==
    /\ Waiting => tick = startTick + waited \/ tick = startTick + waited - TickModulus
    /\ ~Waiting => waited = 0

\* A service that is not on its way to running was stopped by someone else.
ExcuseInv ==
    /\ ensure \notin {"idle", "returned"} /\ service = "stopPending" => excused
    /\ Waiting /\ service = "stopped" => excused

IInv == TypeOK /\ LeaseInv /\ MenuInv /\ HeldInv /\ CallInv /\ ClockInv /\ ExcuseInv

-----------------------------------------------------------------------------
(* Lemmas *)

LEMMA WrapAround ==
    ASSUME NEW M \in Nat, NEW w \in 0 .. M - 1
    PROVE  w % M = w /\ (w - M) % M = w
OBVIOUS

LEMMA NoTimePassed ==
    ASSUME NEW t \in Int
    PROVE  t = t + 0
OBVIOUS

LEMMA NextTick ==
    ASSUME NEW M \in Nat, NEW t \in 0 .. M - 1
    PROVE  (t + 1) % M = IF t + 1 = M THEN 0 ELSE t + 1
OBVIOUS

LEMMA ListingIsOf ==
    ASSUME NEW S \in SUBSET Clients, NEW n \in Nat, listing' \in Listings(S, n)
    PROVE  listing' \in Seq(Clients) /\ Registered' = S
BY DEF Listings, Registered

LEMMA RegisteredAreClients == TypeOK => Registered \subseteq Clients
BY DEF TypeOK, Registered

LEMMA OutdatedQueue ==
    ASSUME TypeOK, Outdated
    PROVE  /\ TrayTypeOK'
           /\ ~popup'.fresh
           /\ \A i \in DOMAIN queue' : ~queue'[i].fresh
<1> USE DEF TypeOK, TrayTypeOK, Outdated
<1>1. DOMAIN queue = 1 .. Len(queue) /\ Len(queue) \in Nat
  OBVIOUS
<1>2. ASSUME NEW i \in DOMAIN queue
      PROVE  queue'[i] = [queue[i] EXCEPT !.fresh = FALSE] /\ queue'[i] \in Messages /\ ~queue'[i].fresh
  <2>1. queue[i] \in Messages
    BY <1>2
  <2> QED BY <1>2, <2>1 DEF Messages
<1>3. queue' \in [1 .. Len(queue) -> Messages]
  BY <1>1, <1>2
<1>4. queue' \in Seq(Messages) /\ Len(queue') = Len(queue)
  BY <1>1, <1>3
<1> QED BY <1>1, <1>2, <1>3, <1>4

-----------------------------------------------------------------------------
(* Each conjunct is kept by every step *)

LEMMA InitIInv == Init => IInv
<1> SUFFICES ASSUME Init PROVE IInv
  OBVIOUS
<1>0. TrayInit /\ ServiceInit /\ ui = "start" /\ held = {}
  BY DEF Init
<1>1. TrayTypeOK /\ MenuInv
  <2>1. queue = <<>> /\ DOMAIN queue = {} /\ Len(queue) = 0 /\ popup = NoPopup /\ deviceCommands = <<>>
    BY <1>0 DEF TrayInit
  <2>2. quitPosted = FALSE
    BY <1>0 DEF TrayInit
  <2>3. NoPopup \in [up : BOOLEAN, shown : Seq(Clients), fresh : BOOLEAN] /\ ~NoPopup.up
    BY DEF NoPopup
  <2>4. queue \in Seq(Messages) /\ Len(queue) <= MaxQueue /\ deviceCommands \in Seq(Clients)
    BY <2>1, MaxQueueAssumption
  <2>5. TrayTypeOK
    BY <2>1, <2>2, <2>3, <2>4 DEF TrayTypeOK
  <2>6. MenuInv
    BY <2>1, <2>3 DEF MenuInv
  <2> QED BY <2>5, <2>6
<1>2. ServiceTypeOK /\ CallInv /\ ClockInv /\ ExcuseInv
  <2>1. 0 \in Ticks
    BY TickAssumption DEF Ticks
  <2> QED BY <1>0, <2>1
          DEF ServiceInit, ServiceTypeOK, ServiceStates, CallInv, ClockInv, ExcuseInv, Waiting
<1>3. Registered = {} /\ listing \in Seq(Clients)
  BY DEF Init, Registered
<1>4. TypeOK
  BY <1>1, <1>2, <1>3, NobodyIsNoClient DEF Init, TypeOK, Lease!Init, Records, Starting
<1>5. LeaseInv /\ HeldInv
  BY <1>0, <1>3 DEF LeaseInv, HeldInv
<1> QED BY <1>1, <1>2, <1>4, <1>5 DEF IInv

\* The registry and the queue, where the server's threads and Stop change them.
LEMMA RegistryStep ==
    ASSUME IInv, Server \/ StopReturns
    PROVE  /\ TrayTypeOK' /\ MenuInv'
           /\ holder' \in [Letters -> Clients \cup {Nobody}]
           /\ revoked' \subseteq Clients
           /\ listing' \in Seq(Clients)
           /\ record' \in [Clients -> Records]
           /\ LeaseInv'
<1> USE DEF IInv, TypeOK, leaseVars, openVars, trayVars
<1>a. Registered \subseteq Clients /\ Len(listing) \in Nat
  BY RegisteredAreClients
<1>b. ASSUME Outdated PROVE TrayTypeOK' /\ MenuInv'
  BY <1>b, OutdatedQueue DEF MenuInv
<1>c. ASSUME UNCHANGED <<listing, trayVars>> PROVE TrayTypeOK' /\ MenuInv'
  BY <1>c DEF TrayTypeOK, MenuInv
<1>1. ASSUME NEW c \in Clients, NEW l \in Letters, Grant(c, l)
      PROVE  /\ holder' \in [Letters -> Clients \cup {Nobody}]
             /\ LeaseInv'
  BY <1>1, <1>a, NobodyIsNoClient DEF Grant, Lease!Grant, LeaseInv, Registered, Records
<1>2. ASSUME NEW l \in Letters, Release(l)
      PROVE  /\ holder' \in [Letters -> Clients \cup {Nobody}]
             /\ LeaseInv'
  BY <1>2, <1>a DEF Release, Lease!Return, LeaseInv, Registered, Records
<1>3. ASSUME NEW c \in Clients, Register(c)
      PROVE  /\ listing' \in Seq(Clients)
             /\ record' \in [Clients -> Records]
             /\ LeaseInv'
  <2>1. PICK l \in Letters \cup {NoLetter}, ready \in BOOLEAN :
           /\ IF l = NoLetter THEN \A m \in Letters : holder[m] # c ELSE holder[l] = c
           /\ record' = [record EXCEPT ![c] = [letter |-> l, mountReady |-> ready]]
    BY <1>3 DEF Register
  <2>2. listing' \in Seq(Clients) /\ Registered' = Registered \cup {c}
    BY <1>3, <1>a, ListingIsOf DEF Register
  <2>3. record' \in [Clients -> Records]
    BY <2>1 DEF Records
  <2>4. LeaseInv'
    BY <1>3, <1>a, <2>1, <2>2 DEF Register, LeaseInv
  <2> QED BY <2>2, <2>3, <2>4
<1>4. ASSUME NEW S \in SUBSET Registered, GiveUp(S)
      PROVE  /\ listing' \in Seq(Clients)
             /\ revoked' \subseteq Clients
             /\ LeaseInv'
  <2>1. listing' \in Seq(Clients) /\ Registered' = Registered \ S
    BY <1>4, <1>a, ListingIsOf DEF GiveUp
  <2> QED BY <1>4, <1>a, <2>1 DEF GiveUp, Lease!Revoke, LeaseInv
<1>5. ASSUME StopReturns
      PROVE  /\ listing' \in Seq(Clients)
             /\ revoked' \subseteq Clients
             /\ LeaseInv'
  BY <1>5, <1>a DEF StopReturns, Lease!Revoke, LeaseInv, Registered
<1> QED
  <2>1. CASE \E c \in Clients, l \in Letters : Grant(c, l)
    BY <2>1, <1>1, <1>c DEF Grant, Lease!Grant
  <2>2. CASE \E c \in Clients : Register(c)
    BY <2>2, <1>3, <1>b DEF Register
  <2>3. CASE \E S \in SUBSET Registered : GiveUp(S)
    BY <2>3, <1>4, <1>b DEF GiveUp, Lease!Revoke
  <2>4. CASE \E l \in Letters : Release(l)
    BY <2>4, <1>2, <1>c DEF Release, Lease!Return
  <2>5. CASE StopReturns
    BY <2>5, <1>5, <1>b DEF StopReturns, Lease!Revoke
  <2> QED BY <2>1, <2>2, <2>3, <2>4, <2>5 DEF Server
\* What waits is a part of what waited, or what waited and what was posted.
LEMMA TakenQueue ==
    ASSUME TrayTypeOK, NEW w, Takes(w)
    PROVE  /\ queue' \in Seq(Messages) /\ Len(queue') <= MaxQueue
           /\ \A i \in DOMAIN queue' : \E j \in DOMAIN queue : queue'[i] = queue[j]
<1> USE DEF TrayTypeOK, Takes
<1>1. queue' \in Seq(Messages) /\ Len(queue') = Len(queue) - 1
  OBVIOUS
<1>2. ASSUME NEW i \in DOMAIN queue' PROVE i + 1 \in DOMAIN queue /\ queue'[i] = queue[i + 1]
  BY <1>1, <1>2
<1> QED BY <1>1, <1>2, MaxQueueAssumption

LEMMA PostedQueue ==
    ASSUME TrayTypeOK, NEW m \in Seq(Messages), Post(m)
    PROVE  /\ queue' \in Seq(Messages) /\ Len(queue') <= MaxQueue
           /\ \A i \in DOMAIN queue' : \/ i \in DOMAIN queue /\ queue'[i] = queue[i]
                                       \/ \E j \in DOMAIN m : queue'[i] = m[j]
<1> USE DEF TrayTypeOK, Post
<1>1. queue' \in Seq(Messages) /\ Len(queue') = Len(queue) + Len(m)
  OBVIOUS
<1>2. ASSUME NEW i \in DOMAIN queue', i > Len(queue)
      PROVE  i - Len(queue) \in DOMAIN m /\ queue'[i] = m[i - Len(queue)]
  BY <1>1, <1>2
<1>3. ASSUME NEW i \in DOMAIN queue', ~(i > Len(queue))
      PROVE  i \in DOMAIN queue /\ queue'[i] = queue[i]
  BY <1>1, <1>3
<1> QED BY <1>1, <1>2, <1>3

TrayStep ==
    \/ RightClick
    \/ DoubleClick
    \/ \E i \in DOMAIN popup.shown : PickDevice(i, CanOpen(popup.shown[i]))
    \/ PickExit
    \/ Dismiss
    \/ ShowContextMenu(listing)
    \/ \E w : Takes(w) /\ UNCHANGED <<popup, deviceCommands>> /\ quitPosted' \in BOOLEAN
    \/ QuitClosesMenu

\* The messages, while the registry stays as it is.
LEMMA TrayKept ==
    ASSUME TypeOK, MenuInv, TrayStep, UNCHANGED listing
    PROVE  TrayTypeOK' /\ MenuInv'
<1> USE DEF TypeOK
<1>a. \A w : Plain(w).what = w /\ (w \in {"menu", "doubleClick", "exit"} => Plain(w) \in Messages)
  BY DEF Plain, Message, Messages
<1>b. NoPopup \in [up : BOOLEAN, shown : Seq(Clients), fresh : BOOLEAN] /\ ~NoPopup.up
  BY DEF NoPopup
<1>c. ASSUME NEW m \in Seq(Messages), Post(m), popup' = NoPopup,
             UNCHANGED <<deviceCommands, quitPosted>>,
             \A i \in DOMAIN m : m[i].what # "device"
      PROVE  TrayTypeOK' /\ MenuInv'
  <2>1. /\ queue' \in Seq(Messages) /\ Len(queue') <= MaxQueue
        /\ \A i \in DOMAIN queue' : \/ i \in DOMAIN queue /\ queue'[i] = queue[i]
                                    \/ \E j \in DOMAIN m : queue'[i] = m[j]
    BY <1>c, PostedQueue
  <2>2. TrayTypeOK'
    BY <1>b, <1>c, <2>1 DEF TrayTypeOK
  <2>3. MenuInv'
    BY <1>b, <1>c, <2>1 DEF MenuInv
  <2> QED BY <2>2, <2>3
<1>1. CASE RightClick
  <2> DEFINE m == <<Plain("menu"), Plain("menu")>>
  <2>1. m \in Seq(Messages) /\ \A i \in DOMAIN m : m[i].what # "device"
    BY <1>a
  <2> QED BY <1>1, <1>c, <2>1 DEF RightClick
<1>2. CASE DoubleClick
  <2> DEFINE m == <<Plain("doubleClick")>>
  <2>1. m \in Seq(Messages) /\ \A i \in DOMAIN m : m[i].what # "device"
    BY <1>a
  <2> QED BY <1>2, <1>c, <2>1 DEF DoubleClick
<1>3. ASSUME NEW i \in DOMAIN popup.shown, PickDevice(i, CanOpen(popup.shown[i]))
      PROVE  TrayTypeOK' /\ MenuInv'
  <2> DEFINE one == Message("device", i, popup.shown[i], popup.fresh)
             m == <<one>>
  <2>0. popup.shown \in Seq(Clients) /\ i \in Nat /\ popup.shown[i] \in Clients /\ popup.fresh \in BOOLEAN
    BY DEF TrayTypeOK
  <2>1. one \in Messages /\ one.item = i /\ one.device = popup.shown[i] /\ one.fresh = popup.fresh
    BY <2>0 DEF Message, Messages
  <2>2. popup.fresh => deviceCommands = listing /\ popup.shown = listing
    BY <1>3 DEF MenuInv, PickDevice
  <2>3. m \in Seq(Messages) /\ \A j \in DOMAIN m : m[j] = one
    BY <2>1
  <2> HIDE DEF one, m
  <2>4. Post(m) /\ popup' = NoPopup /\ UNCHANGED <<deviceCommands, quitPosted>>
    BY <1>3 DEF PickDevice, m, one
  <2>5. /\ queue' \in Seq(Messages) /\ Len(queue') <= MaxQueue
        /\ \A j \in DOMAIN queue' :
              \/ j \in DOMAIN queue /\ queue'[j] = queue[j]
              \/ queue'[j] = one
    BY <2>3, <2>4, PostedQueue
  <2> QED BY <1>b, <2>1, <2>2, <2>4, <2>5 DEF TrayTypeOK, MenuInv
<1>4. CASE PickExit
  <2> DEFINE m == <<Plain("exit")>>
  <2>1. m \in Seq(Messages) /\ \A i \in DOMAIN m : m[i].what # "device"
    BY <1>a
  <2> QED BY <1>4, <1>c, <2>1 DEF PickExit
<1>5. CASE Dismiss \/ QuitClosesMenu
  BY <1>5, <1>b DEF Dismiss, QuitClosesMenu, TrayTypeOK, MenuInv
<1>6. CASE ShowContextMenu(listing)
  <2>1. Takes("menu") /\ deviceCommands' = listing /\ UNCHANGED quitPosted
    BY <1>6 DEF ShowContextMenu, Commands
  <2>2. popup' \in [up : BOOLEAN, shown : Seq(Clients), fresh : BOOLEAN]
    BY <1>6 DEF ShowContextMenu, TrayTypeOK
  <2>3. popup'.up /\ popup'.fresh => popup'.shown = listing
    BY <1>6 DEF ShowContextMenu, MenuInv
  <2> QED BY <2>1, <2>2, <2>3, TakenQueue DEF TrayTypeOK, MenuInv
<1>7. ASSUME NEW w, Takes(w), UNCHANGED <<popup, deviceCommands>>, quitPosted' \in BOOLEAN
      PROVE  TrayTypeOK' /\ MenuInv'
  BY <1>7, TakenQueue DEF TrayTypeOK, MenuInv
<1> QED BY <1>1, <1>2, <1>3, <1>4, <1>5, <1>6, <1>7 DEF TrayStep
\* The service, its clock and its excuses.
LEMMA ServiceKept ==
    ASSUME ServiceTypeOK, ClockInv, ExcuseInv,
           \/ EnsureWork \/ CallFails \/ Tick \/ ServiceEnvironment
           \/ EnsureBegins /\ ensure = "idle"
           \/ EnsureEnds
           \/ UNCHANGED serviceVars
    PROVE  ServiceTypeOK' /\ ClockInv' /\ ExcuseInv'
<1> USE DEF ServiceTypeOK, serviceVars, clockVars
<1>z. 0 \in Ticks /\ TickModulus \in Nat /\ Ticks = 0 .. TickModulus - 1
  BY TickAssumption DEF Ticks
<1>a. ASSUME NEW next \in {"query", "requery", "start"}, GoTo(next), UNCHANGED excused,
             ~Waiting, ensure \notin {"idle", "returned"}
      PROVE  ServiceTypeOK' /\ ClockInv' /\ ExcuseInv'
  BY <1>a DEF GoTo, ClockInv, ExcuseInv, Waiting
<1>b. ASSUME NEW next \in {"wait", "poll", "sleep"}, GoTo(next), UNCHANGED excused, Waiting
      PROVE  ServiceTypeOK' /\ ClockInv' /\ ExcuseInv'
  BY <1>b DEF GoTo, ClockInv, ExcuseInv, Waiting
<1>c. ASSUME NEW result \in BOOLEAN, Return(result), excused' \in BOOLEAN
      PROVE  ServiceTypeOK' /\ ClockInv' /\ ExcuseInv'
  BY <1>c, <1>z DEF Return, ClockInv, ExcuseInv, Waiting, ServiceStates
<1>1. CASE OpenManager
  BY <1>1, <1>a DEF OpenManager, Waiting
<1>2. CASE QueryFirst
  <2>1. Return(TRUE) \/ GoTo("requery")
    BY <1>2 DEF QueryFirst
  <2> QED BY <1>2, <1>a, <1>c, <2>1 DEF QueryFirst, Waiting
<1>3. CASE QueryAgain
  <2>1. Return(TRUE) \/ GoTo("start")
    BY <1>3 DEF QueryAgain
  <2> QED BY <1>3, <1>a, <1>c, <2>1 DEF QueryAgain, Waiting
<1>4. CASE StartService
  <2>1. service' \in ServiceStates /\ tick' \in Ticks /\ startTick' = tick' /\ waited' = 0
    BY <1>4 DEF StartService, ServiceStates, ClockInv, Waiting
  <2>2. ensure' = "wait" /\ UNCHANGED <<webClientReady, excused>> /\ service' # "stopped"
    BY <1>4 DEF StartService
  <2>3. service' = "stopPending" => service = "stopPending"
    BY <1>4 DEF StartService
  <2>4. ServiceTypeOK'
    BY <2>1, <2>2, <1>z
  <2>5. ClockInv'
    <3>1. tick' = startTick' + waited'
      <4>1. tick' \in Int /\ startTick' = tick' /\ waited' = 0
        BY <2>1, <1>z
      <4>2. tick' = tick' + 0
        BY <4>1, NoTimePassed
      <4> QED BY <4>1, <4>2, Zenon
    <3>2. Waiting'
      BY <2>2 DEF Waiting
    <3> QED BY <3>1, <3>2 DEF ClockInv
  <2>6. ExcuseInv'
    BY <1>4, <2>2, <2>3 DEF ExcuseInv, Waiting, StartService
  <2> QED BY <2>4, <2>5, <2>6
<1>5. CASE TestTimeout
  BY <1>5, <1>b, <1>c DEF TestTimeout, Waiting
<1>6. CASE Poll
  BY <1>6, <1>b, <1>c DEF Poll, Waiting
<1>7. CASE SleepEnds
  BY <1>7, <1>b DEF SleepEnds, Waiting
<1>8. CASE CallFails
  BY <1>8, <1>c DEF CallFails
<1>9. CASE Tick
  <2>1. tick' = IF tick + 1 = TickModulus THEN 0 ELSE tick + 1
    BY <1>9, <1>z, NextTick DEF Tick
  <2>2. waited' = waited + 1 /\ waited' \in Ticks /\ tick' \in Ticks
    BY <1>9, <1>z, <2>1 DEF Tick
  <2>3. Waiting /\ Waiting' /\ UNCHANGED <<service, ensure, startTick, webClientReady, excused>>
    BY <1>9 DEF Tick, Waiting
  <2>4. ServiceTypeOK'
    BY <2>2, <2>3
  <2>5. ClockInv'
    <3>1. tick \in 0 .. TickModulus - 1 /\ startTick \in Int /\ waited \in Int /\ TickModulus \in Int
      BY <1>z
    <3>2. tick = startTick + waited \/ tick = startTick + waited - TickModulus
      BY <2>3 DEF ClockInv
    <3>3. CASE tick + 1 = TickModulus
      <4>1. startTick + waited < TickModulus + TickModulus - 1
        BY <1>z
      <4>2. tick = startTick + waited
        BY <3>1, <3>2, <3>3, <4>1
      <4>3. tick' = startTick' + waited' - TickModulus
        BY <2>1, <2>2, <2>3, <3>1, <3>3, <4>2
      <4> QED BY <2>3, <4>3 DEF ClockInv
    <3>4. CASE tick + 1 # TickModulus
      BY <2>1, <2>2, <2>3, <3>1, <3>2, <3>4 DEF ClockInv
    <3> QED BY <3>3, <3>4
  <2>6. ExcuseInv'
    BY <2>3 DEF ExcuseInv
  <2> QED BY <2>4, <2>5, <2>6
<1>10. CASE ServiceEnvironment
  BY <1>10 DEF ServiceEnvironment, ServiceGoesOn, OthersStart, ServiceStops, ServiceStates,
               ClockInv, ExcuseInv, Waiting
<1>11. CASE EnsureBegins /\ ensure = "idle"
  BY <1>11 DEF EnsureBegins, ClockInv, ExcuseInv, Waiting
<1>12. CASE EnsureEnds
  BY <1>12 DEF EnsureEnds, ClockInv, ExcuseInv, Waiting
<1>13. CASE UNCHANGED serviceVars
  BY <1>13 DEF ClockInv, ExcuseInv, Waiting
<1> QED BY <1>1, <1>2, <1>3, <1>4, <1>5, <1>6, <1>7, <1>8, <1>9, <1>10, <1>11, <1>12, <1>13
        DEF EnsureWork
-----------------------------------------------------------------------------
(* The inductive step *)

RestTypes ==
    /\ holder \in [Letters -> Clients \cup {Nobody}]
    /\ revoked \subseteq Clients
    /\ listing \in Seq(Clients)
    /\ record \in [Clients -> Records]
    /\ ui \in Starting \cup {"idle"} \cup Opening \cup Ending \cup {"exited"}
    /\ held \subseteq Held
    /\ chosen \in Clients \cup {Nobody}
    /\ opening \in Letters \cup {NoLetter}

\* Steps that leave the registry alone, and do not begin to open a drive.
LEMMA RestKept ==
    ASSUME IInv, UNCHANGED registryVars,
           ui' \in Starting \cup {"idle"} \cup Opening \cup Ending \cup {"exited"},
           held' \subseteq Held, chosen' \in Clients \cup {Nobody}, opening' \in Letters \cup {NoLetter},
           ui' = "lookup" => chosen' \in Clients,
           ui' = "openDrive" => UNCHANGED <<ui, chosen, opening>>
    PROVE  RestTypes' /\ LeaseInv'
<1>1. RestTypes'
  BY DEF RestTypes, IInv, TypeOK, registryVars, leaseVars
<1>2. Registered' = Registered
  BY DEF registryVars, Registered
<1>3. LeaseInv'
  BY <1>2 DEF IInv, LeaseInv, registryVars, leaseVars
<1> QED BY <1>1, <1>3

\* OpenClientDrive takes the letter of the record, which is the client's own.
LEMMA OpensKept ==
    ASSUME IInv, ui = "lookup", Opens(chosen), chosen \in Registered, UNCHANGED <<registryVars, held>>
    PROVE  RestTypes' /\ LeaseInv' /\ ui' \in {"openDrive", "openAddress", "idle"}
<1> USE DEF IInv
<1>1. chosen \in Clients /\ record[chosen] \in Records
  BY DEF LeaseInv, TypeOK
<1>2. record[chosen].letter \in Letters \cup {NoLetter} /\ record[chosen].mountReady \in BOOLEAN
  BY <1>1 DEF Records
<1>3. CASE record[chosen].letter # NoLetter
  <2>1. opening' = record[chosen].letter /\ ui' = "openDrive" /\ UNCHANGED chosen
    BY <1>3 DEF Opens
  <2>2. opening' \in Letters /\ holder[opening'] = chosen
    BY <1>2, <1>3, <2>1 DEF LeaseInv
  <2>3. RestTypes'
    BY <1>1, <2>1, <2>2 DEF RestTypes, TypeOK, registryVars, leaseVars, Opening
  <2>4. Registered' = Registered
    BY DEF registryVars, Registered
  <2>5. LeaseInv'
    BY <1>1, <2>1, <2>2, <2>4 DEF LeaseInv, registryVars, leaseVars
  <2> QED BY <2>1, <2>3, <2>5
<1>4. CASE record[chosen].letter = NoLetter
  <2>1. /\ ui' \in {"openAddress", "idle"}
        /\ chosen' \in {chosen, Nobody}
        /\ opening' \in {opening, NoLetter}
    BY <1>4, <1>2, WinFspAssumption DEF Opens, Forget
  <2> QED BY <2>1, RestKept DEF TypeOK, Opening
<1> QED BY <1>3, <1>4

LEMMA StepIInv == IInv /\ [Next]_vars => IInv'
<1> SUFFICES ASSUME IInv, [Next]_vars PROVE IInv'
  OBVIOUS
<1>a. TypeOK /\ LeaseInv /\ MenuInv /\ HeldInv /\ CallInv /\ ClockInv /\ ExcuseInv
  BY DEF IInv
<1>b. RestTypes /\ TrayTypeOK /\ ServiceTypeOK
  BY <1>a DEF TypeOK, RestTypes
<1>c. ASSUME RestTypes' /\ LeaseInv' /\ TrayTypeOK' /\ MenuInv', ServiceTypeOK' /\ ClockInv' /\ ExcuseInv',
             HeldInv', CallInv'
      PROVE  IInv'
  BY <1>c DEF IInv, TypeOK, RestTypes, LeaseInv
<1>t. ASSUME UNCHANGED <<listing, trayVars>> PROVE TrayTypeOK' /\ MenuInv'
  BY <1>a, <1>b, <1>t DEF trayVars, TrayTypeOK, MenuInv
<1>s. ASSUME UNCHANGED serviceVars PROVE ServiceTypeOK' /\ ClockInv' /\ ExcuseInv'
  BY <1>a, <1>b, <1>s, ServiceKept
<1>h. ASSUME UNCHANGED <<ui, held>> PROVE HeldInv'
  BY <1>a, <1>h DEF HeldInv
<1>1. CASE StartsWebClient
  <2>1. RestTypes' /\ LeaseInv'
    BY <1>1, <1>b, RestKept DEF StartsWebClient, openVars, RestTypes, Starting
  <2>2. ServiceTypeOK' /\ ClockInv' /\ ExcuseInv'
    BY <1>1, <1>a, <1>b, ServiceKept DEF StartsWebClient
  <2>3. CallInv'
    BY <1>1 DEF StartsWebClient, CallInv
  <2> QED BY <1>1, <1>c, <1>t, <1>h, <2>1, <2>2, <2>3 DEF StartsWebClient, registryVars
<1>2. CASE WebClientDone
  <2>1. RestTypes' /\ LeaseInv'
    BY <1>2, <1>b, RestKept DEF WebClientDone, openVars, RestTypes, Starting
  <2>2. ServiceTypeOK' /\ ClockInv' /\ ExcuseInv'
    BY <1>2, <1>a, <1>b, ServiceKept DEF WebClientDone
  <2>3. CallInv'
    BY <1>2, <1>a DEF WebClientDone, CallInv, EnsureEnds, serviceVars
  <2>4. HeldInv'
    BY <1>2, <1>a DEF WebClientDone, HeldInv
  <2> QED BY <1>2, <1>c, <1>t, <2>1, <2>2, <2>3, <2>4 DEF WebClientDone, registryVars
<1>3. ASSUME NEW here \in Starting \ {"start"}, NEW thing \in Held, NEW next \in {"trayWindow", "resources", "server", "idle"},
             NEW failed \in {"errorBox", "stopServer"}, Acquire(here, thing, next, failed),
             next = "trayWindow" <=> here = "devicesWindow",
             next = "resources" => thing = "trayWindow",
             thing = "notifyIcon" => here = "notifyIcon"
      PROVE  IInv'
  <2>1. RestTypes' /\ LeaseInv'
    BY <1>3, <1>b, RestKept DEF Acquire, openVars, RestTypes, Starting, Ending
  <2>2. CallInv'
    BY <1>3, <1>a DEF Acquire, CallInv, Starting, serviceVars
  <2>3. HeldInv'
    BY <1>3, <1>a DEF Acquire, HeldInv, Starting, Held
  <2> QED BY <1>3, <1>c, <1>t, <1>s, <2>1, <2>2, <2>3 DEF Acquire, registryVars
<1>4. CASE CreateDevicesWindow
  BY <1>4, <1>3 DEF CreateDevicesWindow, Starting, Held
<1>5. CASE CreateTrayWindow
  BY <1>5, <1>3 DEF CreateTrayWindow, Starting, Held
<1>6. CASE LoadResources
  <2>1. RestTypes' /\ LeaseInv'
    BY <1>6, <1>b, RestKept DEF LoadResources, openVars, RestTypes, Starting, Ending, Held
  <2>2. CallInv'
    BY <1>6, <1>a DEF LoadResources, CallInv, serviceVars
  <2>3. HeldInv'
    BY <1>6, <1>a DEF LoadResources, HeldInv
  <2> QED BY <1>6, <1>c, <1>t, <1>s, <2>1, <2>2, <2>3 DEF LoadResources, registryVars
<1>7. CASE AddNotifyIcon
  BY <1>7, <1>3 DEF AddNotifyIcon, Starting, Held
<1>8. CASE StartServer
  BY <1>8, <1>3 DEF StartServer, Starting, Held
<1>9. ASSUME TrayStep, UNCHANGED <<registryVars, serviceVars, held, opening>>,
             ui' \in {ui, "lookup"}, ui = "idle" \/ UNCHANGED ui,
             \/ UNCHANGED <<ui, chosen>>
             \/ ui' = "lookup" /\ chosen' \in Clients
      PROVE  IInv'
  <2>1. RestTypes' /\ LeaseInv'
    BY <1>9, <1>a, <1>b, RestKept DEF RestTypes, Opening, LeaseInv
  <2>2. TrayTypeOK' /\ MenuInv'
    BY <1>9, <1>a, TrayKept DEF registryVars
  <2>3. CallInv'
    BY <1>9, <1>a DEF CallInv, serviceVars
  <2>4. HeldInv'
    BY <1>9, <1>a DEF HeldInv
  <2> QED BY <1>9, <1>c, <1>s, <2>1, <2>2, <2>3, <2>4
<1>10. CASE User
  BY <1>10, <1>9 DEF User, TrayStep, openVars
<1>11. CASE DispatchMenu
  BY <1>11, <1>9, <1>b DEF DispatchMenu, MenuFails, TrayStep, openVars, TrayTypeOK
<1>12. CASE DispatchDevice
  BY <1>12, <1>9, <1>b DEF DispatchDevice, TrayStep, TrayTypeOK
<1>13. CASE DispatchDoubleClick
  <2>0. listing \in Seq(Clients)
    BY <1>b DEF RestTypes
  <2>1. Len(listing) = 1 => listing[1] \in Clients
    BY <2>0
  <2> QED BY <1>13, <1>9, <1>b, <2>1 DEF DispatchDoubleClick, TrayStep, TrayTypeOK
<1>14. CASE DispatchExit
  BY <1>14, <1>9 DEF DispatchExit, ExitApplication, TrayStep, openVars
<1>15. CASE MenuEnds
  BY <1>15, <1>9 DEF MenuEnds, TrayStep, openVars
<1>16. CASE LoopEnds
  <2>1. RestTypes' /\ LeaseInv'
    BY <1>16, <1>b, RestKept DEF LoopEnds, openVars, RestTypes, Ending
  <2>2. CallInv'
    BY <1>16, <1>a DEF LoopEnds, CallInv, serviceVars
  <2>3. HeldInv'
    BY <1>16, <1>a DEF LoopEnds, HeldInv
  <2> QED BY <1>16, <1>c, <1>t, <1>s, <2>1, <2>2, <2>3 DEF LoopEnds, registryVars
<1>17. CASE LookUpClient
  <2>1. CASE chosen \in Registered
    <3>1. Opens(chosen) /\ ui = "lookup" /\ UNCHANGED <<registryVars, trayVars, held>>
      BY <1>17, <2>1 DEF LookUpClient
    <3>2. RestTypes' /\ LeaseInv' /\ ui' \in {"openDrive", "openAddress", "idle"}
      BY <2>1, <3>1, OpensKept
    <3>3. ensure = "idle"
      BY <3>1, <1>a DEF CallInv
    <3>4. UNCHANGED serviceVars \/ (EnsureBegins /\ ui' = "openAddress" /\ ~WinFsp)
      BY <3>1 DEF Opens
    <3>5. ServiceTypeOK' /\ ClockInv' /\ ExcuseInv'
      BY <3>3, <3>4, <1>a, <1>b, ServiceKept
    <3>6. CallInv'
      BY <3>3, <3>4 DEF CallInv, serviceVars
    <3>7. HeldInv'
      BY <3>1, <3>2, <1>a DEF HeldInv
    <3> QED BY <1>c, <1>t, <3>1, <3>2, <3>5, <3>6, <3>7 DEF registryVars
  <2>2. CASE chosen \notin Registered
    <3>1. ui = "lookup" /\ ui' = "idle" /\ Forget /\ UNCHANGED <<registryVars, trayVars, serviceVars, held>>
      BY <1>17, <2>2 DEF LookUpClient, Gone
    <3>2. RestTypes' /\ LeaseInv'
      BY <3>1, <1>b, RestKept DEF Forget, RestTypes
    <3>3. CallInv' /\ HeldInv'
      BY <3>1, <1>a DEF CallInv, HeldInv, serviceVars
    <3> QED BY <1>c, <1>t, <1>s, <3>1, <3>2, <3>3 DEF registryVars
  <2> QED BY <2>1, <2>2
<1>18. CASE OpenDrive
  <2>1. RestTypes' /\ LeaseInv'
    BY <1>18, <1>b, RestKept DEF OpenDrive, Forget, RestTypes
  <2>2. CallInv' /\ HeldInv'
    BY <1>18, <1>a DEF OpenDrive, CallInv, HeldInv, serviceVars
  <2> QED BY <1>18, <1>c, <1>t, <1>s, <2>1, <2>2 DEF OpenDrive, registryVars
<1>19. CASE OpenAddress
  <2>1. RestTypes' /\ LeaseInv'
    BY <1>19, <1>b, RestKept DEF OpenAddress, Forget, RestTypes
  <2>2. ServiceTypeOK' /\ ClockInv' /\ ExcuseInv'
    BY <1>19, <1>a, <1>b, ServiceKept DEF OpenAddress
  <2>3. CallInv' /\ HeldInv'
    BY <1>19, <1>a DEF OpenAddress, CallInv, HeldInv, EnsureEnds
  <2> QED BY <1>19, <1>c, <1>t, <2>1, <2>2, <2>3 DEF OpenAddress, registryVars
<1>20. CASE StopReturns
  <2>1. UNCHANGED <<serviceVars, openVars>> /\ ui = "joinDiscovery" /\ ui' = "closeWindow" /\ held' = held \ {"server"}
    BY <1>20 DEF StopReturns
  <2>2. RestTypes' /\ LeaseInv' /\ TrayTypeOK' /\ MenuInv'
    BY <1>20, <1>b, <2>1, RegistryStep DEF RestTypes, openVars, Ending
  <2>3. CallInv' /\ HeldInv'
    BY <2>1, <1>a DEF CallInv, HeldInv, serviceVars
  <2> QED BY <1>c, <1>s, <2>1, <2>2, <2>3
<1>21. CASE CloseWindow
  <2>1. RestTypes' /\ LeaseInv'
    BY <1>21, <1>b, RestKept DEF CloseWindow, openVars, RestTypes, Ending
  <2>2. CallInv' /\ HeldInv'
    BY <1>21, <1>a DEF CloseWindow, CallInv, HeldInv, serviceVars
  <2> QED BY <1>21, <1>c, <1>t, <1>s, <2>1, <2>2 DEF CloseWindow, registryVars
<1>22. CASE CloseTray
  <2>1. RestTypes' /\ LeaseInv'
    BY <1>22, <1>b, RestKept DEF CloseTray, openVars, RestTypes
  <2>2. CallInv'
    BY <1>22, <1>a DEF CloseTray, CallInv, serviceVars
  <2>3. held' = {}
    BY <1>22, <1>a, <1>b DEF CloseTray, HeldInv, RestTypes, Held
  <2>4. HeldInv'
    BY <1>22, <2>3 DEF CloseTray, HeldInv
  <2> QED BY <1>22, <1>c, <1>t, <1>s, <2>1, <2>2, <2>4 DEF CloseTray, registryVars
<1>23. CASE (EnsureWork \/ CallFails \/ Tick \/ ServiceEnvironment) /\ UNCHANGED serviceOthers
  <2>1. RestTypes' /\ LeaseInv'
    BY <1>23, <1>a, <1>b, RestKept DEF serviceOthers, openVars, RestTypes, LeaseInv
  <2>2. ServiceTypeOK' /\ ClockInv' /\ ExcuseInv'
    BY <1>23, <1>a, <1>b, ServiceKept
  <2>3. ensure # "idle"
    BY <1>23 DEF EnsureWork, OpenManager, QueryFirst, QueryAgain, StartService, TestTimeout, Poll, SleepEnds,
                 CallFails, Tick, Waiting, ServiceEnvironment, ServiceGoesOn, OthersStart, ServiceStops
  <2>4. CallInv'
    BY <1>23, <1>a, <2>3 DEF CallInv, serviceOthers
  <2> QED BY <1>23, <1>c, <1>t, <1>h, <2>1, <2>2, <2>4 DEF serviceOthers, registryVars
<1>24. CASE Server
  <2>1. UNCHANGED <<serviceVars, ui, held, openVars>>
    BY <1>24 DEF Server, Grant, Register, GiveUp, Release
  <2>2. RestTypes' /\ LeaseInv' /\ TrayTypeOK' /\ MenuInv'
    BY <1>24, <1>b, <2>1, RegistryStep DEF RestTypes, openVars
  <2>3. CallInv'
    BY <2>1, <1>a DEF CallInv, serviceVars
  <2> QED BY <1>c, <1>s, <1>h, <2>1, <2>2, <2>3
<1>25. CASE UNCHANGED vars
  <2>1. RestTypes' /\ LeaseInv'
    BY <1>25, <1>a, <1>b, RestKept DEF vars, openVars, RestTypes, LeaseInv
  <2>2. CallInv'
    BY <1>25, <1>a DEF vars, CallInv, serviceVars
  <2> QED BY <1>25, <1>c, <1>t, <1>s, <1>h, <2>1, <2>2 DEF vars, registryVars
<1>26. CASE StopServer \/ PhoneFreesDiscovery \/ UserClosesErrorBox
  <2>1. RestTypes' /\ LeaseInv'
    BY <1>26, <1>b, RestKept
    DEF StopServer, PhoneFreesDiscovery, UserClosesErrorBox, openVars, RestTypes, Ending
  <2>2. CallInv' /\ HeldInv'
    BY <1>26, <1>a DEF StopServer, PhoneFreesDiscovery, UserClosesErrorBox, CallInv, HeldInv, serviceVars
  <2> QED BY <1>26, <1>c, <1>t, <1>s, <2>1, <2>2
          DEF StopServer, PhoneFreesDiscovery, UserClosesErrorBox, registryVars
<1> QED
  BY <1>1, <1>2, <1>4, <1>5, <1>6, <1>7, <1>8, <1>10, <1>11, <1>12, <1>13, <1>14, <1>15, <1>16, <1>17,
     <1>18, <1>19, <1>20, <1>21, <1>22, <1>23, <1>24, <1>25, <1>26
  DEF Next, Initialize, MessageLoop, OpenClientDrive, Shutdown
LEMMA Invariance == Spec => []IInv
<1>1. Init => IInv
  BY InitIInv
<1>2. IInv /\ [Next]_vars => IInv'
  BY StepIInv
<1> QED BY <1>1, <1>2, PTL DEF Spec

-----------------------------------------------------------------------------
(* The theorems *)

\* Every variable has its type, whatever the user, the server's threads and the
\* Windows service do.
THEOREM AppTypes == Spec => []TypeOK
<1>1. IInv => TypeOK
  BY DEF IInv
<1> QED BY <1>1, Invariance, PTL

\* OpenClientDrive opens the letter of the client the user chose, or one that was
\* taken back from this client since its record was read.
THEOREM DrivesOpenedAreOwn == Spec => []OpensOwnDrive
<1>1. IInv => OpensOwnDrive
  BY DEF IInv, LeaseInv, OpensOwnDrive
<1> QED BY <1>1, Invariance, PTL

\* NothingLeft: Shutdown gives back every window, icon and bitmap and stops the server,
\* whichever step of Initialize failed.
THEOREM EverythingIsGivenBack == Spec => []NothingLeft
<1>1. IInv => NothingLeft
  BY DEF IInv, HeldInv, NothingLeft
<1> QED BY <1>1, Invariance, PTL

\* HandleCommand finds the client the item was shown for, as long as the registry
\* did not change in between.
THEOREM ItemsOpenTheirDevice == Spec => OpensShownDevice
<1>1. IInv /\ [Next]_vars => (DispatchDevice /\ Head(queue).fresh => chosen' = Head(queue).device)
  <2> SUFFICES ASSUME IInv, DispatchDevice, Head(queue).fresh
               PROVE  chosen' = Head(queue).device
    OBVIOUS
  <2>1. queue # <<>> /\ Head(queue).what = "device" /\ queue \in Seq(Messages)
    BY DEF DispatchDevice, Takes, IInv, TypeOK, TrayTypeOK
  <2>2. 1 \in DOMAIN queue /\ Head(queue) = queue[1]
    BY <2>1
  <2>3. /\ deviceCommands = listing
        /\ Head(queue).item \in DOMAIN listing
        /\ listing[Head(queue).item] = Head(queue).device
    BY <2>1, <2>2 DEF IInv, MenuInv
  <2>4. Head(queue).device \in Clients
    BY <2>3 DEF IInv, TypeOK
  <2>5. CommandFound(Head(queue).item, Head(queue).device)
    BY <2>3 DEF CommandFound
  <2>6. PICK c \in Clients : CommandFound(Head(queue).item, c) /\ chosen' = c
    BY <2>4, <2>5 DEF DispatchDevice
  <2> QED BY <2>5, <2>6 DEF CommandFound
<1>2. IInv /\ [Next]_vars => [DispatchDevice /\ Head(queue).fresh => chosen' = Head(queue).device]_vars
  BY <1>1
<1> QED BY <1>2, Invariance, PTL DEF Spec, OpensShownDevice

\* The difference of two values of the counter is the time that passed, modulo its
\* width.
LEMMA TicksPassed ==
    ASSUME ServiceTypeOK, ClockInv, Waiting
    PROVE  (tick - startTick) % TickModulus = waited
<1>1. waited \in 0 .. TickModulus - 1 /\ startTick \in Int /\ tick \in Int /\ TickModulus \in Nat
  BY TickAssumption DEF ServiceTypeOK, Ticks
<1>2. tick - startTick = waited \/ tick - startTick = waited - TickModulus
  BY <1>1 DEF ClockInv
<1> QED BY <1>1, <1>2, WrapAround

\* EnsureRunning goes on waiting exactly while the timeout is not over, also when the
\* counter wraps around meanwhile.
THEOREM TimeoutIsExact == Spec => WaitsForTimeout
<1> DEFINE Holds == ensure = "wait" /\ ensure' # "wait" => (ensure' = "poll" <=> waited < StartTimeout)
<1>1. IInv /\ [Next]_vars => [Holds]_serviceVars
  <2> SUFFICES ASSUME IInv, [Next]_vars, ensure = "wait", ensure' # "wait"
               PROVE  ensure' = "poll" <=> waited < StartTimeout
    OBVIOUS
  <2>1. ui \in {"start", "openAddress"} /\ ~WinFsp
    BY DEF IInv, CallInv
  <2>2. TestTimeout
    BY <2>1
    DEF Next, vars, serviceVars, Initialize, StartsWebClient, WebClientDone, EnsureEnds, CreateDevicesWindow,
        CreateTrayWindow, LoadResources, AddNotifyIcon, StartServer, Acquire, MessageLoop, DispatchMenu,
        DispatchDevice, DispatchDoubleClick, DispatchExit, MenuEnds, LoopEnds, OpenClientDrive, LookUpClient,
        OpenDrive, OpenAddress, Shutdown, StopServer, StopReturns, CloseWindow, CloseTray, EnsureWork, OpenManager,
        UserClosesErrorBox, PhoneFreesDiscovery,
        QueryFirst, QueryAgain, StartService, Poll, SleepEnds, CallFails, Tick, ServiceEnvironment,
        ServiceGoesOn, OthersStart, ServiceStops, User, Server, Grant, Register, GiveUp, Release
  <2>3. (tick - startTick) % TickModulus = waited
    BY TicksPassed DEF IInv, TypeOK, Waiting
  <2> QED BY <2>2, <2>3 DEF TestTimeout, GoTo, Return
<1>2. Spec => [][Holds]_serviceVars
  BY <1>1, Invariance, PTL DEF Spec
<1> QED BY <1>2 DEF WaitsForTimeout
\* EnsureRunning does not give up for nothing.
THEOREM GivingUpHasCause == Spec => GivesUpForCause
<1> DEFINE Holds == ensure # "returned" /\ ensure' = "returned" /\ ~webClientReady'
                    => excused' \/ waited >= StartTimeout
<1>1. IInv /\ [Next]_vars => [Holds]_serviceVars
  <2> SUFFICES ASSUME IInv, [Next]_vars, ensure # "returned", ensure' = "returned", ~webClientReady'
               PROVE  excused' \/ waited >= StartTimeout
    OBVIOUS
  <2>1. EnsureWork \/ CallFails
    BY DEF Next, vars, serviceVars, Initialize, StartsWebClient, WebClientDone, EnsureBegins, EnsureEnds,
           CreateDevicesWindow, CreateTrayWindow, LoadResources, AddNotifyIcon, StartServer, Acquire,
           MessageLoop, DispatchMenu, DispatchDevice, DispatchDoubleClick, DispatchExit, MenuEnds, LoopEnds,
           OpenClientDrive, LookUpClient, Opens, Gone, OpenDrive, OpenAddress, Shutdown, StopServer, StopReturns,
           UserClosesErrorBox, PhoneFreesDiscovery, CloseWindow, CloseTray, Tick, ServiceEnvironment, ServiceGoesOn, OthersStart, ServiceStops, User,
           Server, Grant, Register, GiveUp, Release
  <2>2. CASE CallFails
    BY <2>2 DEF CallFails
  <2>3. CASE TestTimeout
    <3>1. (tick - startTick) % TickModulus = waited
      BY <2>3, TicksPassed DEF IInv, TypeOK, Waiting, TestTimeout
    <3>2. ~(waited < StartTimeout)
      BY <2>3, <3>1 DEF TestTimeout, GoTo
    <3>3. waited \in Int /\ StartTimeout \in Int
      BY TickAssumption DEF IInv, TypeOK, ServiceTypeOK, Ticks
    <3> QED BY <3>2, <3>3
  <2>4. CASE Poll
    <3>1. ensure = "poll" /\ service \in {"stopped", "stopPending"} /\ UNCHANGED excused
      BY <2>4 DEF Poll, GoTo, Return
    <3> QED BY <3>1 DEF IInv, ExcuseInv, Waiting
  <2>5. CASE OpenManager \/ QueryFirst \/ QueryAgain \/ StartService \/ SleepEnds
    BY <2>5 DEF OpenManager, QueryFirst, QueryAgain, StartService, SleepEnds, GoTo, Return
  <2> QED BY <2>1, <2>2, <2>3, <2>4, <2>5 DEF EnsureWork
<1>2. Spec => [][Holds]_serviceVars
  BY <1>1, Invariance, PTL DEF Spec
<1> QED BY <1>2 DEF GivesUpForCause
=============================================================================
