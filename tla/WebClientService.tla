--------------------------- MODULE WebClientService ---------------------------
(***************************************************************************)
(* WebClientService::EnsureRunning (utils/WebClientService.cpp): look at   *)
(* the Windows service, start it, and poll it until it runs or the timeout *)
(* is over.  Other programs and the service itself change its state        *)
(* meanwhile.  The timeout is measured with GetTickCount, a counter that   *)
(* wraps around every 49.7 days.                                           *)
(***************************************************************************)
EXTENDS Integers

CONSTANTS TickModulus,  \* the values of GetTickCount, 2^32 milliseconds
          StartTimeout  \* kStartTimeoutMs

ASSUME TickAssumption ==
    /\ TickModulus \in Nat
    /\ StartTimeout \in Nat
    /\ StartTimeout < TickModulus

VARIABLES service,         \* dwCurrentState of the service
          ensure,          \* where EnsureRunning is
          tick,            \* GetTickCount()
          startTick,       \* its value when the waiting began
          waited,          \* the time that has passed since (history)
          webClientReady,  \* the result
          excused          \* a call failed or the service was stopped (history)

clockVars == <<tick, startTick, waited>>
serviceVars == <<service, ensure, clockVars, webClientReady, excused>>

ServiceStates == {"stopped", "startPending", "running", "stopPending"}
Ticks == 0 .. TickModulus - 1

ServiceTypeOK ==
    /\ service \in ServiceStates
    /\ ensure \in {"idle", "open", "query", "requery", "start", "wait", "poll", "sleep", "returned"}
    /\ tick \in Ticks
    /\ startTick \in Ticks
    /\ waited \in Ticks
    /\ webClientReady \in BOOLEAN
    /\ excused \in BOOLEAN

ServiceInit ==
    /\ service = "stopped"
    /\ ensure = "idle"
    /\ tick = 0
    /\ startTick = 0
    /\ waited = 0
    /\ webClientReady = FALSE
    /\ excused = FALSE

-----------------------------------------------------------------------------
(* EnsureRunning *)

\* Between the calls anything may have happened to the service.
EnsureBegins ==
    /\ ensure' = "open"
    /\ service' \in ServiceStates
    /\ excused' = (service' = "stopPending")
    /\ UNCHANGED <<clockVars, webClientReady>>

GoTo(next) == ensure' = next /\ UNCHANGED <<service, clockVars, webClientReady>>

\* From here on neither the clock nor the service is looked at; they rest.
Return(result) ==
    /\ ensure' = "returned"
    /\ webClientReady' = result
    /\ tick' = 0
    /\ startTick' = 0
    /\ waited' = 0
    /\ service' = "stopped"

\* The caller has the result.
EnsureEnds ==
    /\ ensure = "returned"
    /\ ensure' = "idle"
    /\ webClientReady' = FALSE
    /\ excused' = FALSE
    /\ UNCHANGED <<service, clockVars>>

CallFails ==
    /\ ensure \in {"open", "requery", "start", "poll"}
    /\ Return(FALSE)
    /\ excused' = TRUE

OpenManager ==
    /\ ensure = "open"
    /\ GoTo("query")
    /\ UNCHANGED excused

\* The first look needs fewer rights than the second; if it fails, no harm is done.
QueryFirst ==
    /\ ensure = "query"
    /\ \/ service = "running" /\ Return(TRUE)
       \/ GoTo("requery")
    /\ UNCHANGED excused

\* A status that cannot be read counts as not running.
QueryAgain ==
    /\ ensure = "requery"
    /\ \/ service = "running" /\ Return(TRUE)
       \/ GoTo("start")
    /\ UNCHANGED excused

\* ERROR_SERVICE_ALREADY_RUNNING is what a service in any other state answers.
StartService ==
    /\ ensure = "start"
    /\ service' = IF service = "stopped" THEN "startPending" ELSE service
    /\ ensure' = "wait"
    /\ tick' \in Ticks
    /\ startTick' = tick'
    /\ UNCHANGED <<waited, webClientReady, excused>>

\* Mutated form: the end of the waiting is computed in advance and not reduced.
TestDeadline ==
    /\ ensure = "wait"
    /\ IF tick < startTick + StartTimeout THEN GoTo("poll") ELSE Return(FALSE)
    /\ UNCHANGED excused

\* Mutated form: the service is waited for as long as it takes.
WaitForever ==
    /\ ensure = "wait"
    /\ GoTo("poll")
    /\ UNCHANGED excused

TestTimeout ==
    /\ ensure = "wait"
    /\ IF (tick - startTick) % TickModulus < StartTimeout THEN GoTo("poll") ELSE Return(FALSE)
    /\ UNCHANGED excused

\* Mutated form: the pending state of a stop is waited for.
PollForStop ==
    /\ ensure = "poll"
    /\ \/ service = "running" /\ Return(TRUE)
       \/ service = "stopPending" /\ GoTo("sleep")
       \/ service \in {"stopped", "startPending"} /\ Return(FALSE)
    /\ UNCHANGED excused

Poll ==
    /\ ensure = "poll"
    /\ \/ service = "running" /\ Return(TRUE)
       \/ service = "startPending" /\ GoTo("sleep")
       \/ service \in {"stopped", "stopPending"} /\ Return(FALSE)
    /\ UNCHANGED excused

SleepEnds ==
    /\ ensure = "sleep"
    /\ GoTo("wait")
    /\ UNCHANGED excused

EnsureWork ==
    \/ OpenManager
    \/ QueryFirst
    \/ QueryAgain
    \/ StartService
    \/ TestTimeout
    \/ Poll
    \/ SleepEnds

-----------------------------------------------------------------------------
(* Around it *)

Waiting == ensure \in {"wait", "poll", "sleep"}

\* The bound: the thread is not held up for a whole turn of the counter.
Tick ==
    /\ Waiting
    /\ waited < TickModulus - 1
    /\ tick' = (tick + 1) % TickModulus
    /\ waited' = waited + 1
    /\ UNCHANGED <<service, ensure, startTick, webClientReady, excused>>

ServiceGoesOn ==
    /\ ensure \notin {"idle", "returned"}
    /\ \/ service = "startPending" /\ service' = "running"
       \/ service = "stopPending" /\ service' = "stopped"
    /\ UNCHANGED <<ensure, clockVars, webClientReady, excused>>

\* Other programs start the service, and start it again.
OthersStart ==
    /\ ensure \notin {"idle", "returned"}
    /\ service = "stopped"
    /\ service' = "startPending"
    /\ UNCHANGED <<ensure, clockVars, webClientReady, excused>>

\* It fails, or others stop it.
ServiceStops ==
    /\ ensure \notin {"idle", "returned"}
    /\ service # "stopped"
    /\ service' \in {"stopPending", "stopped"} \ {service}
    /\ excused' = TRUE
    /\ UNCHANGED <<ensure, clockVars, webClientReady>>

ServiceEnvironment == ServiceGoesOn \/ OthersStart \/ ServiceStops

-----------------------------------------------------------------------------
\* Time is measured right across the wrap of the counter: the waiting goes on while
\* the timeout is not over, and ends when it is.
WaitsForTimeout ==
    [][ensure = "wait" /\ ensure' # "wait" => (ensure' = "poll" <=> waited < StartTimeout)]_serviceVars

\* Only a call that failed, a service that others stopped or that failed, or the end
\* of the timeout makes EnsureRunning give up.
GivesUpForCause ==
    [][ensure # "returned" /\ ensure' = "returned" /\ ~webClientReady'
           => excused' \/ waited >= StartTimeout]_serviceVars
=============================================================================
