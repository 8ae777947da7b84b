--------------------------- MODULE ClientManager ---------------------------
(***************************************************************************)
(* The registry of connected Android clients (clients/ClientManager.cpp).  *)
(* Each operation holds mutex_ from its first read to its last write, so   *)
(* each is one step.  The exception is RemoveInactive, which reads the     *)
(* clock before it locks: ReadNow is the read, RemoveInactive the rest.    *)
(*                                                                         *)
(* Time is counted in heartbeat intervals.  A record's lastActivity is     *)
(* represented by its age, which stops growing at DisconnectTimeout: no    *)
(* comparison in the code tells greater ages apart.  sessionState is       *)
(* written and never read, and is left out.                                *)
(***************************************************************************)
EXTENDS Naturals, AndroidClient

CONSTANT DisconnectTimeout  \* kControlDisconnectTimeout, in heartbeat intervals

ASSUME TimeoutAssumption == DisconnectTimeout \in Nat \ {0}

VARIABLES clients,  \* the keys of clients_
          idle,     \* the age of each record's lastActivity
          stale     \* the records at least DisconnectTimeout old at the `now`
                    \* that RemoveInactive has read and not yet used

managerVars == <<clients, idle, stale>>

ManagerTypeOK ==
    /\ clients \subseteq Clients
    /\ idle \in [Clients -> 0 .. DisconnectTimeout]
    /\ stale \subseteq Clients

ManagerInit ==
    /\ clients = {}
    /\ idle = [c \in Clients |-> 0]
    /\ stale = {}

AddClient(c) ==
    /\ clients' = clients \cup {c}
    /\ UNCHANGED <<idle, stale>>

\* Mutated form: the inactive records are picked when the clock is read, and a
\* touch in between no longer saves a record.
TouchAfterVerdict(c) ==
    /\ idle' = [idle EXCEPT ![c] = IF c \in clients THEN 0 ELSE @]
    /\ UNCHANGED <<clients, stale>>

\* lastActivity = now() for a registered client: it is younger than any `now`
\* read before, so a sweep under way spares it.
TouchClient(c) ==
    /\ idle' = [idle EXCEPT ![c] = IF c \in clients THEN 0 ELSE @]
    /\ stale' = stale \ (clients \cap {c})
    /\ UNCHANGED clients

\* Returns true; on an unknown id the code returns false and changes nothing.
MarkSessionStarted(c) == c \in clients /\ TouchClient(c)

\* Mutated form: the record is returned to the caller and stays registered.
RemoveClientKeepsEntry(c) ==
    /\ c \in clients
    /\ UNCHANGED managerVars

\* Returns the record; on an unknown id the code returns nothing and changes
\* nothing.  Nobody looks at the lastActivity of a removed record, so its age
\* and a verdict on it are dropped with it, here and below.
RemoveClient(c) ==
    /\ c \in clients
    /\ clients' = clients \ {c}
    /\ idle' = [idle EXCEPT ![c] = 0]
    /\ stale' = stale \ {c}

ReadNow ==
    /\ stale' = {c \in Clients : idle[c] >= DisconnectTimeout}
    /\ UNCHANGED <<clients, idle>>

\* What RemoveInactive returns.
Inactive == clients \cap stale

\* Mutated form: the inactive records are returned and stay registered.
KeepInactive ==
    /\ stale' = {}
    /\ UNCHANGED <<clients, idle>>

RemoveInactive ==
    /\ clients' = clients \ Inactive
    /\ idle' = [c \in Clients |-> IF c \in Inactive THEN 0 ELSE idle[c]]
    /\ stale' = {}

\* Returns every record.
Clear ==
    /\ clients' = {}
    /\ idle' = [c \in Clients |-> IF c \in clients THEN 0 ELSE idle[c]]
    /\ stale' = stale \ clients

Older(age) == IF age < DisconnectTimeout THEN age + 1 ELSE age

\* One heartbeat interval passes for the records in S.  A record that is still
\* being built ages too: its lastActivity is set when it is constructed.
Age(S) ==
    /\ idle' = [c \in Clients |-> IF c \in S THEN Older(idle[c]) ELSE idle[c]]
    /\ UNCHANGED <<clients, stale>>
=============================================================================
