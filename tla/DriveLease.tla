----------------------------- MODULE DriveLease -----------------------------
(***************************************************************************)
(* What the server promises about drive letters, with no threads, no       *)
(* sockets and no registry: a letter is lent to a connected client and     *)
(* comes back only after that client has been given up.                    *)
(***************************************************************************)
EXTENDS AndroidClient

CONSTANT Letters

VARIABLES holder,   \* the client each letter is lent to
          revoked   \* clients the server has given up, for good

leaseVars == <<holder, revoked>>

Init ==
    /\ holder = [l \in Letters |-> Nobody]
    /\ revoked = {}

\* A free letter goes to a client that is not given up and has no letter yet.
Grant(c, l) ==
    /\ c \notin revoked
    /\ holder[l] = Nobody
    /\ \A m \in Letters : holder[m] # c
    /\ holder' = [holder EXCEPT ![l] = c]
    /\ UNCHANGED revoked

\* Clients are given up: by a closed session, a timeout, or a shutdown.
Revoke(S) ==
    /\ S \cap revoked = {}
    /\ revoked' = revoked \cup S
    /\ UNCHANGED holder

\* The letter of a client that was given up comes back.
Return(l) ==
    /\ holder[l] \in revoked
    /\ holder' = [holder EXCEPT ![l] = Nobody]
    /\ UNCHANGED revoked

Next ==
    \/ \E c \in Clients, l \in Letters : Grant(c, l)
    \/ \E S \in SUBSET Clients : Revoke(S)
    \/ \E l \in Letters : Return(l)

Spec == Init /\ [][Next]_leaseVars
=============================================================================
