--------------------------- MODULE AndroidClient ---------------------------
(***************************************************************************)
(* The clients all modules speak of (clients/AndroidClient.h).  A record   *)
(* is known by its clientId; what the other modules need of its fields     *)
(* they keep as functions of the id.                                       *)
(***************************************************************************)

CONSTANTS Clients,  \* client ids; each connect request makes a new one
          Nobody    \* no client

ASSUME NobodyIsNoClient == Nobody \notin Clients
=============================================================================
