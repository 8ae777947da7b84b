-------------------------- MODULE MCWifiDropServer --------------------------
(***************************************************************************)
(* Small instances of WifiDropServer for TLC.                              *)
(***************************************************************************)
EXTENDS WifiDropServer, TLC

\* Client ids are interchangeable, and so are session threads.
ClientSymmetry == Permutations(Clients)
ThreadSymmetry == Permutations(Clients) \cup Permutations(Handlers)
=============================================================================
