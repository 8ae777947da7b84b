-------------------------- MODULE MCActiveSockets --------------------------
(***************************************************************************)
(* The small instance of ActiveSockets for TLC.  No symmetry: the run has  *)
(* a liveness property.                                                    *)
(***************************************************************************)
EXTENDS ActiveSockets
=============================================================================
