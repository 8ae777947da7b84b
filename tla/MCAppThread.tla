----------------------------- MODULE MCAppThread -----------------------------
(***************************************************************************)
(* The small instance of AppThread for TLC.                                *)
(***************************************************************************)
EXTENDS AppThread
=============================================================================
