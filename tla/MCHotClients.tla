---------------------------- MODULE MCHotClients ----------------------------
(***************************************************************************)
(* TLC instance of HotClients.                                             *)
(***************************************************************************)
EXTENDS HotClients
=============================================================================
