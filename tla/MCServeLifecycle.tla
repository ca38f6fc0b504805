-------------------------- MODULE MCServeLifecycle --------------------------
(***************************************************************************)
(* TLC instance of ServeLifecycle.  Its run checks liveness as well, so it *)
(* uses no symmetry of the requests.                                       *)
(***************************************************************************)
EXTENDS ServeLifecycle
=============================================================================
