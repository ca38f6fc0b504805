-------------------------- MODULE GracefulService --------------------------
(***************************************************************************)
(* What package server promises about the RPCs of a service: they are      *)
(* handled while it runs and while it stops, none is dropped by stopping,  *)
(* and the telemetry is flushed only when the last one has ended, so that  *)
(* every span and measurement of an RPC is exported.  ServeLifecycle       *)
(* implements this module.                                                 *)
(***************************************************************************)
CONSTANTS
  Requests  \* the requests clients may send

VARIABLES
  phase,    \* "serving", "stopping" or "stopped"
  running,  \* RPCs that are being handled
  flushed   \* tracer and meter are flushed and shut down

vars == <<phase, running, flushed>>

Init == phase = "serving" /\ running = {} /\ flushed = FALSE

Begin(r) ==
  /\ phase # "stopped"
  /\ r \notin running
  /\ running' = running \cup {r}
  /\ UNCHANGED <<phase, flushed>>

End(r) ==
  /\ r \in running
  /\ running' = running \ {r}
  /\ UNCHANGED <<phase, flushed>>

Stop ==
  /\ phase = "serving"
  /\ phase' = "stopping"
  /\ UNCHANGED <<running, flushed>>

\* A service that never accepted a connection stops at once.
Stopped ==
  /\ phase # "stopped"
  /\ running = {}
  /\ phase' = "stopped"
  /\ UNCHANGED <<running, flushed>>

Flush ==
  /\ phase = "stopped"
  /\ flushed' = TRUE
  /\ UNCHANGED <<phase, running>>

Next == (\E r \in Requests : Begin(r) \/ End(r)) \/ Stop \/ Stopped \/ Flush

Spec == Init /\ [][Next]_vars
=============================================================================
