---------------------------- MODULE ClientHandle ----------------------------
(***************************************************************************)
(* What package reconredis promises to the code that holds a *Client: a    *)
(* handle on one live redis client that is swapped, in one step, for a     *)
(* fresh one, never twice within the cooldown; clients that were swapped   *)
(* out are closed, and nothing but the holder's own Close ever closes the  *)
(* client that is in use.  ReconnectableClient implements this module.     *)
(*                                                                         *)
(* Clients are numbered in the order they are put into service.            *)
(***************************************************************************)
EXTENDS Integers

CONSTANTS
  Cooldown,  \* refreshCooldown, in ticks of the clock
  MaxTime    \* bound on the clock

VARIABLES
  current,    \* the client in service
  open,       \* clients put into service and not closed yet
  swappedAt,  \* when current was put into service
  retired,    \* the holder has closed the handle
  now         \* the clock

vars == <<current, open, swappedAt, retired, now>>

\* The number of swaps is bounded by the clock, so the clients are too.
Clients == 1 .. (MaxTime + 2)

Init ==
  /\ current = 1
  /\ open = {1}
  /\ swappedAt = 0 - Cooldown    \* the first swap need not wait
  /\ retired = FALSE
  /\ now = 0

Swap ==
  /\ now - swappedAt >= Cooldown
  /\ current' = current + 1
  /\ open' = open \cup {current + 1}
  /\ swappedAt' = now
  /\ UNCHANGED <<retired, now>>

\* A client that is no longer in service is closed in the background.
CloseReplaced(c) ==
  /\ c \in open \ {current}
  /\ open' = open \ {c}
  /\ UNCHANGED <<current, swappedAt, retired, now>>

\* The holder closes the handle once.  It closes the client it finds in
\* service, which a concurrent swap may just have taken out of service.
Retire ==
  /\ ~retired
  /\ retired' = TRUE
  /\ \E c \in 1 .. current : open' = open \ {c}
  /\ UNCHANGED <<current, swappedAt, now>>

Tick ==
  /\ now < MaxTime
  /\ now' = now + 1
  /\ UNCHANGED <<current, open, swappedAt, retired>>

Next == Swap \/ Retire \/ Tick \/ \E c \in Clients : CloseReplaced(c)

SafeSpec == Init /\ [][Next]_vars

Spec == SafeSpec /\ \A c \in Clients : WF_vars(CloseReplaced(c))
=============================================================================
