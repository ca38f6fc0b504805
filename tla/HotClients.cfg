\* Every kind of config, three of them, with room for a dial that outlasts
\* the timer.  The process may die, or run out of configs and time.
CONSTANTS
  Users = {u1}
  Kinds = {"redis", "eth", "batchable", "grpc"}
  CloseDelay = 2
  Updates = 3
  MaxTime = 4
SPECIFICATION Spec
CHECK_DEADLOCK FALSE
INVARIANTS
  InForceStaysOpen
  UsersUndisturbed
  PanicOnlyAfterFailedUpdate
PROPERTIES
  ReplacedIsClosed
