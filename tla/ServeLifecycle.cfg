\* Two requests of each kind that main waits for, one it does not see.
CONSTANTS
  Direct = {d1, d2}
  Gateway = {w1, w2}
  Hijacked = {h1}
SPECIFICATION Spec
INVARIANTS
  GatewayNeverCut
  ExitLosesNothing
PROPERTIES
  GracefulSpec
  SignalLeadsToExit
  ServerFailureLeadsToExit
