\* The error of a context.
CONSTANTS
  Rpcs = {r1, r2}
  Modes = {"", "develop", "production"}
SPECIFICATION SafeSpec
SYMMETRY RpcSymmetry
CHECK_DEADLOCK FALSE
INVARIANTS
  LevelOfReturnCode
