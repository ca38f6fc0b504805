\* Two RPCs can share a response.  The run ends when both are answered, or
\* with the process.
CONSTANTS
  Rpcs = {r1, r2}
  Modes = {"", "develop", "production"}
SPECIFICATION SafeSpec
SYMMETRY RpcSymmetry
CHECK_DEADLOCK FALSE
INVARIANTS
  CountedAsAnswered
  HandlerPanicContained
  InternalsHidden
  OwnRequestId
  LevelOfAnswer
  IInv
