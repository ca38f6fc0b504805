\* Two callers, enough for a lost race; the clock leaves room for two refreshes.
CONSTANTS
  Callers = {g1, g2}
  Cooldown = 2
  MaxTime = 3
SPECIFICATION Spec
INVARIANTS
  RefreshExclusive
  NoClientLost
  OnlyOwnerClosesCurrent
PROPERTIES
  RefreshSpacing
  RefusalsLeadToSwap
  CloseIsFinal
  HandleSpec
