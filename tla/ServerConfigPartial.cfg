\* As ServerConfig.cfg.
CONSTANTS
  Configs = {c1, c2, c3}
  MaxLen = 3
  None = None
  OptionLists <- MCOptionLists
  BasePaths <- MCBasePaths
  Paths <- MCPaths
  Addresses <- MCAddresses
  Keys <- MCKeys
  Permanent <- MCPermanent
SPECIFICATION ConfigSpec
SYMMETRY ConfigSymmetry
CHECK_DEADLOCK FALSE
INVARIANTS
  PartialRequestsAsConfigured
