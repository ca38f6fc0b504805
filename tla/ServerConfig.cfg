\* Three configs, each read from a file or derived from another.
CONSTANTS
  Configs = {c1, c2, c3}
  MaxLen = 3
  None = None
  OptionLists <- MCOptionLists
  BasePaths <- MCBasePaths
  Paths <- MCPaths
  Addresses <- MCAddresses
  Keys <- MCKeys
  Permanent <- MCPermanent
SPECIFICATION ConfigSpec
SYMMETRY ConfigSymmetry
CHECK_DEADLOCK FALSE
INVARIANTS
  OptionsKept
  
  GatewayReachesServer
  PathsBelowBase
