\* A timeout that is forced on a call of a client without one.
CONSTANTS
  m1 = m1
  Clients = {c1, c2}
  Calls = {k1}
  Maps = {m1}
  Keys = {"x-client-id", "X-Client-Id"}
  Lower <- MCLower
  Contents <- MCContents
  Names = {"A", "B", "C", "D", "E", "there"}
  Forced = {0, 2}
  OptionLists <- MCOptionLists
SPECIFICATION SafeSpec
CHECK_DEADLOCK FALSE
INVARIANTS
  ForcedTimeoutIsUsed
