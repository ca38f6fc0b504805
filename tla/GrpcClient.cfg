\* Two clients, which may be made from one map, and a call that reads it.
CONSTANTS
  m1 = m1
  Clients = {c1, c2}
  Calls = {k1}
  Maps = {m1}
  Keys = {"x-client-id", "X-Client-Id"}
  Lower <- MCLower
  Contents <- MCContents
  Names = {"A", "B", "C", "D", "E", "there"}
  Forced = {0, 2}
  OptionLists <- MCOptionLists
SPECIFICATION Spec
CHECK_DEADLOCK FALSE
INVARIANTS
  OwnClientId
  ThrownOnlyIfShared
  DialAsAsked
  CountedOnce
PROPERTIES
  CallsReturn
