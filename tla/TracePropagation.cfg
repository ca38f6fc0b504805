\* Trace ids of one byte; request ids of up to three of "0", "1", "A", "z".
CONSTANTS
  Width = 1
  Bytes = {48, 49, 65, 122}
  MaxLen = 3
  Ids <- MCIds
  RequestIds <- MCRequestIds
  OwnIds <- MCOwnIds
  MaxSpans = 3
SPECIFICATION Spec
CHECK_DEADLOCK FALSE
INVARIANTS
  TraceKept
  RequestIdEchoed
  CallerCounted
