\* A reply that arrives while the previous one (or the alert) is still playing its tail is ended by that stream's end-of-stream flag.
CONSTANTS
  r = r  a = a  k1 = k1  k2 = k2  alert = alert  NoReply = NoReply
  NULL = NULL  BadId = BadId
  R = r
  A = a
  AlertLen = 2
  Callers <- MCCallersRA
  Writers <- MCCallersRA
  WriterIds <- MCIdsRA
  Cap = 2
  Window = 3
  F = 2
  MaxUnits = 4
  MaxLen = 2
  MaxStarts = 3
  MaxStops = 3
  MaxPkts = 7
  DecAllocMayFail = TRUE
SPECIFICATION AgentSpec
PROPERTY ReplyEndsOnOwnEof
