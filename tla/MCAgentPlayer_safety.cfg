\* The message and event callbacks driving the player: AUDIO_START takes effect and the receive thread never blocks for good.
CONSTANTS
  r = r  a = a  k1 = k1  k2 = k2  alert = alert  NoReply = NoReply
  NULL = NULL  BadId = BadId
  R = r
  A = a
  AlertLen = 2
  Callers <- MCCallersRA
  Writers <- MCCallersRA
  WriterIds <- MCIdsOddRA
  Cap = 2
  Window = 3
  F = 2
  MaxUnits = 4
  MaxLen = 2
  MaxStarts = 3
  MaxStops = 3
  MaxPkts = 6
  DecAllocMayFail = TRUE
SPECIFICATION AgentFairSpec
INVARIANT AgentTypeOK
PROPERTY StartTakesEffect ReceiverReturns
