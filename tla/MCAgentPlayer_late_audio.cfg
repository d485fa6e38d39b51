\* Audio of an event delivered after its chat break: a late AUDIO_START restarts playback of the interrupted reply.
CONSTANTS
  r = r  a = a  k1 = k1  k2 = k2  alert = alert  NoReply = NoReply
  NULL = NULL  BadId = BadId
  R = r
  A = a
  AlertLen = 2
  Callers <- MCCallersRA
  Writers <- MCCallersRA
  WriterIds <- MCIdsRA
  Cap = 2
  Window = 3
  F = 2
  MaxUnits = 4
  MaxLen = 2
  MaxStarts = 3
  MaxStops = 4
  MaxPkts = 6
  DecAllocMayFail = TRUE
SPECIFICATION AgentSpec
PROPERTY NoAudioAfterBreak
