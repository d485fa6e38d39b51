\* A frame written for an earlier session is played in a later one.
CONSTANTS
  s = s  e = e  m = m  idA = idA  idB = idB  alertId = alertId
  NULL = NULL  BadId = BadId
  Callers <- MCCallers1
  Writers <- MCWriters1
  WriterIds <- MCWriterIds1
  Cap = 2
  Window = 3
  F = 2
  MaxUnits = 4
  MaxLen = 2
  MaxStarts = 3
  MaxStops = 2
  DecAllocMayFail = FALSE
SPECIFICATION Spec
PROPERTY NoStaleAudio
