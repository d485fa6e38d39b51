\* Safety and liveness of the playback engine: one stream writer using valid, NULL and rejected ids, one stopping thread, a failing decoder malloc, fair task and sleeping callers.
CONSTANTS
  s = s  e = e  m = m  idA = idA  idB = idB  alertId = alertId
  NULL = NULL  BadId = BadId
  Callers <- MCCallers1
  Writers <- MCWriters1
  WriterIds <- MCWriterIdsOdd
  Cap = 2
  Window = 3
  F = 2
  MaxUnits = 4
  MaxLen = 2
  MaxStarts = 3
  MaxStops = 2
  DecAllocMayFail = TRUE
SPECIFICATION FairSpec
INVARIANT TypeOK
PROPERTY StopPurgesSession FifoRefinement CallsReturn
