\* The sink under device failures and underruns, streams of two formats.
CONSTANTS
  fA = fA  fB = fB  NoFmt = NoFmt
  Formats <- MCFormats2
  MaxSessions = 3
  MaxFrames = 4
  MayFail = TRUE
SPECIFICATION Spec
INVARIANT TypeOK RetryAgreesWithReference
