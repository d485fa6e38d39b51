\* Two sessions whose streams have different formats; no device failures.
CONSTANTS
  fA = fA  fB = fB  NoFmt = NoFmt
  Formats <- MCFormats2
  MaxSessions = 2
  MaxFrames = 3
  MayFail = FALSE
SPECIFICATION Spec
PROPERTY SinkFollowsSession
