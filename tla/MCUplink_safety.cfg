\* stop_recording always returns, with failures and the join race enabled.
CONSTANTS
  t1 = t1  t2 = t2  t3 = t3  NoThread = NoThread
  Threads <- MCThreads
  MaxEvents = 2
  MaxFrames = 2
  MayFail = TRUE
SPECIFICATION FairSpec
INVARIANT TypeOK
PROPERTY StopReturns
