\* A stop that races the record thread's upload_start leaves an event open.
CONSTANTS
  t1 = t1  t2 = t2  t3 = t3  NoThread = NoThread
  Threads <- MCThreads
  MaxEvents = 3
  MaxFrames = 2
  MayFail = FALSE
SPECIFICATION Spec
INVARIANT AtMostOneUplinkEvent
