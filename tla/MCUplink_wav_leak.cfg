\* Two quick start/stop pairs leave two record threads running on the shared wav_writer.
CONSTANTS
  t1 = t1  t2 = t2  t3 = t3  NoThread = NoThread
  Threads <- MCThreads
  MaxEvents = 3
  MaxFrames = 2
  MayFail = FALSE
SPECIFICATION Spec
INVARIANT RecordingReleased
