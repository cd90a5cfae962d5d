CONSTANTS
  m1 = m1
  Threads = {t1, t2}
  Messages = {m2}
  MsgLen <- Lengths
  LoopCalls = {}
  ThreadCalls = {"StartRead"}
  OnWriteComplete = FALSE
  HighWaterMark = 9
  SndBuf = 1
  InMax = 1
  CallsMax = 4
SPECIFICATION Spec
INVARIANT RemoveAssertHolds
