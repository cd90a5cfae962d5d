CONSTANTS
  m1 = m1
  Threads = {t1, t2}
  Messages = {m1, m2}
  MsgLen <- Lengths
  LoopCalls = {"Send", "Shutdown", "ForceClose", "StartRead", "StopRead"}
  ThreadCalls = {"Send", "Shutdown", "ForceClose", "ForceCloseDelay", "StartRead", "StopRead"}
  OnWriteComplete = TRUE
  HighWaterMark = 2
  SndBuf = 1
  InMax = 1
  CallsMax = 2
SPECIFICATION FairSpec
INVARIANTS
  ChannelConsistent
  StreamIntegrity
  SendsKept
  WriteEventIffOutput
  ShutdownAfterOutput
  CallbackProtocol
  AssertsHold
  AliveWhenUsed
PROPERTIES
  ImplementsLife
  ShutdownCompletes
  OutputFlushed
  PeerCloseNoticed
  ClosedIsDestroyed
