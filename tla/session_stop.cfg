\* A session that is connected twice and disconnected; no deadline helps.
SPECIFICATION FairSpec
CONSTANTS
  Callers = {c1}
  Opcodes = {battery}
  Notice = notice
  None = None
  SeqModulus = 256
  MaxUnmatched = 2
  MaxCalls = 1
  MaxFrames = 1
  MaxFaults = 1
  MaxConnects = 2
  MaxDisconnects = 1
CHECK_DEADLOCK FALSE
PROPERTIES
  WokenWhenStopped
  OwnerReturns
