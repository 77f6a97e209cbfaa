\* Two callers behind _sendMtx; deadlines pass.
SPECIFICATION TimedSpec
CONSTANTS
  Callers = {c1, c2}
  Opcodes = {battery}
  Notice = notice
  None = None
  SeqModulus = 256
  MaxUnmatched = 2
  MaxCalls = 2
  MaxFrames = 0
  MaxFaults = 0
  MaxConnects = 1
  MaxDisconnects = 1
CHECK_DEADLOCK FALSE
PROPERTIES
  CallsReturn
