\* The ACK of a call that timed out, taken by the next one.
SPECIFICATION Spec
CONSTANTS
  Callers = {c1}
  Opcodes = {battery}
  Notice = notice
  None = None
  SeqModulus = 256
  MaxUnmatched = 2
  MaxCalls = 2
  MaxFrames = 1
  MaxFaults = 1
  MaxConnects = 1
  MaxDisconnects = 0
CHECK_DEADLOCK FALSE
INVARIANTS
  AckConfirmsAcceptance
