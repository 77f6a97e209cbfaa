\* One caller, three calls, a fault on the link; deadlines at any time.
SPECIFICATION Spec
CONSTANTS
  Callers = {c1}
  Opcodes = {battery}
  Notice = notice
  None = None
  SeqModulus = 256
  MaxUnmatched = 2
  MaxCalls = 3
  MaxFrames = 1
  MaxFaults = 1
  MaxConnects = 1
  MaxDisconnects = 0
CHECK_DEADLOCK FALSE
INVARIANTS
  TypeOK
  OneBitSequence
  FreshRequestBit
  OwnEvidence
  NoOrphanRequest
  ConfirmedIsDelivered
PROPERTIES
  DeliversInOrder
