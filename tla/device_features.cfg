\* A V1 headset and the WF-1000XM4; any two of writes, changes by the wearer
\* and faults, over two connections.
CONSTANTS
  Values = {v0, v1}
  NoValue = NoValue
  Profiles <- BothProfiles
  MaxConnections = 2
  MaxEvents = 2
SPECIFICATION FairSpec
INVARIANTS
  ValidIsOurs
  ReadingsAreRecent
  NoSilentChange
PROPERTY Converges
\* Nobody has to connect again.
CHECK_DEADLOCK FALSE
