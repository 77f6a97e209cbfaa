\* A V1 and a V2 headset, two connections and one more event.
CONSTANTS
  Headsets <- MCHeadsets
  Reads <- MCReads
  Probes <- MCProbes
  MaxReads = 3
  MaxConnects = 2
  MaxEvents = 1
SPECIFICATION FairSpec
PROPERTIES
  FramesGoOn
  Synchronises
\* Nobody has to connect again, and a call may be caught by a link that has ended.
CHECK_DEADLOCK FALSE
