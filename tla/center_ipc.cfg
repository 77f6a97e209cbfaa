\* A daemon, one action, two faults.
CONSTANTS
  MaxActions = 1
  MaxChanges = 1
  MaxFaults = 2
  MaxInbox = 0
SPECIFICATION FairSpec
PROPERTIES
  DeadDaemonIsShown
\* The application may be closed.
CHECK_DEADLOCK FALSE
