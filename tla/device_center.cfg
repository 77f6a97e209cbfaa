\* Two actions, two changes and two faults of the daemon.
CONSTANTS
  MaxActions = 2
  MaxChanges = 2
  MaxFaults = 2
  MaxInbox = 0
SPECIFICATION FairSpec
INVARIANTS
  OutcomeIsOwn
  NotificationIsPublished
  CallbackIsSafe
PROPERTIES
  BusyEnds
  CatchesUp
  DestructorReturns
\* The application may be closed.
CHECK_DEADLOCK FALSE
