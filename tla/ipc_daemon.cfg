\* Two daemons, an older one, and two clients for one place in the queue and one
\* open connection: the second is refused, or finds the job of the first, which
\* left, still in the queue.
CONSTANTS
  Daemons = {d1, d2}
  Nobody = Nobody
  Self = d1
  MaxStarts = 2
  Clients = {c1, c2}
  MaxJobs = 1
  MaxClients = 1
SPECIFICATION FairSpec
INVARIANTS
  TypeOK
  OutcomeIsTrue
  Reachable
PROPERTIES
  ConnectionsEnd
  Ticks
  StopReturns
\* Daemons stop, clients end, and nobody has to start again.
CHECK_DEADLOCK FALSE
