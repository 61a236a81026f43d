SPECIFICATION Spec
CONSTANTS
  Sock = {1, 2, 3}
  Slaves = {sl}
  Workers = {w}
  MaxConnections = 1
  QueueSize = 1
  Width = 8
  None = None
  MaxArrivals = 3
  MaxRequests = 1
  MaxFailures = 1
CHECK_DEADLOCK FALSE
INVARIANTS OnePlaceEach CountMatchesSessions NobodyWaitsInVain StrangersAreWatched
