SPECIFICATION FairSpec
CONSTANTS
  a = a
  b = b
  c = c
  Server = {a, b, c}
  Null = Null
  Members = {a, b}
  Master = a
  Behind = {b}
  Writers = {a}
  Joiners = {b, c}
  Confirm = TRUE
  Batch = 1
  MaxTerm = 0
  MaxWrites = 2
  MaxDrops = 0
  MaxRestarts = 1
  MaxCommands = 1
  MaxQueue = 1
INVARIANTS
  ReplicasAgree
  AppliedWithinLog
  MatchIndexHeld
PROPERTIES
  CommitHeldByMajority
  FollowerCatchesUp
CHECK_DEADLOCK FALSE
