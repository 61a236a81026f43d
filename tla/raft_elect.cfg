SPECIFICATION Spec
CONSTANTS
  a = a
  b = b
  c = c
  Server = {a, b, c}
  Null = Null
  Members = {a, b, c}
  Master = a
  Behind = {c}
  Writers = {a}
  Joiners = {b, c}
  Confirm = TRUE
  Batch = 1
  MaxTerm = 1
  MaxWrites = 1
  MaxDrops = 1
  MaxRestarts = 0
  MaxCommands = 0
  MaxQueue = 0
INVARIANTS
  TypeOK
  TwoLeadersNeedStrayedVotes
PROPERTIES
  WinnerHasMajorityEntries
CONSTRAINTS UntilStrayed FewThreads
CHECK_DEADLOCK FALSE
