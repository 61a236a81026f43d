SPECIFICATION Spec
CONSTANTS
  a = a
  b = b
  c = c
  d = d
  Server = {a, b, c, d}
  Null = Null
  Members = {a, b, c, d}
  Master = a
  Behind = {c}
  Writers = {a}
  Joiners = {}
  Confirm = TRUE
  Batch = 1
  MaxTerm = 0
  MaxWrites = 3
  MaxDrops = 1
  MaxRestarts = 4
  MaxCommands = 0
  MaxQueue = 1
INVARIANTS
  ReplicasAgree
CONSTRAINT Course
CHECK_DEADLOCK FALSE
