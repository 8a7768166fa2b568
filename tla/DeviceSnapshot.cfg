SPECIFICATION Spec
CONSTANTS
  d1 = d1
  u1 = u1
  s1 = s1
  Device = {d1}
  User = {u1}
  Session = {s1}
  Requests = {"snapshot"}
  Templates = {"face"}
  MaxCommands = 2
  MaxLocal = 3
PROPERTY SnapshotIsMirrored
