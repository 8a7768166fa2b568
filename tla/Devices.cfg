SPECIFICATION DevicesSpec
CONSTANTS
  d1 = d1
  d2 = d2
  u1 = u1
  u2 = u2
  s1 = s1
  s2 = s2
  Device = {d1, d2}
  User = {u1, u2}
  Session = {s1, s2}
  Requests = {"push", "cancel", "fleet", "cross", "restore", "refresh", "snapshot"}
  Templates = {"face", "fps"}
  MaxCommands = 3
  MaxLocal = 3
INVARIANT TypeOK
INVARIANT OneIdentityInFlight
INVARIANT FacesPushedOnce
PROPERTY CopiesReconciled
PROPERTY NeverRequeued
PROPERTY QueueIsServed
