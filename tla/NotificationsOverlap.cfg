SPECIFICATION Spec
CONSTANTS
  Type <- OneType
  Template <- OneTemplate
  TypeOf <- OneTypeOf
  w1 = w1
  w2 = w2
  Worker = {w1, w2}
  WhatsApp = {"absent_wa"}
  Malformed = {"absent_mail"}
  Managed = {"absent_mail"}
  Toggled = TRUE
  BatchLimit = 1
  MaxRetries = 1
  MaxEvents = 1
  MaxAborts = 1
SYMMETRY WorkerSymmetry
CONSTRAINT TwoCopies
INVARIANT SentWasAccepted
INVARIANT ConsumedWasQueued
