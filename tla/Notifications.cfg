SPECIFICATION FairSpec
CONSTANTS
  Type <- MCType
  Template <- MCTemplate
  TypeOf <- MCTypeOf
  w1 = w1
  Worker = {w1}
  WhatsApp = {"absent_wa"}
  Malformed = {}
  Managed = {}
  Toggled = TRUE
  BatchLimit = 1
  MaxRetries = 2
  MaxEvents = 2
  MaxAborts = 1
INVARIANT TypeOK
INVARIANT QueueMatchesConsumed
INVARIANT RepeatsBounded
PROPERTY EventsConsumed
