SPECIFICATION FairSpec
CONSTANTS
  Type <- MCType
  Template <- MCTemplate
  TypeOf <- MCTypeOf
  w1 = w1
  Worker = {w1}
  WhatsApp = {"absent_wa"}
  Malformed = {"absent_mail"}
  Managed = {}
  Toggled = FALSE
  BatchLimit = 1
  MaxRetries = 1
  MaxEvents = 2
  MaxAborts = 0
PROPERTY DrainNotWedged
