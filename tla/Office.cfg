SPECIFICATION OfficeSpec
CONSTANTS
  LastMonth = 3
  Caps = {1, 2}
  AllowNegative = FALSE
  Nets <- MCNets
  MaxRows = 3
  Student = {"asha"}
  Clerk = {"c1", "c2"}
  Plans <- MCPlans
  FirstParts <- MCFirstParts
  Interval = 1
  LastDay = 1
  MaxProfiles = 2
  MaxReceived = 2
  Enrolled = {"asha"}
  w1 = w1
  w2 = w2
  Worker = {w1, w2}
  Notified = {"asha"}
  Lecture <- MCLecture
  Punches <- MCPunches
  Starts = {1, 2}
  LastHour = 3
  CloseHour = 3
  Delay = 1
  DigestAll = TRUE
  DayMarks = {"PRESENT"}
  LectureMarks = {"EXCUSED"}
CHECK_DEADLOCK FALSE
INVARIANT OfficeTypeOK
INVARIANT BalanceInRange
INVARIANT BookedSoundly
INVARIANT BooksAgree
INVARIANT ParentsToldOnce
INVARIANT RecordsMatchLog
PROPERTY EarlierCarryKept
PROPERTY CapRespected
PROPERTY RecomputeExact
PROPERTY OverdueMarked
PROPERTY HandMarkStays
