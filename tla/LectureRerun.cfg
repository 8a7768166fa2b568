SPECIFICATION CampusSpec
CONSTANTS
  Teacher = {"t1", "t2"}
  Clerk = {"c1", "c2"}
  Spans <- MCSpans
  LeaveType = {"casual", "lwp"}
  QuotaType = {"casual"}
  Quotas = {2, 4}
  WeeklyOff = {}
  Holidays = {2}
  MaxLeaves = 2
  Batch = {"b1"}
  Room = {"r"}
  NoRoom = "online"
  Qualified <- MCQualified
  Plans <- MCPlans
  Timetables <- MCTimetables
  Days = {1, 2}
  Week = 7
  Today = 1
  Hours = {2}
  MaxLectures = 2
  User = {"a", "b"}
  Founder = {"a"}
  TeacherUser = {"b"}
  Desk = {"d1", "d2"}
  Role = {"super_admin", "teacher"}
  Password = {1, 2}
  MaxFail = 2
  LockTime = 1
  LastTick = 1
  MaxTokens = 3
  MaxGrants = 3
  Librarian = {"l1", "l2"}
  Content = {"s"}
  Category = {"test", "notes"}
  Extractable = {"test"}
  Cohort = {"b1", "b2"}
  Printed = {1}
  LastPage = 1
  MaxMaterials = 2
  MaxRuns = 2
  PluginName = {"p", "q"}
  Setting = {"k"}
  Needs <- MCNeeds
  Installer = {"o1", "o2"}
  Scholar = {"s"}
  Stream = {"b1", "b2"}
  Topic = {"t", "u"}
  Bell = {"w1", "w2"}
  Chooser = {"c1", "c2"}
  MaxReminders = 2
CHECK_DEADLOCK FALSE
INVARIANT RerunNeverDoubleBooks
