CONSTANTS
    Staff = {anna}
    s1 = s1
    s2 = s2
    Session = {s1, s2}
    Users = {hr, admin}
    LastMonth = 2
    Dates = {d1}
    RequiredDays <- MCRequired
    Cap = 1
    AllowNegative = FALSE
    HolidayTreatment = "credited"
    MaxCalls = 5
    MaxRequests = 2
    Student = {"asha", "ravi"}
    Examiner = {"e1", "e2"}
    Subject = {"phy", "che"}
    Question = {"q1", "q2"}
    Answer = {"A", "B"}
    Stranger = "zzz"
    PaperTotal = 4
    SubjectTotals <- MCTotals
    Sheets <- MCSheets
    AnswerFiles <- MCAnswerFiles
    Points = {1, 2}
    MaxPaper = 2
    MaxWork = 3
    Key = {"n1", "n2", "e1"}
    Emails = {"e1"}
    NoKey = "nokey"
    Code = {"X", "Y"}
    NoBatch = "none"
    Files <- MCFiles
    FirstYear = 1
    LastYear = 2
    Chunk = 1
    MaxImports = 2
    MaxEdits = 2
    StaffDays = {1, 2}
    Weekend = {2}
    WeeklyOff = {2}
    Times = {1, 2, 3}
    OwnShifts <- MCOwnShifts
    BranchShift <- MCBranchShift
    FineStart = 1
    WeekendFineStart = 2
    Grace = 0
    HalfDayWork = 2
    Slabs <- MCSlabs
    Timesheets <- MCTimesheets
    UtcShift = 1
    DayLength = 24
    BucketDays = 7
    StaffMonths <- MCStaffMonths
    WofRequired = 1
    Hand = {"h1", "h2"}
    MaxPunches = 3
    Pupil = {"p1", "p2"}
    Group = {"g1", "g2"}
    SchoolDays = {1, 2}
    Slots <- MCSlots
    Rolls <- MCRolls
    Threshold = 75
    Exam = {"t1"}
    Percent = {30, 90}
    RecordStatus = {"PRESENT", "LATE", "ABSENT"}
    RiskThreshold = 50
    MaxChanges = 4
    Person = {"rao", "iyer"}
    Spelling = {"Phy", "phy"}
    Folded <- MCFolded
    Programme = {"jee", "neet"}
    Section = {"b1", "b2"}
    ProgrammeOf <- MCProgrammeOf
    Ranges <- MCRanges
    Teaching = 1
    TeacherFiles <- MCTeacherFiles
    StaffFiles <- MCStaffFiles
    Desk = {"e1", "e2"}
    MaxTeachers = 2
    MaxRows = 3
    MaxMoves = 3
    Rooms = {"hall"}
    NoRoom = "none"
    Timetables <- MCTimetables
    ClosedDays = {2}
    Mail <- MCMail
    MaxUploads = 2
SPECIFICATION SchoolSpec
CHECK_DEADLOCK FALSE
SYMMETRY UserSymmetry
INVARIANT RankListInSync
