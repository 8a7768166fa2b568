CONSTANTS
    Staff = {anna}
    s1 = s1
    s2 = s2
    Session = {s1}
    Users = {hr, admin}
    LastMonth = 2
    Dates = {d1}
    RequiredDays <- MCRequired
    Cap = 1
    AllowNegative = FALSE
    HolidayTreatment = "credited"
    MaxCalls = 5
    MaxRequests = 2
SPECIFICATION Spec
CHECK_DEADLOCK FALSE
SYMMETRY UserSymmetry
PROPERTY RecomputeThreadsMonths
