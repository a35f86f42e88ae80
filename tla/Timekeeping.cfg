SPECIFICATION Spec
CONSTANTS
    NULL = NULL
    w1 = w1
    w2 = w2
    c1 = c1
    c2 = c2
    hr = hr
    md = md
    Dates <- MCDates
    Worker = {w1, w2}
    User = {hr, md}
    RoleOf <- MCRoleOf
    Day = {1, 2, 3}
    Weekend = {}
    EmployeeUser = hr
    YearOf <- MCYearOf
    LeaveType <- MCLeaveType
    MaxRequests = 2
    Certificate = {c1}
    Hours = {9}
    MaxOvertime = 2
    MaxAudit = 1
INVARIANTS BalancesReconcile SubmissionsApart OneOpenShift OvertimeLinked
SYMMETRY MCSymmetry
CHECK_DEADLOCK FALSE
