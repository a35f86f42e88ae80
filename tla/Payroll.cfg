SPECIFICATION Spec
CONSTANTS
    NULL = NULL
    w1 = w1
    w2 = w2
    Worker = {w1, w2}
    hr = hr
    User = {hr}
    RoleOf <- MCRoleOf
    e1 = e1
    Month = {11, 12}
    Employee = {e1}
    PtkpStatus <- MCPtkpStatus
    Joined <- MCJoined
    Structure <- MCStructure
    Overtime <- MCOvertime
    Calculation <- MCCalculation
    Adjustment <- MCAdjustment
    MaxAudit = 3
INVARIANTS TransferIsBooked YearReconciled ThrOnce GrossUpCovers
PROPERTY BookedOnce
SYMMETRY MCSymmetry
CHECK_DEADLOCK FALSE
