SPECIFICATION Spec
CONSTANTS
    NULL = NULL
    w1 = w1
    w2 = w2
    p1 = p1
    l1 = l1
    l2 = l2
    md = md
    Worker = {w1, w2}
    User = {md}
    RoleOf <- MCRoleOf
    ProjectCode = {p1}
    Line = {l1, l2}
    Amounts = {1, 2}
    MaxAudit = 4
INVARIANTS ExpensesFollowLines TotalExplained
PROPERTY SubmittedKept
SYMMETRY MCSymmetry
CHECK_DEADLOCK FALSE
