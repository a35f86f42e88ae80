SPECIFICATION Spec
CONSTANTS
    NULL = NULL
    e1 = e1
    cost_control = cost_control
    pm = pm
    finance = finance
    super_admin = super_admin
    hr = hr
    staff = staff
    p1 = p1
    Expenses = {e1}
    User = {hr, cost_control, finance, super_admin}
    RoleOf <- MCRoleOf
    Project = {p1}
    Amounts = {2}
    Categories = {"Direct", "Reimbursement"}
    RulePool <- MCFinanceRulePool
    MaxAudit = 6
INVARIANTS
    RowsCoherent
    SignedInOrder
    RecordsAgree
    QueueSound
    NeverStuck
PROPERTIES
    SettledStaysSettled
    CapturedAtSubmission
