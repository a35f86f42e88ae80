SPECIFICATION Spec
CONSTANTS
    NULL = NULL
    e1 = e1
    cost_control = cost_control
    pm = pm
    finance = finance
    super_admin = super_admin
    hr = hr
    staff = staff
    p1 = p1
    Expenses = {e1}
    User = {cost_control, pm, super_admin}
    RoleOf <- MCRoleOf
    Project = {p1}
    Amounts <- MCAmounts
    Categories = {"Direct"}
    RulePool <- MCRulePool
    MaxAudit = 5
    w1 = w1
    w2 = w2
    Worker = {w1}
PROPERTY SerialSpec
