SPECIFICATION Spec
CONSTANTS
    NULL = NULL
    w1 = w1
    w2 = w2
    p1 = p1
    p2 = p2
    r1 = r1
    i1 = i1
    md = md
    Worker = {w1, w2}
    User = {md}
    RoleOf <- MCRoleOf
    ProjectCode = {p1, p2}
    Invoiced = {1, 2}
    Payments = {2}
    Quantities = {1}
    Receivable = {r1}
    Item = {i1}
    ReferringTable = {"petty_cash_reports", "operational_records"}
    MaxAudit = 5
    MaxStock = 2
INVARIANTS PaymentsAddUp StockMatchesMovements 
PROPERTIES CeilingFrozen
SYMMETRY MCSymmetry
CHECK_DEADLOCK FALSE
