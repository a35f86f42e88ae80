SPECIFICATION Spec
CONSTANTS
    NULL = NULL
    w1 = w1
    w2 = w2
    d1 = d1
    d2 = d2
    spt = spt
    ba = ba
    c1 = c1
    c2 = c2
    f1 = f1
    f2 = f2
    md = md
    Worker = {w1, w2}
    User = {md}
    RoleOf <- MCRoleOf
    Document = {d1, d2}
    DocType = {spt, ba}
    Content = {c1, c2}
    MaxAudit = 1
    approver_roles = {"MD"}
    Amount = {1, 3}
    LineSequence = {1, 2}
    File = {f1, f2}
    MaxHistory = 4
INVARIANTS NextNumberFree HistoryExplainsStatus ClientPOAddsUp FilesAttached
PROPERTIES SignedKept SubmittedRecordKept
SYMMETRY MCSymmetry
CHECK_DEADLOCK FALSE
