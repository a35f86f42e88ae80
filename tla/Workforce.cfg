SPECIFICATION Spec
CONSTANTS
    NULL = NULL
    w1 = w1
    w2 = w2
    ani = ani
    budi = budi
    e1 = e1
    e2 = e2
    a1 = a1
    a2 = a2
    i1 = i1
    i2 = i2
    r1 = r1
    r2 = r2
    p1 = p1
    p2 = p2
    s1 = s1
    s2 = s2
    Worker = {w1, w2}
    User = {ani, budi}
    Role = {"SUPER_ADMIN", "MD", "STAFF"}
    Menu = {"dashboard", "legal"}
    Preset <- MCPreset
    Staffs <- MCStaffs
    Employee = {e1, e2}
    Phone = {p1, p2}
    ChangeRequest = {r1, r2}
    Applicant = {a1, a2}
    Interview = {i1, i2}
    Task = {"contract"}
    Assignment = {s1, s2}
    Component = {"basic", "meal"}
    PayDay = {1, 2}
    MaxAudit = 2
INVARIANTS SessionsRevoked MenusFollowRole ChangesReviewed OfferEarned ComponentsPaidOnce
PROPERTY LastSuperAdminKept
SYMMETRY MCSymmetry
CHECK_DEADLOCK FALSE
