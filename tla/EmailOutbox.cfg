SPECIFICATION OutboxSpec
CONSTANTS
    NoRow = NoRow
    w1 = w1
    w2 = w2
    Process = {w1, w2}
    Mail = {1, 2, 3}
    Limit = 2
    MaxAttempts = 2
    MaxRollbacks = 1
INVARIANT DeliveriesAgree
PROPERTY EventuallySettled
CHECK_DEADLOCK FALSE
