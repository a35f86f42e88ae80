------------------------- MODULE MCApprovalMatrixTable -------------------------
(* The first and the last amount of every tier, in hundredths, and three rules  *)
(* an administrator adds: one of equal priority, one for a category, and one    *)
(* that repeats a role at a lower priority.                                     *)
EXTENDS ApprovalMatrixTable

MCAsked == {1, 5000000, 5000001, 50000000, 50000001, 200000000, 200000001}

MCExtra ==
    {[required_role |-> "GA", min_amount |-> 0, max_amount |-> NULL,
      category |-> NULL, priority |-> 2],
     [required_role |-> "HR", min_amount |-> 0, max_amount |-> NULL,
      category |-> "Personnel", priority |-> 2],
     [required_role |-> "FINANCE", min_amount |-> 100, max_amount |-> 200000000,
      category |-> NULL, priority |-> 1]}
================================================================================
