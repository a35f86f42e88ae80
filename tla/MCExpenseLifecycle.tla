--------------------------- MODULE MCExpenseLifecycle ---------------------------
(* A small ERP for TLC: one expense id, one user per role that matters, one     *)
(* rule that asks for the project manager, and amounts on both sides of its     *)
(* bound.                                                                       *)
EXTENDS ExpenseLifecycle, TLC

CONSTANTS e1, p1, cost_control, pm, finance, super_admin, hr, staff

Roles ==
    cost_control :> "COST_CONTROL" @@ pm :> "PM" @@ finance :> "FINANCE"
    @@ super_admin :> "SUPER_ADMIN" @@ hr :> "HR" @@ staff :> "STAFF"

MCRoleOf == [user \in User |-> Roles[user]]

Rule(role, min, max, rank) ==
    [required_role |-> role, min_amount |-> min, max_amount |-> max,
     category |-> NULL, priority |-> rank]

\* At 2 the chain is COST_CONTROL (inserted), PM while the rule is in force;
\* in every other case it is COST_CONTROL alone.
MCRulePool == {Rule("PM", 2, NULL, 1)}

\* From 2 on the matrix asks for the finance desk after the cost controller.
MCFinanceRulePool == {Rule("FINANCE", 2, NULL, 1)}

MCAmounts == {1, 2}
================================================================================
