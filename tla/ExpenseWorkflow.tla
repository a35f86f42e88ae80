---------------------------- MODULE ExpenseWorkflow ----------------------------
(***************************************************************************)
(* What one handler of app/routers/expenses.py asks of an expense row and  *)
(* what it assigns to it: a guard and an effect per operation, on rows     *)
(* alone.  ExpenseLifecycle runs each handler as one atomic step,          *)
(* ExpenseRequests splits it into its read and its commit.                 *)
(***************************************************************************)
EXTENDS ApprovalMatrix

CONSTANTS
    User,          \* users of the ERP
    RoleOf,        \* the role of each user
    Project,       \* projects an expense may belong to
    Amounts,       \* amounts an expense may carry
    Categories     \* cost code categories in use

ASSUME UserAssumption == RoleOf \in [User -> Role] /\ NULL \notin User
ASSUME AmountAssumption == Amounts \subseteq Nat /\ Categories \subseteq Category
ASSUME ProjectAssumption == NULL \notin Project

ExpenseStatus == {"draft", "submitted", "verified", "approved", "paid",
                  "hard_locked", "rejected"}
InFlight == {"submitted", "verified"}
Settled == {"paid", "hard_locked"}

HistoryEvent == [action : {"SUBMIT", "RECEIPT_REVIEW", "VERIFY", "APPROVE", "PAY",
                           "HARD_LOCK", "REJECT"},
                 role : Role \cup {NULL}, user : User]

(***************************************************************************)
(* A row of the expenses table.  category is that of the row's cost code,  *)
(* rejection_reason tells only whether a reason is stored, and payroll     *)
(* whether a payroll run refers to the row (payroll_runs.expense_id).      *)
(***************************************************************************)
Expense ==
    [expense_type : {"regular", "reimbursement"}, project : Project \cup {NULL},
     amount : Amounts, category : Category, payroll : BOOLEAN,
     status : ExpenseStatus, submitted_by : User,
     receipt_reviewed_by : User \cup {NULL}, verified_by : User \cup {NULL},
     approved_by : User \cup {NULL}, paid_by : User \cup {NULL},
     current_approver_role : Role \cup {NULL}, approval_chain : Seq(Role),
     approval_step : Nat, approval_history : Seq(HistoryEvent),
     rejection_reason : BOOLEAN]

\* NULL stands for the absence of a row.
ASSUME RowAssumption == NULL \notin Expense

NewExpense(expense_type, project, amount, category, actor) ==
    [expense_type |-> expense_type, project |-> project, amount |-> amount,
     category |-> category, payroll |-> FALSE, status |-> "draft",
     submitted_by |-> actor, receipt_reviewed_by |-> NULL, verified_by |-> NULL,
     approved_by |-> NULL, paid_by |-> NULL, current_approver_role |-> NULL,
     approval_chain |-> <<>>, approval_step |-> 0, approval_history |-> <<>>,
     rejection_reason |-> FALSE]

\* The expense post_payroll_period creates for a run: approved from the start.
PayrollExpense(amount, actor) ==
    [NewExpense("regular", NULL, amount, "Personnel", actor)
        EXCEPT !.payroll = TRUE, !.status = "approved", !.approved_by = actor]

Owns(actor, row) ==
    row.submitted_by = actor \/ RoleOf[actor] \in {"SUPER_ADMIN", "COST_CONTROL"}

---------------------------------------------------------------------------
\* Guards: the conditions under which a handler does not raise.

CanCreate(actor, expense_type, project, category) ==
    /\ RoleOf[actor] \in {"STAFF", "WORKER"} =>
           expense_type = "reimbursement" /\ category = "Reimbursement"
    /\ expense_type = "regular" => project # NULL

\* Mutant: drafts are edited in every unpaid status.
CanUpdateUnsettled(actor, row) == row.status \notin Settled /\ Owns(actor, row)

CanUpdate(actor, row) == row.status = "draft" /\ Owns(actor, row)

CanSubmit(actor, row) == row.status \in {"draft", "rejected"} /\ Owns(actor, row)

CanVerify(actor, row) ==
    /\ row.status = "submitted"
    /\ RoleCanAct(RoleOf[actor], row.current_approver_role)
    /\ RoleOf[actor] \in {"GA", "HR", "COST_CONTROL", "SUPER_ADMIN"}

CanApprove(actor, row) ==
    /\ row.status \in InFlight
    /\ RoleCanAct(RoleOf[actor], row.current_approver_role)

CanPay(actor, row) ==
    row.status = "approved" /\ RoleOf[actor] \in {"FINANCE", "SUPER_ADMIN"}

CanLock(actor, row) == row.status = "paid" /\ RoleOf[actor] = "SUPER_ADMIN"

\* Mutant: PAID missing from locked_statuses.
CanRejectPaid(actor, row) ==
    /\ row.status \notin {"hard_locked", "rejected"}
    /\ RoleCanReject(RoleOf[actor], row.approval_chain)

CanReject(actor, row) ==
    /\ row.status \notin {"paid", "hard_locked", "rejected"}
    /\ RoleCanReject(RoleOf[actor], row.approval_chain)

\* The foreign key payroll_runs.expense_id refuses the DELETE of a payroll expense.
CanDelete(actor, row) ==
    row.status \in {"draft", "rejected"} /\ Owns(actor, row) /\ ~ row.payroll

---------------------------------------------------------------------------
\* Effects: what the handlers assign to the row.

\* append_history_event: the role recorded is the approver expected at the call.
WithEvent(row, action, actor) ==
    [row EXCEPT !.approval_history =
        Append(@, [action |-> action, role |-> row.current_approver_role, user |-> actor])]

Edited(row, amount, category) == [row EXCEPT !.amount = amount, !.category = category]

\* Mutant of start_approval: the step of the former round is kept.
RestartedInPlace(row, actor, chain) ==
    WithEvent([row EXCEPT !.status = "submitted", !.submitted_by = actor,
                          !.approval_chain = chain, !.rejection_reason = FALSE,
                          !.current_approver_role = IF chain = <<>> THEN NULL ELSE chain[1]],
              "SUBMIT", actor)

\* Mutant of start_approval: nobody is asked to sign.
StartedUnassigned(row, actor, chain) ==
    WithEvent([row EXCEPT !.status = "submitted", !.submitted_by = actor,
                          !.approval_chain = chain, !.approval_step = 0,
                          !.rejection_reason = FALSE],
              "SUBMIT", actor)

\* start_approval
Started(row, actor, chain) ==
    WithEvent([row EXCEPT !.status = "submitted", !.submitted_by = actor,
                          !.approval_chain = chain, !.approval_step = 0,
                          !.current_approver_role = IF chain = <<>> THEN NULL ELSE chain[1],
                          !.rejection_reason = FALSE],
              "SUBMIT", actor)

\* Mutant of advance_approval_chain: every sign-off but the last sets VERIFIED.
AdvancedToVerified(row) ==
    LET step == row.approval_step + 1
    IN  IF step >= Len(row.approval_chain)
        THEN [row EXCEPT !.approval_step = step, !.status = "approved",
                         !.current_approver_role = NULL]
        ELSE [row EXCEPT !.approval_step = step, !.status = "verified",
                         !.current_approver_role = row.approval_chain[step + 1]]

\* advance_approval_chain: VERIFIED only once COST_CONTROL has signed.
Advanced(row) ==
    LET step == row.approval_step + 1
    IN  IF step >= Len(row.approval_chain)
        THEN [row EXCEPT !.approval_step = step, !.status = "approved",
                         !.current_approver_role = NULL]
        ELSE [row EXCEPT !.approval_step = step,
                         !.status = IF row.approval_chain[step] = "COST_CONTROL"
                                    THEN "verified" ELSE @,
                         !.current_approver_role = row.approval_chain[step + 1]]

VerifyAction(actor) ==
    IF RoleOf[actor] \in {"GA", "HR"} THEN "RECEIPT_REVIEW" ELSE "VERIFY"

\* Mutant: the receipt check stamped as the cost verification.
StampedVerified(row, actor) ==
    Advanced(WithEvent([row EXCEPT !.verified_by = actor], VerifyAction(actor), actor))

\* verify_expense: GA and HR stamp the receipt review, the others the verification.
Verified(row, actor) ==
    LET stamped == IF RoleOf[actor] \in {"GA", "HR"}
                   THEN [row EXCEPT !.receipt_reviewed_by = actor]
                   ELSE [row EXCEPT !.verified_by = actor]
    IN  Advanced(WithEvent(stamped, VerifyAction(actor), actor))

Approved(row, actor) ==
    Advanced(WithEvent([row EXCEPT !.approved_by = actor], "APPROVE", actor))

Paid(row, actor) ==
    WithEvent([row EXCEPT !.status = "paid", !.paid_by = actor,
                          !.current_approver_role = NULL], "PAY", actor)

Locked(row, actor) == WithEvent([row EXCEPT !.status = "hard_locked"], "HARD_LOCK", actor)

Rejected(row, actor) ==
    WithEvent([row EXCEPT !.status = "rejected", !.rejection_reason = TRUE,
                          !.current_approver_role = NULL], "REJECT", actor)

---------------------------------------------------------------------------
\* Mutant: the verification queue without its status.
InVerificationQueue(user, row) ==
    RoleCanAct(RoleOf[user], row.current_approver_role)

\* expense_action_queue_clause: the rows a user's Action Center lists.  SQL compares
\* with a NULL approver as neither in nor not in a list.
InActionQueue(user, row) ==
    LET expected == row.current_approver_role
        mine == RoleCanAct(RoleOf[user], expected)
    IN  \/ row.status \in {"draft", "rejected"} /\ Owns(user, row)
        \/ row.status = "submitted" /\ expected \in {"GA", "COST_CONTROL"} /\ mine
        \/ row.status \in InFlight /\ expected \notin {NULL, "GA", "COST_CONTROL"} /\ mine
        \/ row.status = "approved" /\ RoleOf[user] \in {"FINANCE", "SUPER_ADMIN"}
================================================================================
