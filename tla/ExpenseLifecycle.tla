---------------------------- MODULE ExpenseLifecycle ----------------------------
(***************************************************************************)
(* The expense approval workflow when no two requests overlap: every       *)
(* handler of app/routers/expenses.py is one step that reads, checks and   *)
(* commits.  This is what the handlers promise one at a time;              *)
(* ExpenseRequests says what is left of it when they run concurrently.     *)
(*                                                                         *)
(* The rule table changes under the expenses (app/routers/vault.py and     *)
(* admin.py), projects are archived and deleted with everything they hold  *)
(* (projects.py), and payroll posts expenses that are approved from the    *)
(* start (hris_payroll.py).                                                *)
(***************************************************************************)
EXTENDS ExpenseWorkflow

CONSTANTS
    Expenses,      \* expense ids
    RulePool,      \* approval rules an administrator may have in force
    MaxAudit       \* bound: audit entries of one expense

ASSUME PoolAssumption == RulePool \subseteq ApprovalRule
ASSUME MaxAuditAssumption == MaxAudit \in Nat

VARIABLES
    expense,       \* [Expenses -> row, or NULL when there is none]
    audit,         \* [Expenses -> the audit_log entries of that expense]
    rules,         \* active rows of approval_rules
    project        \* [Project -> "active", "archived" or "deleted"]

vars == <<expense, audit, rules, project>>

AuditEntry == [action : {"CREATE", "UPDATE", "DELETE", "SUBMIT", "RECEIPT_REVIEW",
                         "VERIFY", "APPROVE", "PAY", "HARD_LOCK", "REJECT"},
               user : User]

Exists(e) == expense[e] # NULL

\* Ids come from a sequence: one that was ever used is never used again.
Fresh(e) == expense[e] = NULL /\ audit[e] = <<>>

Init ==
    /\ expense = [e \in Expenses |-> NULL]
    /\ audit = [e \in Expenses |-> <<>>]
    /\ rules \in SUBSET RulePool
    /\ project = [p \in Project |-> "active"]

\* The end of every handler: the row and its audit record in one transaction.
Write(e, actor, action, row) ==
    /\ Len(audit[e]) < MaxAudit
    /\ expense' = [expense EXCEPT ![e] = row]
    /\ audit' = [audit EXCEPT ![e] = Append(@, [action |-> action, user |-> actor])]
    /\ UNCHANGED <<rules, project>>

Create(e, actor) ==
    /\ Fresh(e)
    /\ \E expense_type \in {"regular", "reimbursement"}, p \in Project \cup {NULL},
          amount \in Amounts, category \in Categories :
           /\ CanCreate(actor, expense_type, p, category)
           /\ p # NULL => project[p] = "active"
           /\ Write(e, actor, "CREATE",
                    NewExpense(expense_type, p, amount, category, actor))

Update(e, actor) ==
    /\ Exists(e)
    /\ CanUpdate(actor, expense[e])
    /\ \E amount \in Amounts, category \in Categories :
           Write(e, actor, "UPDATE", Edited(expense[e], amount, category))

Submit(e, actor) ==
    /\ Exists(e)
    /\ CanSubmit(actor, expense[e])
    /\ \E chain \in SubmissionChains(rules, expense[e].expense_type,
                                     expense[e].amount, expense[e].category) :
           Write(e, actor, "SUBMIT", Started(expense[e], actor, chain))

Verify(e, actor) ==
    /\ Exists(e)
    /\ CanVerify(actor, expense[e])
    /\ Write(e, actor, VerifyAction(actor), Verified(expense[e], actor))

Approve(e, actor) ==
    /\ Exists(e)
    /\ CanApprove(actor, expense[e])
    /\ Write(e, actor, "APPROVE", Approved(expense[e], actor))

Pay(e, actor) ==
    /\ Exists(e)
    /\ CanPay(actor, expense[e])
    /\ Write(e, actor, "PAY", Paid(expense[e], actor))

Lock(e, actor) ==
    /\ Exists(e)
    /\ CanLock(actor, expense[e])
    /\ Write(e, actor, "HARD_LOCK", Locked(expense[e], actor))

Reject(e, actor) ==
    /\ Exists(e)
    /\ CanReject(actor, expense[e])
    /\ Write(e, actor, "REJECT", Rejected(expense[e], actor))

Delete(e, actor) ==
    /\ Exists(e)
    /\ CanDelete(actor, expense[e])
    /\ Write(e, actor, "DELETE", NULL)

\* Posting a payroll period creates an approved expense, without an audit record of its own.
PostPayroll(e, actor) ==
    /\ Fresh(e)
    /\ RoleOf[actor] \in {"SUPER_ADMIN", "MD", "FINANCE"}
    /\ \E amount \in Amounts :
           expense' = [expense EXCEPT ![e] = PayrollExpense(amount, actor)]
    /\ UNCHANGED <<audit, rules, project>>

\* A rule is created, activated, deactivated or deleted; an edit is two of these.
ToggleRule(rule) ==
    /\ rules' = IF rule \in rules THEN rules \ {rule} ELSE rules \cup {rule}
    /\ UNCHANGED <<expense, audit, project>>

ArchiveProject(p) ==
    /\ project[p] # "deleted"
    /\ project' = [project EXCEPT ![p] = IF @ = "active" THEN "archived" ELSE "active"]
    /\ UNCHANGED <<expense, audit, rules>>

\* delete_project: every expense of the archived project goes with it, whatever its status.
\* Its load and its commit are apart in ProjectLedger and PettyCash.
DeleteProject(p) ==
    /\ project[p] = "archived"
    /\ project' = [project EXCEPT ![p] = "deleted"]
    /\ expense' = [e \in Expenses |->
                      IF expense[e] # NULL /\ expense[e].project = p THEN NULL ELSE expense[e]]
    /\ UNCHANGED <<audit, rules>>

Handler(e, actor) ==
    \/ Create(e, actor) \/ Update(e, actor) \/ Submit(e, actor)
    \/ Verify(e, actor) \/ Approve(e, actor) \/ Pay(e, actor)
    \/ Lock(e, actor) \/ Reject(e, actor) \/ Delete(e, actor)
    \/ PostPayroll(e, actor)

Administration ==
    \/ \E rule \in RulePool : ToggleRule(rule)
    \/ \E p \in Project : ArchiveProject(p) \/ DeleteProject(p)

Next == Administration \/ \E e \in Expenses, actor \in User : Handler(e, actor)

Spec == Init /\ [][Next]_vars
---------------------------------------------------------------------------
\* The type invariant: rows, audit entries and rules are what the tables can hold.
TypeOK ==
    /\ expense \in [Expenses -> Expense \cup {NULL}]
    /\ audit \in [Expenses -> Seq(AuditEntry)]
    /\ rules \subseteq RulePool
    /\ project \in [Project -> {"active", "archived", "deleted"}]

\* An expense in flight waits at one position of a captured chain; one that is
\* approved or settled has its whole chain behind it; nobody is expected to sign
\* any other, and a reason is stored exactly while it is rejected (submit, verify,
\* approve, pay and reject keep five columns in step with each other).
PositionOK(row) ==
    /\ row.status \in InFlight =>
           /\ row.approval_step < Len(row.approval_chain)
           /\ row.current_approver_role = row.approval_chain[row.approval_step + 1]
    /\ row.status \in {"approved"} \cup Settled => row.approval_step = Len(row.approval_chain)
    /\ row.status \notin InFlight => row.current_approver_role = NULL
    /\ row.rejection_reason <=> row.status = "rejected"

ChainPosition == \A e \in Expenses : Exists(e) => PositionOK(expense[e])

\* The events after the last sign-off: PAY, or PAY and HARD_LOCK.
EventsAfterSigning(row) ==
    IF row.status = "paid" THEN 1 ELSE IF row.status = "hard_locked" THEN 2 ELSE 0

SignOff == {"RECEIPT_REVIEW", "VERIFY", "APPROVE"}

\* Where the history says the current round of approval was submitted.
SubmittedAt(row) ==
    Len(row.approval_history) - row.approval_step - EventsAfterSigning(row)

\* Every signature the step counter claims is in the history of the current round,
\* in the order of the chain, each by a user entitled to sign for that role.
SignedOK(row) ==
    LET history == row.approval_history
        chain == row.approval_chain
        start == SubmittedAt(row)
    IN  /\ start >= 1
        /\ history[start].action = "SUBMIT"
        /\ \A i \in 1 .. row.approval_step :
               /\ history[start + i].action \in SignOff
               /\ history[start + i].role = chain[i]
               /\ RoleCanAct(RoleOf[history[start + i].user], chain[i])
        /\ row.status \in Settled => history[start + row.approval_step + 1].action = "PAY"
        /\ row.status = "hard_locked" =>
               history[start + row.approval_step + 2].action = "HARD_LOCK"

\* An expense that is in flight, approved, paid or locked was signed for by every
\* role of its chain so far (models.py: APPROVED is "all approvers signed off"),
\* payroll expenses that were never submitted excepted.
SignedInOrder ==
    \A e \in Expenses :
        Exists(e) /\ expense[e].status \notin {"draft", "rejected"}
                  /\ expense[e].approval_chain # <<>> => SignedOK(expense[e])

\* The roles whose signature the step counter claims.
SignedRoles(row) == {row.approval_chain[i] : i \in 1 .. row.approval_step}

StampOK(row) ==
    /\ row.status \in InFlight =>
           (row.status = "verified" <=> "COST_CONTROL" \in SignedRoles(row))
    /\ row.status \in {"approved"} \cup Settled =>
           \/ "COST_CONTROL" \in SignedRoles(row)
           \/ row.payroll /\ row.approval_chain = <<>>

\* VERIFIED is the cost-control stamp: an expense carries it exactly when
\* COST_CONTROL is among the roles of its chain that have signed, so no expense
\* reaches payment without that signature except one payroll posted.
CostControlStamp == \A e \in Expenses : Exists(e) => StampOK(expense[e])

\* The columns of every row agree with each other, for every chain a rule table gives:
\* types, position in the chain and the cost-control stamp.
RowsCoherent == TypeOK /\ ChainPosition /\ CostControlStamp

\* Where the workflow writes into an audit trail.
WorkflowIn(trail) ==
    {i \in 1 .. Len(trail) : trail[i].action \notin {"CREATE", "UPDATE", "DELETE"}}

\* A history tells the workflow part of a trail, event by event in its order.
Tells(history, trail) ==
    LET at == WorkflowIn(trail)
    IN  /\ Len(history) = Cardinality(at)
        /\ \A i \in at :
               LET event == history[Cardinality({j \in at : j <= i})]
               IN  event.action = trail[i].action /\ event.user = trail[i].user

\* The history a row shows is its audit trail: no event is missing, reordered or
\* attributed to another user (append_history_event beside write_audit).
HistoryComplete ==
    \A e \in Expenses : Exists(e) => Tells(expense[e].approval_history, audit[e])

\* The user of the last event of an action, NULL when there is none.
LastToDo(history, action) ==
    LET at == {i \in 1 .. Len(history) : history[i].action = action}
    IN  IF at = {} THEN NULL
        ELSE history[CHOOSE i \in at : \A j \in at : j <= i].user

\* The four stamps of a row name the users who last did these things according
\* to its history; stamps of an earlier, rejected round stay.
StampsTrue(row) ==
    LET approver == LastToDo(row.approval_history, "APPROVE")
    IN  /\ row.receipt_reviewed_by = LastToDo(row.approval_history, "RECEIPT_REVIEW")
        /\ row.verified_by = LastToDo(row.approval_history, "VERIFY")
        /\ row.paid_by = LastToDo(row.approval_history, "PAY")
        /\ approver # NULL \/ ~ row.payroll => row.approved_by = approver

StampsMatchHistory == \A e \in Expenses : Exists(e) => StampsTrue(expense[e])

\* Row, history, stamps and audit trail tell one story of every expense: each handler
\* writes its part of all four in one transaction, in every round of approval.
RecordsAgree == HistoryComplete /\ StampsMatchHistory

\* Somebody's turn always comes up: for every expense in flight there is a user the
\* code lets sign without the SUPER_ADMIN override of role_can_act, provided there is
\* a user for every role a chain may name.
NeverStuck ==
    \A e \in Expenses : Exists(e) /\ expense[e].status \in InFlight =>
        \E actor \in User :
            /\ CanApprove(actor, expense[e])
            /\ RoleOf[actor] = "SUPER_ADMIN" =>
                   expense[e].current_approver_role = "SUPER_ADMIN"

\* What is paid stays paid: a settled expense is only ever locked, or removed with
\* its archived project; its amount, chain and signatures never change again.
SettledStaysSettled ==
    [][\A e \in Expenses : Exists(e) /\ expense[e].status \in Settled =>
          \/ expense'[e] = expense[e]
          \/ expense[e].status = "paid" /\ \E actor \in User :
                 expense'[e] = Locked(expense[e], actor)
          \/ \E p \in Project : project[p] = "archived" /\ expense[e].project = p
                                /\ expense'[e] = NULL]_vars

\* "The immutable approval chain captured at submission time" (expense_workflow.py):
\* from submission to rejection neither the chain nor what it was resolved from
\* changes, and the step only counts up by one.
CapturedAtSubmission ==
    [][\A e \in Expenses :
          Exists(e) /\ Exists(e)' /\ expense[e].status \notin {"draft", "rejected"} =>
              LET row == expense[e]
                  next == expense'[e]
              IN  /\ next.amount = row.amount /\ next.category = row.category
                  /\ next.approval_chain = row.approval_chain
                  /\ next.approval_step \in row.approval_step .. row.approval_step + 1]_vars

\* Nobody's Action Center lists an expense on which every command would be refused.
QueueSound ==
    \A e \in Expenses, user \in User :
        Exists(e) /\ InActionQueue(user, expense[e]) =>
            \/ CanSubmit(user, expense[e]) \/ CanVerify(user, expense[e])
            \/ CanApprove(user, expense[e]) \/ CanPay(user, expense[e])

================================================================================
