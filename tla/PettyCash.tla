------------------------------- MODULE PettyCash -------------------------------
(***************************************************************************)
(* A petty cash report (app/routers/petty_cash.py): its lines, and the     *)
(* expense each line creates, which then goes its own way through          *)
(* app/routers/expenses.py while the report can still be edited, and the   *)
(* deletion of an archived project, which takes them all.                  *)
(***************************************************************************)
EXTENDS Naturals, FiniteSets, FiniteSetsExt, Projects

CONSTANTS
    Line,          \* ids of petty_cash_report_lines
    Amounts,
    MaxAudit       \* bound: audit records written


VARIABLES
    report,        \* the report, or NULL before it is created
    amount,        \* [Line -> amount of the line, or NULL]
    expense,       \* [Line -> the expense of the line, or NULL]
    accepting,     \* projects active and not archived, with usable master data
    deleted,       \* projects that are gone
    request,       \* [Worker -> the handler it runs]
    created,       \* whether create_report was called: bound, one report
    lingering,     \* auxiliary: what the last edit of the lines removed
    edited,        \* auxiliary: lines whose expense was edited in its own right
    overlapped,    \* auxiliary: some commit overlapped another one on the same rows
    audited        \* number of audit records

tables ==
    <<report, amount, expense, accepting, deleted, created, lingering, edited, overlapped, audited>>
vars == <<tables, request>>

WriteRoles == {"GA", "HR", "COST_CONTROL", "PM", "PROJECT_CONTROL", "FINANCE", "MD",
               "SUPER_ADMIN"}

PettyCashReport ==
    [status : {"draft", "posted"}, project : ProjectCode, total_amount : Nat,
     created_by : User]

\* The columns of the line's expense that the report writes.  An expense loses its project
\* when that is deleted by a session that did not see the expense.
LineExpense ==
    [status : {"draft", "submitted", "approved", "paid", "rejected"},
     project : ProjectCode \cup {NULL}, amount : Amounts]

\* A report has finitely many lines.
ASSUME LineAssumption ==
    /\ IsFiniteSet(Line)
    /\ Amounts \subseteq Nat \ {0}
    /\ NULL \notin Line \cup Amounts \cup LineExpense \cup PettyCashReport

Init ==
    /\ report = NULL
    /\ amount = [l \in Line |-> NULL]
    /\ expense = [l \in Line |-> NULL]
    /\ accepting \in SUBSET ProjectCode
    /\ request = [w \in Worker |-> Idle]
    /\ deleted = {}
    /\ created = FALSE
    /\ lingering = 0
    /\ edited = {}
    /\ overlapped = FALSE
    /\ audited = 0

WriteAudit == audited < MaxAudit /\ audited' = audited + 1

\* The sum over the lines that amounts gives a value.
Total(amounts) == MapThenSumSet(LAMBDA l : amounts[l], {l \in Line : amounts[l] # NULL})

DraftExpense(project, value) == [status |-> "draft", project |-> project, amount |-> value]

\* The amounts of the lines a report is created with, at least one.
PettyCashReportCreate ==
    UNION {[lines -> Amounts] : lines \in SUBSET Line \ {{}}}

\* create_report: the report, its lines and a draft expense for each of them.
CreateReport ==
    /\ ~ created
    /\ \E actor \in Staff(WriteRoles), project \in accepting, values \in PettyCashReportCreate :
           /\ amount' = [l \in Line |-> IF l \in DOMAIN values THEN values[l] ELSE NULL]
           /\ expense' = [l \in Line |->
                  IF l \in DOMAIN values THEN DraftExpense(project, values[l]) ELSE NULL]
           /\ report' = [status |-> "draft", project |-> project,
                         total_amount |-> Total(amount'), created_by |-> actor]
    /\ created' = TRUE
    /\ WriteAudit
    /\ UNCHANGED <<accepting, deleted, request, lingering, edited, overlapped>>

---------------------------------------------------------------------------
\* update_report and post_report: what they make of the rows they loaded.

Owner(actor) ==
    actor = report.created_by \/ RoleOf[actor] \in {"SUPER_ADMIN", "COST_CONTROL"}

\* update_report accepts drafts, from their creator and two roles.
Editable(row) == row # NULL /\ row.status = "draft" /\ \E actor \in User : Owner(actor)

\* Mutant: only the removed lines are checked.
MayChangeRemoved(kept, lines) ==
    \A l \in lines \ kept : expense[l] # NULL => expense[l].status = "draft"

\* Every line of the report is edited or removed by an edit of the lines, and a line
\* whose expense has left draft may not be.
MayChange(kept, lines) ==
    \A l \in lines : expense[l] # NULL => expense[l].status = "draft"

\* Mutant: lines that stay keep their expense as it is.
BookedAsBefore(project, values) ==
    [l \in Line |-> IF l \in DOMAIN values THEN expense[l] ELSE NULL]

\* The expenses after an edit: lines that stay pass theirs the report's project and their
\* amount, the expenses of removed lines are deleted.
Booked(project, values) ==
    [l \in Line |->
        IF l \notin DOMAIN values \/ expense[l] = NULL THEN NULL
        ELSE [expense[l] EXCEPT !.project = project, !.amount = values[l]]]

\* Mutant: the total is computed before the lines change.
TotalBefore(values) == Total(amount)

\* _recalculate_total: the removed lines are still in report.lines.
TotalAfter(values) ==
    Total([l \in Line |-> IF l \in DOMAIN values THEN values[l] ELSE amount[l]])

Handle(w, op, newReport, newAmount, newExpense, removed) ==
    /\ request[w] = Idle
    /\ request' = [request EXCEPT ![w] =
           [op |-> op, readReport |-> report, newReport |-> newReport,
            readAmount |-> amount, newAmount |-> newAmount,
            readExpense |-> expense, newExpense |-> newExpense, removed |-> removed]]
    /\ UNCHANGED tables

\* An edit without lines changes the columns of the report alone.
UpdateHeader(w) ==
    /\ Editable(report)
    /\ \E project \in accepting :
           Handle(w, "header", [report EXCEPT !.project = project, !.total_amount = Total(amount)],
                  amount, expense, 0)

\* The lines sent stay, the others go.  A line without a known id never gets in: it is
\* flushed before it has its line_no, which is NOT NULL, and the request fails.
UpdateLines(w) ==
    LET lines == {l \in Line : amount[l] # NULL}
    IN  /\ Editable(report)
        /\ \E project \in accepting, kept \in SUBSET lines :
               /\ MayChange(kept, lines)
               /\ \E values \in [kept -> Amounts] :
                      Handle(w, "edit",
                             [report EXCEPT !.project = project,
                                            !.total_amount = TotalAfter(values)],
                             [l \in Line |-> IF l \in kept THEN values[l] ELSE NULL],
                             Booked(project, values),
                             Total([l \in Line |-> IF l \in kept THEN NULL ELSE amount[l]]))

PostReport(w) ==
    /\ Staff(WriteRoles) # {}
    /\ report # NULL
    /\ report.status = "draft"
    /\ Handle(w, "post", [report EXCEPT !.status = "posted"], amount, expense, lingering)

\* An amount stands for the whole line: the UPDATE of a line sets its columns.
WrittenAmount(current, read, new) == IF read = new THEN current ELSE new

\* project_id is a foreign key.
Commit(w) ==
    LET req == request[w]
    IN  /\ req.op \in {"header", "edit", "post"}
        /\ ~ Misses(report, req.readReport, req.newReport)
        /\ \A l \in Line :
               /\ ~ Misses(expense[l], req.readExpense[l], req.newExpense[l])
               /\ amount[l] = NULL => req.newAmount[l] \in {NULL, req.readAmount[l]}
        /\ report' = Written(report, req.readReport, req.newReport)
        /\ amount' = [l \in Line |->
               WrittenAmount(amount[l], req.readAmount[l], req.newAmount[l])]
        /\ expense' = [l \in Line |->
               Written(expense[l], req.readExpense[l], req.newExpense[l])]
        /\ report' # NULL => report'.project \notin deleted
        /\ \A l \in Line : expense'[l] # NULL => expense'[l].project \notin deleted
        /\ lingering' = req.removed
        /\ edited' = IF req.op = "edit" THEN {} ELSE edited
        /\ overlapped' = (overlapped \/ <<report, amount, expense>>
                                          # <<req.readReport, req.readAmount, req.readExpense>>)
        /\ WriteAudit
        /\ request' = [request EXCEPT ![w] = Idle]
        /\ UNCHANGED <<accepting, deleted, created>>

Rollback(w) ==
    /\ request[w] # Idle
    /\ request' = [request EXCEPT ![w] = Idle]
    /\ UNCHANGED tables

---------------------------------------------------------------------------
\* The expenses of the lines in their own router, each handler in one step.

SetExpense(l, row) ==
    /\ expense' = [expense EXCEPT ![l] = row]
    /\ WriteAudit
    /\ UNCHANGED <<report, amount, accepting, deleted, request, created, lingering, overlapped>>

EditExpense(l) ==
    /\ expense[l] # NULL
    /\ expense[l].status = "draft"
    /\ \E value \in Amounts : SetExpense(l, [expense[l] EXCEPT !.amount = value])
    /\ edited' = edited \cup {l}

\* The statuses the workflow takes an expense through, VERIFIED and HARD_LOCKED
\* counted with their neighbours.
MoveExpense(l) ==
    /\ expense[l] # NULL
    /\ \E edge \in {<<"draft", "submitted">>, <<"rejected", "submitted">>,
                    <<"submitted", "approved">>, <<"submitted", "rejected">>,
                    <<"approved", "paid">>, <<"approved", "rejected">>} :
           /\ expense[l].status = edge[1]
           /\ SetExpense(l, [expense[l] EXCEPT !.status = edge[2]])
    /\ UNCHANGED edited

\* The line stays, without an expense.
DeleteExpense(l) ==
    /\ expense[l] # NULL
    /\ expense[l].status \in {"draft", "rejected"}
    /\ SetExpense(l, NULL)
    /\ UNCHANGED edited

---------------------------------------------------------------------------
\* Projects.

\* They are archived, closed and reopened.
AdministerProject(p) ==
    /\ p \notin deleted
    /\ accepting' = IF p \in accepting THEN accepting \ {p} ELSE accepting \cup {p}
    /\ WriteAudit
    /\ UNCHANGED <<report, amount, expense, deleted, request, created, lingering, edited,
                   overlapped>>

\* delete_project loads the reports and the expenses of an archived project, whatever
\* their status.
DeleteProject(w) ==
    /\ request[w] = Idle
    /\ Staff({"SUPER_ADMIN", "MD"}) # {}
    /\ \E p \in ProjectCode \ (accepting \cup deleted) :
           request' = [request EXCEPT ![w] =
               [op |-> "delete_project", project |-> p,
                report |-> report # NULL /\ report.project = p,
                expenses |-> {l \in Line : expense[l] # NULL /\ expense[l].project = p}]]
    /\ UNCHANGED tables

\* A loaded report goes with its lines, and their expenses go or lose the line; other
\* expenses go when they were loaded and lose their project when they were not.  The
\* report's project_id is NOT NULL: one that came to the project meanwhile stops all this.
CommitDeletion(w) ==
    LET req == request[w]
    IN  /\ req.op = "delete_project"
        /\ report' = IF req.report THEN NULL ELSE report
        /\ report' # NULL => report'.project # req.project
        /\ amount' = IF req.report THEN [l \in Line |-> NULL] ELSE amount
        /\ expense' = [l \in Line |->
               IF req.report \/ l \in req.expenses \/ expense[l] = NULL THEN NULL
               ELSE IF expense[l].project = req.project THEN [expense[l] EXCEPT !.project = NULL]
               ELSE expense[l]]
        /\ accepting' = accepting \ {req.project}
        /\ deleted' = deleted \cup {req.project}
        /\ WriteAudit
        /\ request' = [request EXCEPT ![w] = Idle]
        /\ UNCHANGED <<created, lingering, edited, overlapped>>

Next ==
    \/ CreateReport
    \/ \E w \in Worker :
           \/ UpdateHeader(w) \/ UpdateLines(w) \/ PostReport(w) \/ Commit(w) \/ Rollback(w)
           \/ DeleteProject(w) \/ CommitDeletion(w)
    \/ \E l \in Line : EditExpense(l) \/ MoveExpense(l) \/ DeleteExpense(l)
    \/ \E p \in ProjectCode : AdministerProject(p)

Spec == Init /\ [][Next]_vars

---------------------------------------------------------------------------
\* The tables hold rows of their types.
TypeOK ==
    /\ report = NULL \/ report \in PettyCashReport
    /\ \A l \in Line : /\ amount[l] \in Amounts \cup {NULL}
                       /\ expense[l] = NULL \/ expense[l] \in LineExpense

\* An expense that has left draft keeps its amount and its project and is not removed
\* before it is rejected, and a posted report keeps its lines, its project and its total,
\* except by an edit of the report that loaded the expense or the report as a draft and
\* commits too late (update_report reads both without a lock), and by the deletion of a
\* project that loaded them as its own when it was archived (delete_project).
SubmittedKept ==
    [][/\ \A l \in Line :
             LET now == expense[l]
                 next == expense'[l]
             IN  now # NULL /\ now.status # "draft" /\ now # next
                 => \/ next # NULL /\ next.amount = now.amount /\ next.project = now.project
                    \/ next = NULL /\ now.status = "rejected"
                    \/ \E w \in Worker :
                           /\ request'[w] = Idle
                           /\ \/ /\ request[w].op = "edit"
                                 /\ request[w].readExpense[l].status = "draft"
                              \/ /\ request[w].op = "delete_project"
                                 /\ \/ request[w].report \/ l \in request[w].expenses
                                    \/ now.project = request[w].project
       /\ report # NULL /\ report.status = "posted"
          => \/ UNCHANGED <<report, amount>>
             \/ \E w \in Worker :
                    /\ request'[w] = Idle
                    /\ \/ /\ request[w].op \in {"header", "edit", "post"}
                          /\ request[w].readReport.status = "draft"
                       \/ request[w].op = "delete_project" /\ request[w].report]_vars

\* Rows have their types, the drafts of a report ask for what its lines say, and a line
\* never has its expense back once that was deleted: update_report passes every amount on.
ExpensesFollowLines ==
    /\ TypeOK
    /\ ~ overlapped => \A l \in Line : expense[l] # NULL =>
            /\ amount[l] # NULL
            /\ l \notin edited => expense[l].amount = amount[l]

\* The total is the sum of the lines, and of those the last edit of the lines
\* removed: _recalculate_total still sees them, the next edit forgets them.
TotalExplained ==
    ~ overlapped /\ report # NULL => report.total_amount = Total(amount) + lingering
================================================================================
