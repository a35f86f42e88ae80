------------------------------ MODULE Receivables ------------------------------
(***************************************************************************)
(* The rows of app/routers/receivables.py: what its handlers ask of a      *)
(* project and of an account receivable, and what they assign.             *)
(* ProjectLedger runs the handlers.                                        *)
(***************************************************************************)
EXTENDS Functions, Projects

CONSTANTS Invoiced, Payments

ASSUME InvoiceAssumption == Invoiced \subseteq Nat \ {0} /\ Payments \subseteq Nat

CreateRoles == {"SUPER_ADMIN", "MD", "FINANCE"}
ConfirmRoles == {"SUPER_ADMIN", "MD"}

\* A row of account_receivables.
AccountReceivable ==
    [project : ProjectCode, amount : Invoiced, actual_payment : Payments \cup {NULL},
     remaining_amount : Nat, status : {"draft", "confirmed"}, confirmed_by : User \cup {NULL}]

ASSUME ReceivableAssumption == NULL \notin AccountReceivable

PaidAmount(payment) == IF payment = NULL THEN 0 ELSE payment

\* _remaining_amount_expr, which the list and the summary compute for themselves.
Outstanding(row) ==
    IF PaidAmount(row.actual_payment) > row.amount THEN 0
    ELSE row.amount - PaidAmount(row.actual_payment)

\* receivables_summary of a table of rows.
receivables_summary(rows) ==
    [total_invoiced |-> SumFunction([r \in DOMAIN rows |-> rows[r].amount]),
     total_paid |-> SumFunction([r \in DOMAIN rows |-> PaidAmount(rows[r].actual_payment)]),
     total_outstanding |-> SumFunction([r \in DOMAIN rows |-> Outstanding(rows[r])])]

Invoice(project, amount, payment) ==
    [project |-> project, amount |-> amount, actual_payment |-> payment,
     remaining_amount |-> amount - PaidAmount(payment), status |-> "draft",
     confirmed_by |-> NULL]

\* Mutant: a confirmed row keeps its amount only.
MayEditProject(row, project, amount, payment) ==
    /\ row.status = "confirmed" => amount = row.amount
    /\ PaidAmount(payment) <= amount

\* The edits update_receivable accepts: a confirmed row keeps its project and amount.
MayEdit(row, project, amount, payment) ==
    /\ row.status = "confirmed" => project = row.project /\ amount = row.amount
    /\ PaidAmount(payment) <= amount

\* Mutant: the remaining amount is only computed when the payment changes.
EditedPayment(row, project, amount, payment) ==
    [row EXCEPT !.project = project, !.amount = amount, !.actual_payment = payment,
                !.remaining_amount = IF payment = row.actual_payment THEN @
                                     ELSE amount - PaidAmount(payment)]

Edited(row, project, amount, payment) ==
    [row EXCEPT !.project = project, !.amount = amount, !.actual_payment = payment,
                !.remaining_amount = amount - PaidAmount(payment)]

Confirmed(row, actor) == [row EXCEPT !.status = "confirmed", !.confirmed_by = actor]
================================================================================
