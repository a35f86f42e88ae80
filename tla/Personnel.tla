------------------------------- MODULE Personnel -------------------------------
(***************************************************************************)
(* Employees and their accounts (app/routers/hris_employees.py), and the   *)
(* changes employees ask for in their own data                             *)
(* (app/routers/hris_self_service.py).                                     *)
(***************************************************************************)
EXTENDS Accounts

CONSTANTS
    Employee,      \* ids of hris_employees
    Phone,         \* values of one changeable field
    ChangeRequest  \* ids of hris_data_change_requests

ASSUME PersonnelAssumption ==
    NULL \notin Employee \cup Phone \cup ChangeRequest /\ Phone # {}

VARIABLES
    employee,      \* [Employee -> row, or NULL]
    change         \* [ChangeRequest -> row, or NULL]

personnelVars == <<employee, change>>

\* Columns: a mail address is the name of the account it opens.
EmployeeRow ==
    [user_id : User \cup {NULL}, email : User \cup {NULL}, terminated : BOOLEAN, phone : Phone]

\* Auxiliary column over: the value the approval replaced.
EmployeeDataChangeRequest ==
    [employee : Employee, old : Phone, new : Phone,
     status : {"PENDING", "APPROVED", "REJECTED"}, over : Phone \cup {NULL}]

ASSUME EmployeeRowAssumption == NULL \notin EmployeeRow /\ NULL \notin EmployeeDataChangeRequest

_hr_roles == {"SUPER_ADMIN", "MD", "GA", "HR"}
_account_link_roles == _hr_roles \cup {"PM", "PROJECT_CONTROL"}
_account_admin_roles == {"SUPER_ADMIN", "MD"}
_ga_assignable == {"WORKER", "STAFF"}

_reviewer_roles == {"SUPER_ADMIN", "GA", "MD"}

\* require_role.
StaffOf(roles) ==
    {u \in User : CurrentUser(u) /\ effective_roles(account[u].role) \cap roles # {}}

Rows == {e \in Employee : employee[e] # NULL}
Linked == {employee[e].user_id : e \in Rows} \ {NULL}
Existing == {u \in User : account[u] # NULL}

---------------------------------------------------------------------------
\* create_employee: employee_no, nik and user_id are unique.
CreateEmployee(e) ==
    /\ StaffOf(_hr_roles) # {}
    /\ employee[e] = NULL
    /\ \E user \in {NULL} \cup (Existing \ Linked), email \in User \cup {NULL}, phone \in Phone :
           employee' = [employee EXCEPT ![e] =
               [user_id |-> user, email |-> email, terminated |-> FALSE, phone |-> phone]]
    /\ WriteAudit
    /\ UNCHANGED <<accountVars, request, change>>

\* A handler that loaded the row of an employee.  opens is the role of the account it
\* creates, disables the account it deactivates.
ChangeEmployee(w, op, e, new, opens, disables) ==
    /\ request[w] = Idle
    /\ request' = [request EXCEPT ![w] =
           [op |-> op, employee |-> e, read |-> employee[e], new |-> new,
            opens |-> opens, disables |-> disables]]
    /\ UNCHANGED <<accountVars, personnelVars, audited>>

\* link_employee_user.
LinkEmployeeUser(w) ==
    \E e \in Rows, u \in Existing \ Linked :
        /\ StaffOf(_account_link_roles) # {}
        /\ employee[e].user_id = NULL
        /\ ChangeEmployee(w, "link", e, [employee[e] EXCEPT !.user_id = u], NULL, NULL)

\* employee_from_user links the employee with the user's address, or makes a new one.
EmployeeFromUser(w) ==
    \E u \in Existing \ Linked :
        LET matches == {e \in Rows : employee[e].email = u /\ employee[e].user_id = NULL}
        IN  /\ StaffOf(_account_link_roles) # {}
            /\ \/ \E e \in matches :
                      ChangeEmployee(w, "link", e, [employee[e] EXCEPT !.user_id = u], NULL, NULL)
               \/ /\ matches = {}
                  /\ \E e \in Employee \ Rows, phone \in Phone :
                         ChangeEmployee(w, "insert", e,
                             [user_id |-> u, email |-> u, terminated |-> FALSE, phone |-> phone],
                             NULL, NULL)

\* update_employee, one column an edit: a terminated employee's account is deactivated,
\* whichever column it is.
UpdateEmployee(w) ==
    \E e \in Rows, user \in {NULL} \cup Existing, terminated \in BOOLEAN, phone \in Phone :
        LET row == employee[e]
            new == [row EXCEPT !.user_id = user, !.terminated = terminated, !.phone = phone]
        IN  /\ StaffOf(_hr_roles) # {}
            /\ \/ user # row.user_id /\ terminated = row.terminated /\ phone = row.phone
               \/ user = row.user_id /\ terminated # row.terminated /\ phone = row.phone
               \/ user = row.user_id /\ terminated = row.terminated /\ phone # row.phone
            /\ ChangeEmployee(w, "update_employee", e, new, NULL,
                   IF terminated /\ user # NULL /\ account[user].is_active THEN user ELSE NULL)

\* bulk_create_accounts for one employee: an account for its address.
BulkCreateAccounts(w) ==
    \E e \in Rows, role \in Role, actor \in StaffOf(_hr_roles) :
        LET email == employee[e].email
        IN  /\ employee[e].user_id = NULL
            /\ email # NULL
            /\ account[email] = NULL
            /\ account[actor].role \in _account_admin_roles \/ role \in _ga_assignable
            /\ ChangeEmployee(w, "bulk", e, [employee[e] EXCEPT !.user_id = email], role, NULL)

\* A Super Admin gets the preset's rows here too.
seed_user_menus(role) == [m \in Menu |-> IF m \in menu \cap Preset[role] THEN TRUE ELSE NULL]

\* Users have unique addresses, employees unique user ids.
CommitEmployee(w) ==
    LET req == request[w]
        e == req.employee
        row == Written(employee[e], req.read, req.new)
        others == {employee[o].user_id : o \in Rows \ {e}} \ {NULL}
        opened == IF req.opens = NULL THEN account
                  ELSE [account EXCEPT ![row.user_id] = NewAccount(req.opens, FALSE)]
        now == IF req.disables = NULL THEN opened
               ELSE [opened EXCEPT ![req.disables].is_active = FALSE]
    IN  /\ req.op \in {"link", "insert", "update_employee", "bulk"}
        /\ req.op = "insert" => employee[e] = NULL
        /\ req.opens # NULL => account[req.new.user_id] = NULL
        /\ row.user_id \notin others
        /\ employee' = [employee EXCEPT ![e] = row]
        /\ account' = now
        /\ access' = IF req.opens = NULL THEN access
                     ELSE [access EXCEPT ![row.user_id] = seed_user_menus(req.opens)]
        /\ epoch' = IF req.disables = NULL \/ ~ account[req.disables].is_active THEN epoch
                    ELSE [epoch EXCEPT ![req.disables] = @ + 1]
        /\ request' = Finished(w)
        /\ WriteAudit
        /\ UNCHANGED <<menu, token, raced, granted, mixed, change>>

---------------------------------------------------------------------------
\* Changes of one's own data: submit_data_change_request and approve_data_change lock
\* the employee's row, reject_data_change the request's.

Pending(e) == {r \in ChangeRequest : /\ change[r] # NULL
                                      /\ change[r].employee = e
                                      /\ change[r].status = "PENDING"}

SubmitDataChange(r) ==
    \E e \in Rows, phone \in Phone :
        /\ change[r] = NULL
        /\ employee[e].user_id # NULL
        /\ CurrentUser(employee[e].user_id)
        /\ ~ employee[e].terminated
        /\ phone # employee[e].phone
        /\ Pending(e) = {}
        /\ change' = [change EXCEPT ![r] =
               [employee |-> e, old |-> employee[e].phone, new |-> phone, status |-> "PENDING",
                over |-> NULL]]
        /\ UNCHANGED <<accountVars, request, employee, audited>>

\* Mutant: the value is not compared with the one the employee saw.
AppliesAnyway(r) == change[r].status = "PENDING"

Applies(r) ==
    /\ change[r].status = "PENDING"
    /\ employee[change[r].employee].phone = change[r].old

ApproveDataChange(r) ==
    /\ StaffOf(_reviewer_roles) # {}
    /\ change[r] # NULL
    /\ Applies(r)
    /\ LET e == change[r].employee
       IN  /\ employee' = [employee EXCEPT ![e].phone = change[r].new]
           /\ change' = [change EXCEPT ![r].status = "APPROVED", ![r].over = employee[e].phone]
    /\ UNCHANGED <<accountVars, request, audited>>

RejectDataChange(r) ==
    /\ StaffOf(_reviewer_roles) # {}
    /\ change[r] # NULL
    /\ change[r].status = "PENDING"
    /\ change' = [change EXCEPT ![r].status = "REJECTED"]
    /\ UNCHANGED <<accountVars, request, employee, audited>>

\* At the start there is one employee, with an account or without.
PersonnelInit ==
    /\ \E e \in Employee, user \in {NULL} \cup Existing :
           employee = [o \in Employee |->
               IF o = e THEN [user_id |-> user, email |-> user, terminated |-> FALSE,
                              phone |-> CHOOSE p \in Phone : TRUE]
               ELSE NULL]
    /\ change = [r \in ChangeRequest |-> NULL]

\* Requests about the employees and their accounts, and requests about their data.
PeopleNext ==
    \/ \E e \in Employee : CreateEmployee(e)
    \/ \E w \in Worker : \/ LinkEmployeeUser(w) \/ EmployeeFromUser(w) \/ UpdateEmployee(w)
                         \/ BulkCreateAccounts(w) \/ CommitEmployee(w)
DataNext ==
    \/ \E w \in Worker : UpdateEmployee(w) \/ CommitEmployee(w)
    \/ \E r \in ChangeRequest : \/ SubmitDataChange(r) \/ ApproveDataChange(r)
                                \/ RejectDataChange(r)

---------------------------------------------------------------------------
PersonnelTypeOK ==
    /\ employee \in [Employee -> EmployeeRow \cup {NULL}]
    /\ change \in [ChangeRequest -> EmployeeDataChangeRequest \cup {NULL}]

\* An approved change replaced the value the employee saw when it was asked for,
\* whatever update_employee did in between, and no employee waits for two changes of one
\* field (submit_data_change_request, approve_data_change).
ChangesReviewed ==
    /\ PersonnelTypeOK
    /\ \A r \in ChangeRequest : change[r] # NULL =>
           /\ change[r].status = "APPROVED" => change[r].over = change[r].old
           /\ change[r].status = "PENDING" => Pending(change[r].employee) = {r}
================================================================================
