---------------------------- MODULE SalaryStructure ----------------------------
(***************************************************************************)
(* The salary assignments of the employees (app/routers/hris_payroll.py):  *)
(* an amount for a salary component from a day on, until another day or    *)
(* without an end.  create_salary_assignment looks for overlapping ones    *)
(* without a lock; payroll takes those in force at the end of a month.     *)
(***************************************************************************)
EXTENDS Personnel

CONSTANTS
    Assignment,    \* ids of hris_salary_assignments
    Component,     \* ids of hris_salary_components
    PayDay         \* dates

ASSUME SalaryAssumption == NULL \notin Assignment /\ PayDay \subseteq Nat

VARIABLES
    assignment,    \* [Assignment -> row, or NULL]
    crossed        \* auxiliary: assignments another one was created beside

salaryVars == <<assignment, crossed>>

\* Columns; the amount is left out.
SalaryAssignment ==
    [employee : Employee, component : Component, first : PayDay, last : PayDay \cup {NULL}]

\* validate_effective_range.
SalaryAssignmentCreate ==
    {row \in SalaryAssignment : row.last # NULL => row.last >= row.first}

ASSUME AssignmentRowAssumption == NULL \notin SalaryAssignmentCreate

Assigned == {a \in Assignment : assignment[a] # NULL}

\* Mutant: an assignment without an end is not looked at.
OverlappingEnded(row) ==
    {a \in Assigned :
        LET other == assignment[a]
        IN  /\ <<other.employee, other.component>> = <<row.employee, row.component>>
            /\ row.last # NULL => other.first <= row.last
            /\ other.last # NULL
            /\ other.last >= row.first}

\* What the query for overlap finds.
Overlapping(row) ==
    {a \in Assigned :
        LET other == assignment[a]
        IN  /\ <<other.employee, other.component>> = <<row.employee, row.component>>
            /\ row.last # NULL => other.first <= row.last
            /\ other.last # NULL => other.last >= row.first}

\* create_salary_assignment up to its commit.
CreateAssignment(w) ==
    /\ StaffOf({"SUPER_ADMIN", "MD"}) # {}
    /\ request[w] = Idle
    /\ Assigned # Assignment
    /\ \E row \in SalaryAssignmentCreate :
           /\ row.employee \in Rows
           /\ Overlapping(row) = {}
           /\ request' = [request EXCEPT ![w] = [op |-> "assign", row |-> row, late |-> FALSE]]
    /\ UNCHANGED <<accountVars, personnelVars, salaryVars, audited>>

\* uq_salary_assignment_effective_start: two may not start on one day.
CommitAssignment(w) ==
    LET row == request[w].row
        start(r) == <<r.employee, r.component, r.first>>
        new == CHOOSE a \in Assignment \ Assigned : TRUE
    IN  /\ request[w].op = "assign"
        /\ Assigned # Assignment
        /\ \A a \in Assigned : start(assignment[a]) # start(row)
        /\ assignment' = [assignment EXCEPT ![new] = row]
        /\ crossed' = IF request[w].late THEN crossed \cup {new} ELSE crossed
        /\ request' = [v \in Worker |->
               IF v = w THEN Idle
               ELSE IF request[v].op = "assign" THEN [request[v] EXCEPT !.late = TRUE]
               ELSE request[v]]
        /\ UNCHANGED <<accountVars, personnelVars, audited>>

DeleteAssignment(a) ==
    /\ StaffOf({"SUPER_ADMIN", "MD"}) # {}
    /\ assignment' = [assignment EXCEPT ![a] = NULL]
    /\ crossed' = crossed \ {a}
    /\ UNCHANGED <<accountVars, personnelVars, request, audited>>

SalaryInit ==
    /\ assignment = [a \in Assignment |-> NULL]
    /\ crossed = {}

SalaryNext ==
    \/ \E w \in Worker : CreateAssignment(w) \/ CommitAssignment(w)
    \/ \E a \in Assigned : DeleteAssignment(a)

---------------------------------------------------------------------------
\* The assignments a payroll as of the day pays.
_load_salary_assignments(e, day) ==
    {a \in Assigned : /\ assignment[a].employee = e
                      /\ assignment[a].first <= day
                      /\ assignment[a].last # NULL => assignment[a].last >= day}

SalaryTypeOK == assignment \in [Assignment -> SalaryAssignmentCreate \cup {NULL}]

\* On no day does a payroll find two assignments of one component for an employee, with
\* or without an end, unless one was created while another session created one
\* (create_salary_assignment).
ComponentsPaidOnce ==
    /\ SalaryTypeOK
    /\ \A e \in Rows, day \in PayDay :
           \A a, b \in _load_salary_assignments(e, day) \ crossed :
               a # b => assignment[a].component # assignment[b].component
================================================================================
