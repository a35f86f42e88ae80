------------------------------- MODULE Workforce -------------------------------
(***************************************************************************)
(* Accounts, employees, applicants and salary assignments, which share     *)
(* the tables of users and employees.                                      *)
(***************************************************************************)
EXTENDS Recruitment, SalaryStructure

\* Bound: what a behaviour is about.  Handlers of two subjects meet in rows that one of
\* them only reads.
VARIABLE subject

vars == <<accountVars, request, audited, personnelVars, recruitmentVars, salaryVars, subject>>

Init ==
    /\ AccountInit
    /\ PersonnelInit
    /\ RecruitmentInit
    /\ SalaryInit
    /\ request = [w \in Worker |-> Idle]
    /\ audited = 0
    /\ subject \in {"sessions", "menus", "people", "data", "recruitment", "salaries"}
    /\ subject = "sessions" => Cardinality(ActiveSuperAdmins) > 1
    /\ subject \in {"sessions", "menus", "salaries"} => Linked = {}

Next ==
    /\ \/ subject = "sessions" /\ SessionNext /\ UNCHANGED <<personnelVars, recruitmentVars>>
       \/ subject = "menus" /\ MenuNext /\ UNCHANGED <<personnelVars, recruitmentVars>>
       \/ subject = "people" /\ PeopleNext /\ UNCHANGED recruitmentVars
       \/ subject = "data" /\ DataNext /\ UNCHANGED recruitmentVars
       \/ subject = "recruitment" /\ RecruitmentNext
       \/ subject = "salaries" /\ SalaryNext /\ UNCHANGED recruitmentVars
       \/ (\E w \in Worker : Rollback(w)) /\ UNCHANGED <<personnelVars, recruitmentVars, salaryVars>>
    /\ subject # "salaries" => UNCHANGED salaryVars
    /\ UNCHANGED subject

Spec == Init /\ [][Next]_vars
================================================================================
