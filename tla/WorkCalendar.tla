------------------------------ MODULE WorkCalendar ------------------------------
(***************************************************************************)
(* What leave and attendance have in common: the days, the holiday         *)
(* calendar, one employee who may be terminated and reinstated, and the    *)
(* workers that run the handlers of app/routers/hris_attendance.py.        *)
(***************************************************************************)
EXTENDS Naturals, FiniteSets, FiniteSetsExt, Staffing

CONSTANTS
    Day,           \* dates, as numbers
    Weekend,       \* Saturdays and Sundays among them
    EmployeeUser,  \* the user the employee's profile belongs to
    MaxAudit       \* bound: commits that may be repeated without end

ASSUME CalendarAssumption == Day \subseteq Nat /\ Weekend \subseteq Day /\ EmployeeUser \in User

VARIABLES
    holidays,      \* the dates of hris_holiday_calendar
    employed,      \* the employee's status is not TERMINATED
    request,       \* [Worker -> the handler it runs]
    audited        \* number of those commits

WriteAudit == audited < MaxAudit /\ audited' = audited + 1

_hr_roles == {"SUPER_ADMIN", "MD", "GA", "HR"}

\* The employee, or a user of the HR roles for the employee: ensure_employee_can_use_self_service.
Admitted(user) == employed /\ (user = EmployeeUser \/ user \in Staff(_hr_roles))

\* Another handler committed: the ones under way have read stale rows.
Overtaken(requests) ==
    [w \in Worker |-> IF requests[w] = Idle THEN Idle ELSE [requests[w] EXCEPT !.late = TRUE]]

Finished(w) == [request EXCEPT ![w] = Idle]

\* create_holiday, delete_holiday.
ChangeHoliday(d) ==
    /\ Staff({"SUPER_ADMIN", "GA", "HR"}) # {}
    /\ holidays' = IF d \in holidays THEN holidays \ {d} ELSE holidays \cup {d}
    /\ WriteAudit
    /\ UNCHANGED <<employed, request>>

\* A handler ends with an exception, and its transaction is rolled back.
Rollback(w) ==
    /\ request[w] # Idle
    /\ request' = Finished(w)
    /\ UNCHANGED <<holidays, employed, audited>>
================================================================================
