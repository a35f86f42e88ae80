------------------------------ MODULE Timekeeping ------------------------------
(***************************************************************************)
(* Leave and attendance of one employee under one calendar, by the same    *)
(* workers.                                                                *)
(***************************************************************************)
EXTENDS Leave, Attendance

vars == <<holidays, employed, request, audited, leaveVars, attendanceVars>>

Init ==
    /\ holidays = {}
    /\ employed = TRUE
    /\ request = [w \in Worker |-> Idle]
    /\ audited = 0
    /\ LeaveInit
    /\ AttendanceInit

\* update_employee and the end of an employment.
ChangeEmployment ==
    /\ employed' = ~ employed
    /\ WriteAudit
    /\ UNCHANGED <<holidays, request, leaveVars, attendanceVars>>

\* The calendar and the requests under way are common to both.
Common ==
    \/ /\ \E d \in Day : ChangeHoliday(d)
       /\ steady' = FALSE
       /\ UNCHANGED <<leave, balance, certificate, uploaded, raced, attendanceVars>>
    \/ /\ \E w \in Worker : Rollback(w)
       /\ UNCHANGED <<leaveVars, attendanceVars>>

\* Bound: a behaviour makes requests of one kind.  The two share no row, so that one
\* with both kinds interleaves two of these.
OnlyLeave ==
    /\ \A d \in Day : attendance[d] = NULL
    /\ \A o \in Overtime : overtime[o] = NULL
    /\ located
    /\ \A w \in Worker : request[w].op # "clock_in"
OnlyAttendance ==
    /\ Requests = {}
    /\ uploaded = {}
    /\ \A t \in Type, y \in Year : balance[t][y] = NULL
    /\ \A w \in Worker : request[w].op \in {"idle", "clock_in"}

Next ==
    \/ OnlyLeave /\ LeaveNext /\ UNCHANGED attendanceVars
    \/ OnlyAttendance /\ AttendanceNext /\ UNCHANGED leaveVars
    \/ Common
    \/ ChangeEmployment

Spec == Init /\ [][Next]_vars
================================================================================
