------------------------------- MODULE Attendance -------------------------------
(***************************************************************************)
(* The employee's attendance records, one a day, and the overtime requests *)
(* that are linked to them.  A clock-in checks, then awaits the selfie and *)
(* only then writes.  An overtime submission holds FOR UPDATE on the row   *)
(* of the employee, which the foreign key of a new attendance record has   *)
(* to share: the two exclude each other, and the submission is one step.   *)
(***************************************************************************)
EXTENDS Sequences, WorkCalendar

CONSTANTS
    Hours,         \* hours between clock-in and clock-out
    MaxOvertime    \* bound: overtime requests

Overtime == 1..MaxOvertime

VARIABLES
    attendance,    \* [Day -> attendance record, or NULL]
    overtime,      \* [Overtime -> overtime request, or NULL]
    located,       \* the employee is assigned an active work location
    unchecked      \* auxiliary: days opened by hand or by a clock-in that was overtaken

attendanceVars == <<attendance, overtime, located, unchecked>>

OvertimeRequest ==
    [date : Day, status : {"SUBMITTED", "APPROVED", "REJECTED"}, linked : BOOLEAN]

\* hours: regular, and overtime on weekdays, weekends and holidays; NULL before clock_out.
AttendanceRecord ==
    [clock_in : BOOLEAN, clock_out : BOOLEAN, hours : (Nat \X Nat \X Nat \X Nat) \cup {NULL}]

ASSUME AttendanceAssumption ==
    /\ Hours \subseteq Nat
    /\ MaxOvertime \in Nat
    /\ NULL \notin OvertimeRequest
    /\ NULL \notin AttendanceRecord

AttendanceInit ==
    /\ attendance = [d \in Day |-> NULL]
    /\ overtime = [o \in Overtime |-> NULL]
    /\ located = TRUE
    /\ unchecked = {}

calculate_overtime(elapsed, weekend, holiday) ==
    LET total == IF elapsed > 24 THEN 24 ELSE elapsed
    IN  IF holiday THEN <<0, 0, 0, total>>
        ELSE IF weekend THEN <<0, 0, total, 0>>
        ELSE IF total > 8 THEN <<8, total - 8, 0, 0>>
        ELSE <<total, 0, 0, 0>>

Split(d, elapsed) == calculate_overtime(elapsed, d \in Weekend, d \in holidays)

OpenAt(d) == attendance[d] # NULL /\ attendance[d].clock_in /\ ~ attendance[d].clock_out

OpenDays == {d \in Day : OpenAt(d)}

\* Mutant: an approved request is not linked any more.
LinkedWaiting(d) ==
    [o \in Overtime |-> IF overtime[o] # NULL /\ overtime[o].date = d
                           /\ overtime[o].status = "SUBMITTED"
                        THEN [overtime[o] EXCEPT !.linked = TRUE] ELSE overtime[o]]

\* link_overtime_requests_to_attendance.
Linked(d) ==
    [o \in Overtime |-> IF overtime[o] # NULL /\ overtime[o].date = d
                        THEN [overtime[o] EXCEPT !.linked = TRUE] ELSE overtime[o]]

\* Whether a place is within the radius of the assigned location.
check_location(place) == located /\ place = "site"

\* Mutant: a shift left open on another day does not keep a new one from starting.
MayClockInToday(d, place) ==
    /\ employed
    /\ attendance[d] # NULL => ~ attendance[d].clock_in /\ ~ attendance[d].clock_out
    /\ check_location(place)

\* Whether the employee may clock in on day d: no shift is open, d is not completed.
MayClockIn(d, place) ==
    /\ employed
    /\ OpenDays = {}
    /\ attendance[d] # NULL => ~ attendance[d].clock_out
    /\ check_location(place)

\* clock_in up to await selfie.read(); the date is the one at the work location, or
\* else in the browser, so that it need not be the day after the last one.
ClockIn(w) ==
    \E user \in User, d \in Day, place \in {"site", "elsewhere"} :
        /\ request[w] = Idle
        /\ Admitted(user)
        /\ MayClockIn(d, place)
        /\ request' = [request EXCEPT ![w] = [op |-> "clock_in", date |-> d, late |-> FALSE,
                                              found |-> attendance[d] # NULL]]
        /\ UNCHANGED <<holidays, employed, audited, attendanceVars>>

\* The rest of it.  A record inserted by another session meanwhile fails the INSERT.
CommitClockIn(w) ==
    LET req == request[w]
    IN  /\ req.op = "clock_in"
        /\ ~ req.found => attendance[req.date] = NULL
        /\ attendance' = [attendance EXCEPT ![req.date] =
               IF req.found THEN [@ EXCEPT !.clock_in = TRUE]
               ELSE [clock_in |-> TRUE, clock_out |-> FALSE, hours |-> NULL]]
        /\ overtime' = Linked(req.date)
        /\ unchecked' = IF req.late THEN unchecked \cup {req.date} ELSE unchecked
        /\ request' = Overtaken(Finished(w))
        /\ UNCHANGED <<holidays, employed, audited, located>>

\* clock_out closes the latest open shift; of two at once the later one's time stays.
ClockOut ==
    \E user \in User, elapsed \in Hours :
        LET d == Max(OpenDays)
        IN  /\ Admitted(user)
            /\ OpenDays # {}
            /\ attendance' = [attendance EXCEPT ![d].clock_out = TRUE,
                                                ![d].hours = Split(d, elapsed)]
            /\ UNCHANGED <<holidays, employed, audited, request, overtime, located, unchecked>>

\* What is entered by hand: one time, both or none.  Hours given instead of times
\* are left out.
AttendanceManualCreate == [clock_in : BOOLEAN, clock_out : BOOLEAN, elapsed : Hours]

\* create_attendance_manual, for any day without a record; the unique key on
\* employee and date decides between two.
CreateManual(d) ==
    /\ Staff(_hr_roles) # {}
    /\ attendance[d] = NULL
    /\ \E body \in AttendanceManualCreate :
           attendance' = [attendance EXCEPT ![d] =
               [clock_in |-> body.clock_in, clock_out |-> body.clock_out,
                hours |-> IF body.clock_in /\ body.clock_out THEN Split(d, body.elapsed)
                          ELSE NULL]]
    /\ overtime' = Linked(d)
    /\ unchecked' = IF OpenAt(d)' THEN unchecked \cup {d} ELSE unchecked
    /\ request' = Overtaken(request)
    /\ WriteAudit
    /\ UNCHANGED <<holidays, employed, located>>

\* submit_overtime_request, with the employee's row locked.
SubmitOvertime(d) ==
    LET free == {o \in Overtime : overtime[o] = NULL}
    IN  /\ employed
        /\ \A o \in Overtime \ free : overtime[o].date = d => overtime[o].status = "REJECTED"
        /\ free # {}
        /\ overtime' = [overtime EXCEPT ![Min(free)] =
               [date |-> d, status |-> "SUBMITTED", linked |-> attendance[d] # NULL]]
        /\ UNCHANGED <<holidays, employed, audited, request, attendance, located, unchecked>>

\* approve_overtime_request and reject_overtime_request, with the request locked.
DecideOvertime(o) ==
    /\ Staff(_hr_roles) # {}
    /\ overtime[o] # NULL
    /\ overtime[o].status = "SUBMITTED"
    /\ \/ overtime' = [overtime EXCEPT ![o].status = "APPROVED",
                           ![o].linked = @ \/ attendance[overtime[o].date] # NULL]
       \/ overtime' = [overtime EXCEPT ![o].status = "REJECTED"]
    /\ UNCHANGED <<holidays, employed, audited, request, attendance, located, unchecked>>

\* assign_employee_work_location, update_work_location.
ChangeLocation ==
    /\ Staff(_hr_roles) # {}
    /\ located' = ~ located
    /\ WriteAudit
    /\ UNCHANGED <<holidays, employed, request, attendance, overtime, unchecked>>

AttendanceNext ==
    \/ \E w \in Worker : ClockIn(w) \/ CommitClockIn(w)
    \/ \E d \in Day : CreateManual(d) \/ SubmitOvertime(d)
    \/ \E o \in Overtime : DecideOvertime(o)
    \/ ClockOut
    \/ ChangeLocation

---------------------------------------------------------------------------
\* Rows have their types, a clock-in does not open a second shift unless another session
\* opened one while it awaited the selfie, and the records made by hand, which nothing
\* checks, aside.
OneOpenShift ==
    /\ \A d \in Day : attendance[d] = NULL \/ attendance[d] \in AttendanceRecord
    /\ Cardinality(OpenDays \ unchecked) <= 1

\* However submissions, decisions, clock-ins and manual entries are ordered, an
\* overtime request is linked to the record of its day once that exists, which is what
\* payroll pays it by, and a day has at most one request that is not rejected.
OvertimeLinked ==
    \A o \in Overtime : overtime[o] # NULL =>
        /\ overtime[o] \in OvertimeRequest
        /\ overtime[o].linked <=> attendance[overtime[o].date] # NULL
        /\ \A p \in Overtime \ {o} : overtime[p] # NULL /\ overtime[p].date = overtime[o].date
               => "REJECTED" \in {overtime[o].status, overtime[p].status}
================================================================================
