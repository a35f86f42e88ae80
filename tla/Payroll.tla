-------------------------------- MODULE Payroll --------------------------------
(***************************************************************************)
(* The payroll periods of one year, the run of every employee in each, the *)
(* expenses that posting books, and the exports made from the runs         *)
(* (app/routers/hris_payroll.py, app/hris_payroll_service.py).             *)
(***************************************************************************)
EXTENDS PayrollTax, Staffing

CONSTANTS
    Month,         \* months that get a period
    Employee,
    PtkpStatus,    \* [Employee -> PTKP status]
    Joined,        \* [Employee -> month of joining, counted from this year's January]
    Structure,     \* salary assignments in force at the month's end: sets of [type, taxable, amount]
    Overtime,      \* overtime of a month: [weekday, weekend, holiday, approved]
    Calculation,   \* parameters of calculate_period: [method, include_thr]
    Adjustment,    \* bodies of adjust_run: [gross, thr, method], NULL where not sent
    MaxAudit       \* bound: audit records of calculations, adjustments, unlocks, end
                   \* dates and cost codes

PPh21Method == {"GROSS_UP", "NETTO"}

\* A line of the salary structure: the type and taxability of its component, the amount.
SalaryLine ==
    [type : {"BASIC", "ALLOWANCE", "DEDUCTION", "BPJS", "TAX"}, taxable : BOOLEAN, amount : Nat]

ASSUME MonthAssumption == Month \subseteq 1..12 /\ NULL \notin Month
ASSUME EmployeeAssumption ==
    IsFiniteSet(Employee) /\ PtkpStatus \in [Employee -> DOMAIN PTKP] /\ Joined \in [Employee -> Int]
ASSUME StructureAssumption ==
    \A lines \in Structure : IsFiniteSet(lines) /\ lines \subseteq SalaryLine
ASSUME BodyAssumption ==
    /\ Overtime \subseteq [weekday : Nat, weekend : Nat, holiday : Nat, approved : Nat]
    /\ Calculation \subseteq [method : PPh21Method, include_thr : BOOLEAN]
    /\ Adjustment \subseteq [gross : Nat \cup {NULL}, thr : Nat \cup {NULL},
                            method : PPh21Method \cup {NULL}]

VARIABLES
    period,        \* [Month -> status of the period, or NULL before it is created]
    run,           \* [Month -> [Employee -> payroll run, or NULL]]
    booked,        \* [Month -> [Employee -> amounts of the expenses posting created]]
    ends,          \* [Employee -> month of the end date, or NULL]
    personnel,     \* whether some PERSONNEL cost code is active
    request,       \* [Worker -> the handler it runs]
    orderly,       \* auxiliary: no run was written after one of a later month
    overlapped,    \* auxiliary: some commit overlapped another one
    audited        \* number of those audit records

tables == <<period, run, booked, ends, personnel, orderly, overlapped, audited>>
vars == <<tables, request>>

HR_ROLES == {"SUPER_ADMIN", "MD"}
FINANCE_ROLES == {"SUPER_ADMIN", "MD", "FINANCE"}
PayrollStatus == {"OPEN", "LOCKED", "POSTED"}

\* snapshot is the column components_snapshot; expense is a position in booked, slip
\* says that the run has a payslip.
PayrollRun ==
    [gross : Nat, thr : Nat, method : PPh21Method, tax : Int, net : Nat,
     snapshot : [manual_bpjs : Nat, manual_tax : Nat, contribution : Nat, taxable : Nat,
                 allowance : Nat],
     expense : Nat \cup {NULL}, slip : BOOLEAN]

ASSUME PayrollAssumption == NULL \notin Nat \cup PayrollStatus \cup PayrollRun

Init ==
    /\ period = [m \in Month |-> NULL]
    /\ run = [m \in Month |-> [e \in Employee |-> NULL]]
    /\ booked = [m \in Month |-> [e \in Employee |-> <<>>]]
    /\ ends = [e \in Employee |-> NULL]
    /\ personnel \in BOOLEAN
    /\ request = [w \in Worker |-> Idle]
    /\ orderly = TRUE
    /\ overlapped = FALSE
    /\ audited = 0

WriteAudit == audited < MaxAudit /\ audited' = audited + 1

---------------------------------------------------------------------------
\* What the service computes.

eligible_employees(m) ==
    {e \in Employee : Joined[e] <= m /\ (ends[e] # NULL => ends[e] >= m)}

validate_period_complete(m) ==
    /\ {e \in Employee : run[m][e] # NULL} = eligible_employees(m)
    /\ eligible_employees(m) # {}

Sum(lines, types) ==
    SumFunction([l \in {l \in lines : l.type \in types} |-> l.amount])

\* _validate_salary_assignments, and the deductions stay below the earnings.
Payable(lines) ==
    /\ Cardinality({l \in lines : l.type = "BASIC"}) = 1
    /\ \A l \in lines : l.amount > 0
    /\ Sum(lines, {"BASIC", "ALLOWANCE"}) >= Sum(lines, {"DEDUCTION"})

\* Mutant: only posted months count as prior ones.
PriorPosted(e, m) == {k \in Month : k < m /\ run[k][e] # NULL /\ period[k] = "POSTED"}

\* prior_tax_context: the earlier runs of the year, whatever the status of their period.
Prior(e, m) == {k \in Month : k < m /\ run[k][e] # NULL}

prior_tax_context(e, m) ==
    LET total(item) == SumFunction([k \in Prior(e, m) |-> run[k][e].snapshot[item]])
    IN  [gross |-> total("taxable"), contributions |-> total("contribution"),
         tax |-> SumFunction([k \in Prior(e, m) |-> run[k][e].tax])]

\* The allowance and the tax: TER, or the year's reconciliation in the final period.
calculate_period_tax(e, m, taxable, contribution, method) ==
    LET status == PtkpStatus[e]
        prior == prior_tax_context(e, m)
        gross == prior.gross + taxable
        contributions == prior.contributions + contribution
    IN  IF m = 12 \/ ends[e] = m
        THEN IF method = "GROSS_UP"
             THEN calculate_pph21_final_gross_up(gross, prior.tax, status, contributions)
             ELSE <<0, calculate_pph21_final_period(gross, prior.tax, status, contributions)>>
        ELSE IF method = "GROSS_UP"
             THEN calculate_pph21_gross_up(taxable, status)
             ELSE <<0, calculate_pph21_ter(taxable, status)>>

\* The columns of a run that a calculation or an adjustment fills in.
Filled(row, e, m, gross, thr, method, taxable) ==
    LET bpjs == calculate_bpjs(gross)
        old == row.snapshot
        contribution == bpjs.jht_employee + bpjs.jp_employee + old.manual_bpjs
        tax == calculate_period_tax(e, m, taxable, contribution, method)
    IN  [row EXCEPT !.gross = gross, !.thr = thr, !.method = method, !.tax = tax[2],
                    !.net = calculate_net_pay(gross, tax[1], contribution + bpjs.kes_employee,
                                              tax[2] + old.manual_tax, thr),
                    !.snapshot = [old EXCEPT !.contribution = contribution,
                                             !.taxable = taxable + tax[1],
                                             !.allowance = tax[1]]]

\* include_thr: a month's basic, in proportion for those with less than a year.
THR(basic, months) == IF months >= 12 THEN basic ELSE HalfEven(basic * months, 12)

\* The hours of attendance records that have an approved request, up to the planned ones.
_load_approved_overtime(overtime) ==
    cap_overtime_hours(overtime.weekday, overtime.weekend, overtime.holiday, overtime.approved)

_calculate_employee_run(e, m, lines, overtime, method, include_thr) ==
    LET old == run[m][e]
        basic == Sum(lines, {"BASIC"})
        overtime_pay == calculate_overtime_pay(basic, _load_approved_overtime(overtime))
        thr == IF include_thr THEN THR(basic, m - Joined[e] + 1) ELSE 0
        row == [gross |-> 0, thr |-> 0, method |-> method, tax |-> 0, net |-> 0,
                snapshot |-> [manual_bpjs |-> Sum(lines, {"BPJS"}),
                              manual_tax |-> Sum(lines, {"TAX"}),
                              contribution |-> 0, taxable |-> 0, allowance |-> 0],
                expense |-> IF old = NULL THEN NULL ELSE old.expense,
                slip |-> IF old = NULL THEN FALSE ELSE old.slip]
    IN  Filled(row, e, m,
               Sum(lines, {"BASIC", "ALLOWANCE"}) - Sum(lines, {"DEDUCTION"}) + overtime_pay,
               thr, method,
               Sum({l \in lines : l.taxable}, {"BASIC", "ALLOWANCE"}) + overtime_pay + thr)

\* Mutant: only posted periods are looked at.
HasThrPosted(e, m) ==
    \E k \in Month \ {m} : period[k] = "POSTED" /\ run[k][e] # NULL /\ run[k][e].thr > 0

\* _ensure_thr_not_duplicated, and the same check in adjust_run.
HasThr(e, m) == \E k \in Month \ {m} : run[k][e] # NULL /\ run[k][e].thr > 0

---------------------------------------------------------------------------
\* The handlers of a period.  Each loads the period and the runs of the month.

\* late: another commit changed what the session has read, since it did.
Overtaken(requests) ==
    [v \in Worker |-> IF requests[v] = Idle THEN Idle ELSE [requests[v] EXCEPT !.late = TRUE]]

Handle(w, op, m, status, runs) ==
    /\ request[w] = Idle
    /\ request' = [request EXCEPT ![w] =
           [op |-> op, month |-> m, status |-> status, runs |-> runs,
            readStatus |-> period[m], readRuns |-> run[m], late |-> FALSE]]
    /\ UNCHANGED tables

CreatePeriod(m) ==
    /\ Staff(HR_ROLES) # {}
    /\ period[m] = NULL
    /\ period' = [period EXCEPT ![m] = "OPEN"]
    /\ UNCHANGED <<run, booked, ends, personnel, request, orderly, overlapped, audited>>

\* The runs a calculation deletes: of those whose employment has ended since.
StaleRuns(m) == {e \in Employee \ eligible_employees(m) : run[m][e] # NULL}

CalculatePeriod(w, m) ==
    /\ Staff(HR_ROLES) # {}
    /\ period[m] = "OPEN"
    /\ \A e \in StaleRuns(m) : run[m][e].expense = NULL
    /\ \E query \in Calculation,
          lines \in [eligible_employees(m) -> {s \in Structure : Payable(s)}],
          overtime \in [eligible_employees(m) -> Overtime] :
           /\ query.include_thr => \A e \in eligible_employees(m) : ~ HasThr(e, m)
           /\ Handle(w, "calculate", m, "OPEN",
                     [e \in Employee |->
                         IF e \in eligible_employees(m)
                         THEN _calculate_employee_run(e, m, lines[e], overtime[e], query.method,
                                                      query.include_thr)
                         ELSE NULL])

\* Mutant: the period's status is not checked.
MayAdjustAny(m) == TRUE

MayAdjust(m) == period[m] = "OPEN"

\* The whole adjusted gross is taxable; the earlier taxable part is not kept.
AdjustRun(w, m, e) ==
    /\ Staff(FINANCE_ROLES) # {}
    /\ run[m][e] # NULL
    /\ MayAdjust(m)
    /\ \E body \in Adjustment :
           LET sent(field) == IF body[field] = NULL THEN run[m][e][field] ELSE body[field]
           IN  /\ body.thr \notin {NULL, 0} => ~ HasThr(e, m)
               /\ Handle(w, "adjust", m, period[m],
                         [run[m] EXCEPT ![e] =
                             Filled(@, e, m, sent("gross"), sent("thr"), sent("method"),
                                    sent("gross") + sent("thr"))])

LockPeriod(w, m) ==
    /\ Staff(HR_ROLES) # {}
    /\ period[m] = "OPEN"
    /\ validate_period_complete(m)
    /\ Handle(w, "lock", m, "LOCKED", run[m])

UnlockPeriod(w, m) ==
    /\ Staff(HR_ROLES) # {}
    /\ period[m] = "LOCKED"
    /\ Handle(w, "unlock", m, "OPEN", run[m])

\* The expenses get their ids, and the runs refer to them, when the post commits.  The
\* payslips are not loaded with the runs.
PostPeriod(w, m) ==
    /\ Staff(FINANCE_ROLES) # {}
    /\ period[m] = "LOCKED"
    /\ validate_period_complete(m)
    /\ personnel
    /\ Handle(w, "post", m, "POSTED", run[m])

\* The loop of post_period queries the payslip of each run, and adds it if there is none.
FindPayslip(w, e) ==
    LET req == request[w]
        now == run[req.month][e]
    IN  /\ req.op = "post"
        /\ req.runs[e] # NULL
        /\ ~ req.runs[e].slip
        /\ request' = [request EXCEPT
               ![w] = [req EXCEPT !.readRuns[e].slip = now # NULL /\ now.slip,
                                  !.runs[e].slip = TRUE]]
        /\ UNCHANGED tables

\* The employees whose run post_period saw without an expense.
ToBook(runs) == {e \in Employee : runs[e] # NULL /\ runs[e].expense = NULL}

\* Mutant: a run may get a second payslip.
ConsistentRows(current, read, new) ==
    /\ ~ Misses(current, read, new)
    /\ read = NULL /\ new # NULL => current = NULL
    /\ read # NULL /\ new = NULL /\ current # NULL => ~ current.slip

\* uq_payroll_run_period_emp and the unique run_id of hris_payslips: what a session
\* inserts, no other may have inserted since; a run with a payslip is not deleted.
Consistent(current, read, new) ==
    /\ ~ Misses(current, read, new)
    /\ read = NULL /\ new # NULL => current = NULL
    /\ read # NULL /\ new # NULL /\ new.slip /\ ~ read.slip => ~ current.slip
    /\ read # NULL /\ new = NULL /\ current # NULL => ~ current.slip

Commit(w) ==
    LET req == request[w]
        m == req.month
        posts == IF req.op = "post" THEN ToBook(req.readRuns) ELSE {}
        row(e) == Written(run[m][e], req.readRuns[e], req.runs[e])
    IN  /\ req # Idle
        /\ req.op = "post" => \A e \in Employee : req.runs[e] # NULL => req.runs[e].slip
        /\ \A e \in Employee : Consistent(run[m][e], req.readRuns[e], req.runs[e])
        /\ period' = [period EXCEPT ![m] =
               IF req.status = req.readStatus THEN period[m] ELSE req.status]
        /\ booked' = [booked EXCEPT ![m] = [e \in Employee |->
               IF e \in posts THEN Append(booked[m][e], req.readRuns[e].net)
               ELSE booked[m][e]]]
        /\ run' = [run EXCEPT ![m] = [e \in Employee |->
               IF e \in posts THEN [row(e) EXCEPT !.expense = Len(booked[m][e]) + 1]
               ELSE row(e)]]
        /\ orderly' = (orderly /\ \A e \in Employee :
               run'[m][e] # run[m][e] /\ req.op # "post"
                   => \A k \in Month : k > m => run[k][e] = NULL)
        /\ overlapped' = (overlapped \/ req.late)
        /\ IF req.op \in {"lock", "post"} THEN UNCHANGED audited ELSE WriteAudit
        /\ request' = Overtaken([request EXCEPT ![w] = Idle])
        /\ UNCHANGED <<ends, personnel>>

Rollback(w) ==
    /\ request[w] # Idle
    /\ request' = [request EXCEPT ![w] = Idle]
    /\ UNCHANGED tables

---------------------------------------------------------------------------
\* An end date makes its month the final tax period: a run of it is out of date.
EndEmployment(e) ==
    /\ ends[e] = NULL
    /\ \E m \in Month :
           /\ ends' = [ends EXCEPT ![e] = m]
           /\ orderly' = (orderly /\ \A k \in Month : k >= m => run[k][e] = NULL)
    /\ WriteAudit
    /\ request' = Overtaken(request)
    /\ UNCHANGED <<period, run, booked, personnel, overlapped>>

\* vault.py: the last active PERSONNEL cost code is deactivated, or one is created.
AdministerCostCodes ==
    /\ personnel' = ~ personnel
    /\ WriteAudit
    /\ UNCHANGED <<period, run, booked, ends, request, orderly, overlapped>>

Next ==
    \/ \E m \in Month : CreatePeriod(m)
    \/ \E w \in Worker, m \in Month :
           \/ CalculatePeriod(w, m) \/ LockPeriod(w, m) \/ UnlockPeriod(w, m) \/ PostPeriod(w, m)
           \/ \E e \in Employee : AdjustRun(w, m, e)
    \/ \E w \in Worker :
           Commit(w) \/ Rollback(w) \/ \E e \in Employee : FindPayslip(w, e)
    \/ \E e \in Employee : EndEmployment(e)
    \/ AdministerCostCodes

Spec == Init /\ [][Next]_vars

---------------------------------------------------------------------------
\* The exports: the rows they are made from.

\* The bank file of a LOCKED or POSTED period pays every run its net salary.
export_bank(m) ==
    SumFunction([e \in {e \in Employee : run[m][e] # NULL} |-> run[m][e].net])

\* What the payslip of a run shows as earned.
get_payslip(row) == row.gross + row.snapshot.allowance + row.thr

\* The BPJS report of the period: the contributions it lists for the employees.
export_bpjs(m) ==
    LET listed(e) ==
            LET bpjs == calculate_bpjs(run[m][e].gross)
            IN  bpjs.jht_employee + bpjs.jp_employee + bpjs.kes_employee
    IN  SumFunction([e \in {e \in Employee : run[m][e] # NULL} |-> listed(e)])

\* Form 1721-A1: the posted months of the employee's year and the row of their totals.
form_1721(e) ==
    LET posted == {m \in Month : period[m] = "POSTED" /\ run[m][e] # NULL}
    IN  [months |-> posted,
         income |-> SumFunction([m \in posted |-> get_payslip(run[m][e])]),
         pph21 |-> SumFunction([m \in posted |-> run[m][e].tax]),
         net |-> SumFunction([m \in posted |-> run[m][e].net])]

---------------------------------------------------------------------------
\* Periods and runs are rows of their types, and a run refers to an expense of its own.
TypeOK ==
    /\ period \in [Month -> PayrollStatus \cup {NULL}]
    /\ \A m \in Month, e \in Employee :
           run[m][e] # NULL => /\ run[m][e] \in PayrollRun
                               /\ run[m][e].expense \in 1..Len(booked[m][e]) \cup {NULL}

\* Rows have their types and, whatever sessions post, unlock and recalculate at once, a
\* run's salary is booked as an approved expense once: two posts that both saw no expense
\* also insert the same payslip.  Except by a post whose two reads another one committed
\* between: it loaded the run without an expense and then finds its payslip, so nothing it
\* inserts is unique any more.
BookedOnce ==
    /\ []TypeOK
    /\ [][\A m \in Month, e \in Employee :
              booked'[m][e] # booked[m][e] /\ booked[m][e] # <<>>
              => \E w \in Worker :
                     /\ request'[w] = Idle
                     /\ request[w].op = "post" /\ request[w].month = m
                     /\ request[w].readRuns[e].expense = NULL
                     /\ request[w].readRuns[e].slip]_vars

\* The bank file of a posted period pays what its expenses say, and with the BPJS report,
\* the tax and the manual deductions it makes up what the payslips show as earned, unless
\* a session that overlapped the posting wrote after it (hris_payroll.py checks the
\* status of a period it does not lock) or a salary is below its deductions.
TransferIsBooked ==
    ~ overlapped =>
        \A m \in Month : period[m] = "POSTED" =>
            LET paid == {e \in Employee : run[m][e] # NULL}
                manual(row) == row.snapshot.manual_bpjs + row.snapshot.manual_tax
            IN  /\ export_bank(m) = SumFunction([e \in {e \in Employee : booked[m][e] # <<>>}
                                                     |-> booked[m][e][1]])
                /\ (\A e \in paid : run[m][e].net > 0)
                   => SumFunction([e \in paid |-> get_payslip(run[m][e])])
                      = export_bank(m) + export_bpjs(m)
                        + SumFunction([e \in paid |-> run[m][e].tax + manual(run[m][e])])

\* When an employee's final month and all those before it are posted, form 1721-A1 shows
\* as withheld what the year owes on the taxable income and the contributions that the
\* runs recorded, given that nobody went back to a month before a calculated one
\* (prior_tax_context is never computed again).  The income the form itself totals is
\* another: it has the untaxed allowances too.
YearReconciled ==
    ~ overlapped /\ orderly =>
        \A e \in Employee :
            LET form == form_1721(e)
                last == IF ends[e] = NULL THEN 12 ELSE ends[e]
                total(item) == SumFunction([m \in form.months |-> run[m][e].snapshot[item]])
            IN  last \in form.months /\ (\A m \in Month : m <= last /\ run[m][e] # NULL
                                                           => m \in form.months)
                => form.pph21 = calculate_pph21_annual(total("taxable"), PtkpStatus[e],
                                                       total("contribution"))

\* The holiday allowance is paid once a year, unless two periods were calculated at
\* once (_ensure_thr_not_duplicated and adjust_run read the other periods' runs).
ThrOnce ==
    ~ overlapped => \A e \in Employee :
        Cardinality({m \in Month : run[m][e] # NULL /\ run[m][e].thr > 0}) <= 1

\* A grossed-up run pays the employee the whole tax on the salary and on the
\* allowance, and no allowance for a refund: the iteration has settled in 100 rounds.
GrossUpCovers ==
    ~ overlapped => \A m \in Month, e \in Employee :
        run[m][e] # NULL /\ run[m][e].method = "GROSS_UP"
        => run[m][e].snapshot.allowance = Larger(0, run[m][e].tax)
================================================================================
