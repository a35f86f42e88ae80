--------------------------------- MODULE Leave ---------------------------------
(***************************************************************************)
(* Leave requests, balances and medical certificates.  Submissions check   *)
(* without locks; approvals and rejections lock the request, and whoever   *)
(* deducts locks the balances, so that those are single steps.             *)
(***************************************************************************)
EXTENDS Sequences, WorkCalendar

CONSTANTS
    YearOf,        \* [Day -> Year]
    LeaveType,     \* [code -> [max_days, requires_approval, requires_doctor_cert, exempt]]
    Dates,         \* first and last day of the leaves asked for
    MaxRequests,   \* bound: leave requests
    Certificate    \* names of uploaded files

Leave == 1..MaxRequests
Type == DOMAIN LeaveType
Year == {YearOf[d] : d \in Day}

\* A row of the leave types.
LeaveTypeRow ==
    [max_days : Nat \cup {NULL}, requires_approval : BOOLEAN, requires_doctor_cert : BOOLEAN,
     exempt : BOOLEAN]

ASSUME LeaveAssumption ==
    /\ DOMAIN YearOf = Day
    /\ MaxRequests \in Nat
    /\ \A type \in Type : LeaveType[type] \in LeaveTypeRow
    /\ Dates \subseteq Day \X Day
    /\ \A dates \in Dates : dates[1] <= dates[2] /\ dates[1]..dates[2] \subseteq Day
    /\ NULL \notin Certificate

VARIABLES
    leave,         \* [Leave -> leave request, or NULL]
    balance,       \* [Type -> [Year -> leave balance, or NULL]]
    certificate,   \* [Certificate -> the user whose file is on disk, or NULL]
    uploaded,      \* certificates handed out so far
    raced,         \* auxiliary: requests and files that overlapping handlers got at
    steady         \* auxiliary: the calendar never changed

leaveVars == <<leave, balance, certificate, uploaded, raced, steady>>

_LEAVE_APPROVAL_CHAIN == <<"GA", "MD">>

LeaveRequest ==
    [type : Type, first : Day, last : Day, days : Nat,
     status : {"SUBMITTED", "APPROVED", "REJECTED"}, step : 0..Len(_LEAVE_APPROVAL_CHAIN),
     cert : Certificate \cup {NULL}]
LeaveBalance == [accrued : Nat, used : Nat]

ASSUME LeaveRowAssumption == NULL \notin LeaveRequest /\ NULL \notin LeaveBalance

LeaveInit ==
    /\ leave = [l \in Leave |-> NULL]
    /\ balance = [t \in Type |-> [y \in Year |-> NULL]]
    /\ certificate = [c \in Certificate |-> NULL]
    /\ uploaded = {}
    /\ raced = {}
    /\ steady = TRUE

Chain(type) == IF LeaveType[type].requires_approval THEN _LEAVE_APPROVAL_CHAIN ELSE <<>>

Requests == {l \in Leave : leave[l] # NULL}

Span(row) == row.first..row.last

leave_duration(days) == Cardinality(days \ (Weekend \cup holidays))

leave_days_by_year(days) == [y \in Year |-> leave_duration({d \in days : YearOf[d] = y})]

Accrued(type) == IF LeaveType[type].max_days = NULL THEN 0 ELSE LeaveType[type].max_days

\* get_or_create_leave_balance: a missing row starts with the type's days.
Balances(type) ==
    [y \in Year |-> IF balance[type][y] # NULL THEN balance[type][y]
                    ELSE [accrued |-> Accrued(type), used |-> 0]]

Unlimited(type) == LeaveType[type].exempt \/ LeaveType[type].max_days = NULL

Needed(allocations) == {y \in Year : allocations[y] > 0}

\* check_or_deduct_leave_balances, the check.
Sufficient(type, allocations) ==
    Unlimited(type) \/ \A y \in Needed(allocations) :
        Balances(type)[y].accrued >= Balances(type)[y].used + allocations[y]

\* Mutant: the deduction trusts the check made at submission.
DeductUnchecked(type, allocations) ==
    balance' = IF Unlimited(type) THEN balance
               ELSE [balance EXCEPT ![type] = [y \in Year |->
                        IF y \notin Needed(allocations) THEN balance[type][y]
                        ELSE [Balances(type)[y] EXCEPT !.used = @ + allocations[y]]]]

\* The deduction, which checks again, with the balance rows locked.
Deduct(type, allocations) ==
    /\ Sufficient(type, allocations)
    /\ balance' = IF Unlimited(type) THEN balance
                  ELSE [balance EXCEPT ![type] = [y \in Year |->
                           IF y \notin Needed(allocations) THEN balance[type][y]
                           ELSE [Balances(type)[y] EXCEPT !.used = @ + allocations[y]]]]

\* Mutant: only requests still waiting count as overlapping.
OverlapsWaiting(row, other) ==
    other.status = "SUBMITTED" /\ other.first <= row.last /\ other.last >= row.first

Overlaps(row, other) ==
    other.status \in {"SUBMITTED", "APPROVED"}
    /\ other.first <= row.last /\ other.last >= row.first

Attached(c) == \E l \in Requests : leave[l].cert = c

\* Whether user may submit row with the rows as they are now.
MaySubmit(user, row) ==
    /\ Admitted(user)
    /\ row.days > 0
    /\ LeaveType[row.type].requires_doctor_cert =>
           /\ certificate[row.cert] = user
           /\ ~ Attached(row.cert)
    /\ \A l \in Requests : ~ Overlaps(row, leave[l])
    /\ Sufficient(row.type, leave_days_by_year(Span(row)))

\* The balance rows the check inserted, for the days of row.
Created(row) ==
    IF Unlimited(row.type) THEN {}
    ELSE {y \in Needed(leave_days_by_year(Span(row))) : balance[row.type][y] = NULL}

Start(w, handler) ==
    /\ request[w] = Idle
    /\ request' = [request EXCEPT ![w] = handler]
    /\ UNCHANGED <<holidays, employed, audited, leaveVars>>

\* What clients send.  A doctor_cert_url for a type that asks none is stored unread and
\* left out.
LeaveRequestCreate ==
    {body \in [type : Type, dates : Dates, cert : uploaded \cup {NULL}] :
        LeaveType[body.type].requires_doctor_cert <=> body.cert # NULL}

SubmitLeave(w) ==
    \E user \in User, body \in LeaveRequestCreate :
        LET days == body.dates[1]..body.dates[2]
            row == [type |-> body.type, first |-> body.dates[1], last |-> body.dates[2],
                    days |-> leave_duration(days),
                    status |-> IF Chain(body.type) = <<>> THEN "APPROVED" ELSE "SUBMITTED",
                    step |-> 0, cert |-> body.cert]
        IN  /\ MaySubmit(user, row)
            /\ Start(w, [op |-> "submit", row |-> row, created |-> Created(row),
                         allocations |-> leave_days_by_year(days), late |-> FALSE])

\* The row and the balance rows are inserted; without a chain the days are deducted
\* at once.  A balance row inserted by another session meanwhile fails the handler.
CommitLeave(w) ==
    LET req == request[w]
        new == Min(Leave \ Requests)
        fresh == [balance EXCEPT ![req.row.type] = [y \in Year |->
                      IF y \in req.created THEN Balances(req.row.type)[y]
                      ELSE balance[req.row.type][y]]]
    IN  /\ req.op = "submit"
        /\ Requests # Leave
        /\ \A y \in req.created : balance[req.row.type][y] = NULL
        /\ leave' = [leave EXCEPT ![new] = req.row]
        /\ IF req.row.status = "APPROVED" THEN Deduct(req.row.type, req.allocations)
                                          ELSE balance' = fresh
        /\ raced' = IF req.late THEN raced \cup {new} ELSE raced
        /\ request' = Overtaken(Finished(w))
        /\ UNCHANGED <<holidays, employed, audited, certificate, uploaded, steady>>

\* _require_current_leave_approver, for require_role(_mgr_roles).
MayDecide(user, row) ==
    LET expected == Chain(row.type)[row.step + 1]
    IN  \/ RoleOf[user] \in {"SUPER_ADMIN", expected}
        \/ RoleOf[user] = "HR" /\ expected = "GA"

\* approve_leave_request; the last signature counts the days again and deducts them.
ApproveLeave(l) ==
    \E user \in User :
        LET row == leave[l]
            signed == [row EXCEPT !.step = @ + 1]
        IN  /\ row.status = "SUBMITTED"
            /\ MayDecide(user, row)
            /\ IF row.step + 1 >= Len(Chain(row.type))
               THEN /\ Deduct(row.type, leave_days_by_year(Span(row)))
                    /\ leave' = [leave EXCEPT ![l] = [signed EXCEPT !.status = "APPROVED"]]
               ELSE /\ leave' = [leave EXCEPT ![l] = signed]
                    /\ UNCHANGED balance
            /\ UNCHANGED <<holidays, employed, audited, request, certificate, uploaded, raced, steady>>

RejectLeave(l) ==
    /\ leave[l].status = "SUBMITTED"
    /\ \E user \in User : MayDecide(user, leave[l])
    /\ leave' = [leave EXCEPT ![l].status = "REJECTED"]
    /\ UNCHANGED <<holidays, employed, audited, request, balance, certificate, uploaded, raced, steady>>

\* seed_leave_balances inserts the rows the year lacks, or fails when another session
\* inserts one of them meanwhile.
SeedBalances(y) ==
    /\ Staff(_hr_roles) # {}
    /\ employed
    /\ balance' = [t \in Type |-> [balance[t] EXCEPT ![y] = Balances(t)[y]]]
    /\ WriteAudit
    /\ UNCHANGED <<holidays, employed, request, leave, certificate, uploaded, raced, steady>>

\* Both look up which files no request names and unlink them afterwards: the upload
\* those of the user's that are older than a day, the discard the one it is given.
RemoveFiles(w, files, name, user) ==
    /\ \A c \in files : certificate[c] = user /\ ~ Attached(c)
    /\ Start(w, [op |-> "files", removed |-> files, added |-> name, owner |-> user,
                 late |-> FALSE])

UploadCertificate(w) ==
    \E user \in User, c \in Certificate \ uploaded, old \in SUBSET uploaded :
        RemoveFiles(w, old, c, user)

DiscardCertificate(w) ==
    \E user \in User, c \in uploaded : RemoveFiles(w, {c}, NULL, user)

\* Names are random: no two uploads get the same one.
WriteFiles(w) ==
    LET req == request[w]
        dangling == {l \in Requests : leave[l].cert \in req.removed}
    IN  /\ req.op = "files"
        /\ req.added \notin uploaded
        /\ certificate' = [c \in Certificate |-> IF c \in req.removed THEN NULL
                                                 ELSE IF c = req.added THEN req.owner
                                                 ELSE certificate[c]]
        /\ uploaded' = IF req.added = NULL THEN uploaded ELSE uploaded \cup {req.added}
        /\ raced' = IF req.late THEN raced \cup dangling ELSE raced
        /\ request' = Overtaken(Finished(w))
        /\ IF req.added = NULL THEN WriteAudit ELSE UNCHANGED audited
        /\ UNCHANGED <<holidays, employed, leave, balance, steady>>

LeaveNext ==
    \/ \E w \in Worker :
           \/ SubmitLeave(w) \/ CommitLeave(w)
           \/ UploadCertificate(w) \/ DiscardCertificate(w) \/ WriteFiles(w)
    \/ \E l \in Requests : ApproveLeave(l) \/ RejectLeave(l)
    \/ \E y \in Year : SeedBalances(y)

---------------------------------------------------------------------------
LeaveTypeOK ==
    /\ \A l \in Requests : leave[l] \in LeaveRequest
    /\ \A t \in Type, y \in Year : balance[t][y] = NULL \/ balance[t][y] \in LeaveBalance

\* Rows have their types, nobody takes more days of a type than the year grants, even
\* when requests that were each checked alone are approved together, and as long as the
\* calendar stays the days used are those of the approved requests
\* (check_or_deduct_leave_balances).
BalancesReconcile ==
    /\ LeaveTypeOK
    /\ \A t \in Type, y \in Year : balance[t][y] # NULL =>
        LET approved == {l \in Requests : leave[l].type = t /\ leave[l].status = "APPROVED"}
            taken == {ld \in approved \X (Day \ (Weekend \cup holidays)) :
                          YearOf[ld[2]] = y /\ ld[2] \in Span(leave[ld[1]])}
        IN  /\ balance[t][y].used <= balance[t][y].accrued
            /\ steady /\ ~ Unlimited(t) =>
                   balance[t][y].used = Cardinality(taken)

\* Two requests that wait or are approved share no day, and a certificate a type asks
\* for is on disk and serves one request, except for a request whose submission or
\* whose file's removal overlapped another handler (submit_leave_request,
\* discard_leave_doctor_certificate and the clean-up check without locks).
SubmissionsApart ==
    \A l \in Requests \ raced :
        /\ \A k \in Requests \ (raced \cup {l}) :
               /\ leave[l].status # "REJECTED" => ~ Overlaps(leave[l], leave[k])
               /\ LeaveType[leave[l].type].requires_doctor_cert
                  /\ LeaveType[leave[k].type].requires_doctor_cert
                      => leave[l].cert # leave[k].cert
        /\ LeaveType[leave[l].type].requires_doctor_cert => certificate[leave[l].cert] # NULL
================================================================================
