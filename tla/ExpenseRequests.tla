---------------------------- MODULE ExpenseRequests ----------------------------
(***************************************************************************)
(* The expense handlers as they run: synchronous functions in a thread     *)
(* pool, each with a database session of its own at READ COMMITTED and no  *)
(* row lock.  A handler loads the row, checks its guard on what it loaded, *)
(* and at the commit writes the columns it changed, and only those, to a   *)
(* row that other handlers may have written meanwhile.                     *)
(*                                                                         *)
(* With one worker this implements ExpenseLifecycle; with two it does not. *)
(***************************************************************************)
EXTENDS ExpenseWorkflow

CONSTANTS
    Worker,        \* threads of the pool, of all server processes
    Expenses, RulePool, MaxAudit

ASSUME RequestAssumption == RulePool \subseteq ApprovalRule

VARIABLES
    expense, audit, rules, project,
    request        \* [Worker -> the handler it runs: operation, user, id, row as loaded]

table == <<expense, audit, rules, project>>
vars == <<expense, audit, rules, project, request>>

\* The abstract specification: whole handlers, one at a time, on the same tables.
L == INSTANCE ExpenseLifecycle
         WITH expense <- expense, audit <- audit, rules <- rules, project <- project

Idle == [op |-> "idle"]

Operation == {"update", "submit", "verify", "approve", "pay", "lock", "reject", "delete"}

Request == [op : Operation, actor : User, id : Expenses, read : Expense]

Init == L!Init /\ request = [w \in Worker |-> Idle]

\* The checks each handler makes on the row it loaded.
Permits(op, actor, row) ==
    \/ op = "update" /\ CanUpdate(actor, row)
    \/ op = "submit" /\ CanSubmit(actor, row)
    \/ op = "verify" /\ CanVerify(actor, row)
    \/ op = "approve" /\ CanApprove(actor, row)
    \/ op = "pay" /\ CanPay(actor, row)
    \/ op = "lock" /\ CanLock(actor, row)
    \/ op = "reject" /\ CanReject(actor, row)
    \/ op = "delete" /\ CanDelete(actor, row)

\* _get_or_404, then the guard: the session keeps the row as it is now.
Begin(w) ==
    /\ request[w] = Idle
    /\ \E op \in Operation, actor \in User, e \in Expenses :
           /\ expense[e] # NULL
           /\ Permits(op, actor, expense[e])
           /\ request' = [request EXCEPT ![w] =
                  [op |-> op, actor |-> actor, id |-> e, read |-> expense[e]]]
    /\ UNCHANGED table

\* Mutant: every column is written back, the ones the handler did not touch included.
Overwritten(current, read, new) == new

\* UPDATE ... SET lists the columns whose value differs from the one loaded.
Merged(current, read, new) ==
    [column \in DOMAIN current |->
        IF new[column] # read[column] THEN new[column] ELSE current[column]]

\* The commit of a handler that turned the loaded row into new.  A handler that
\* changed no column issues no UPDATE, and commits its audit record even when the
\* row is gone; any other finds no row to update then and rolls back.
Commit(w, action, new) ==
    LET e == request[w].id
        read == request[w].read
    IN  /\ expense[e] = NULL => new = read
        /\ L!Write(e, request[w].actor, action,
                   IF expense[e] = NULL THEN NULL ELSE Merged(expense[e], read, new))
        /\ request' = [request EXCEPT ![w] = Idle]

FinishUpdate(w) ==
    /\ request[w].op = "update"
    /\ \E amount \in Amounts, category \in Categories :
           Commit(w, "UPDATE", Edited(request[w].read, amount, category))

\* The rule table is read after the expense; here together with the commit.
FinishSubmit(w) ==
    /\ request[w].op = "submit"
    /\ LET read == request[w].read
       IN  \E chain \in SubmissionChains(rules, read.expense_type, read.amount, read.category) :
               Commit(w, "SUBMIT", Started(read, request[w].actor, chain))

FinishVerify(w) ==
    /\ request[w].op = "verify"
    /\ Commit(w, VerifyAction(request[w].actor),
              Verified(request[w].read, request[w].actor))

FinishApprove(w) ==
    /\ request[w].op = "approve"
    /\ Commit(w, "APPROVE", Approved(request[w].read, request[w].actor))

FinishPay(w) ==
    /\ request[w].op = "pay"
    /\ Commit(w, "PAY", Paid(request[w].read, request[w].actor))

FinishLock(w) ==
    /\ request[w].op = "lock"
    /\ Commit(w, "HARD_LOCK", Locked(request[w].read, request[w].actor))

FinishReject(w) ==
    /\ request[w].op = "reject"
    /\ Commit(w, "REJECT", Rejected(request[w].read, request[w].actor))

\* A DELETE that finds no row only draws a warning: its audit record is kept.
FinishDelete(w) ==
    /\ request[w].op = "delete"
    /\ L!Write(request[w].id, request[w].actor, "DELETE", NULL)
    /\ request' = [request EXCEPT ![w] = Idle]

\* Mutant: the audit record survives the row that was not written.
AbortAudited(w) ==
    /\ request[w] # Idle
    /\ L!Write(request[w].id, request[w].actor, "PAY", expense[request[w].id])
    /\ request' = [request EXCEPT ![w] = Idle]

\* The transaction rolls back: an UPDATE found no row (StaleDataError), or the
\* process or its connection is lost before the commit.
Abort(w) ==
    /\ request[w] # Idle
    /\ request' = [request EXCEPT ![w] = Idle]
    /\ UNCHANGED table

Finish(w) ==
    /\ request[w] # Idle
    /\ \/ FinishUpdate(w) \/ FinishSubmit(w) \/ FinishVerify(w) \/ FinishApprove(w)
       \/ FinishPay(w) \/ FinishLock(w) \/ FinishReject(w) \/ FinishDelete(w)

\* A handler that inserts a row, or one of the administration, in one step of an
\* idle worker.
Insert(w) ==
    /\ request[w] = Idle
    /\ \E e \in Expenses, actor \in User : L!Create(e, actor) \/ L!PostPayroll(e, actor)
    /\ UNCHANGED request

Administer(w) ==
    /\ request[w] = Idle
    /\ L!Administration
    /\ UNCHANGED request

Next ==
    \E w \in Worker : Insert(w) \/ Administer(w) \/ Begin(w) \/ Finish(w) \/ Abort(w)

Spec == Init /\ [][Next]_vars

---------------------------------------------------------------------------
\* The type invariant: whatever columns the commits mix, rows stay well-formed.
TypeOK == L!TypeOK /\ request \in [Worker -> Request \cup {Idle}]

\* With a single worker this system does what ExpenseLifecycle says, step by step.
SerialSpec == L!Spec

\* The positions of an action in an audit trail.
At(trail, actions) == {i \in 1 .. Len(trail) : trail[i].action \in actions}

\* However requests overlap, no expense is paid before someone signed for it after
\* its submission, and none is locked before it is paid: an audit trail never shows
\* PAY without SUBMIT and a sign-off before it (payroll expenses excepted), nor
\* HARD_LOCK without PAY.
PaymentSigned ==
    \A e \in Expenses :
        /\ \A i \in At(audit[e], {"PAY"}) :
               \/ expense[e] # NULL /\ expense[e].payroll
               \/ \E j \in At(audit[e], L!SignOff), k \in At(audit[e], {"SUBMIT"}) :
                      k < j /\ j < i
        /\ \A i \in At(audit[e], {"HARD_LOCK"}) : \E j \in At(audit[e], {"PAY"}) : j < i

\* However requests overlap, a row never shows a payment that was not made: it names
\* a payer exactly when its audit trail has a PAY, and that user made one.
PayerRecorded ==
    \A e \in Expenses : expense[e] # NULL =>
        IF expense[e].paid_by = NULL THEN At(audit[e], {"PAY"}) = {}
        ELSE \E i \in At(audit[e], {"PAY"}) : audit[e][i].user = expense[e].paid_by

\* However requests overlap, the money stays accounted for: rows keep their types, every
\* payment was submitted and signed for first, and its payer is on record.
PaymentsAccounted == TypeOK /\ PaymentSigned /\ PayerRecorded

(***************************************************************************)
(* What models.py says of an approved expense, and overlapping requests    *)
(* break.                                                                  *)
(***************************************************************************)

\* models.py: APPROVED means "all approvers signed off".  Every role of the chain
\* of an approved, paid or locked expense has a sign-off in its audit trail
\* (payroll expenses aside).
AllApproversSigned ==
    \A e \in Expenses :
        expense[e] # NULL /\ ~ expense[e].payroll
        /\ expense[e].status \in {"approved", "paid", "hard_locked"} =>
            \A k \in 1 .. Len(expense[e].approval_chain) :
                \E i \in At(audit[e], L!SignOff) :
                    RoleCanAct(RoleOf[audit[e][i].user], expense[e].approval_chain[k])
================================================================================
