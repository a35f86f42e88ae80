------------------------- MODULE ExpenseRequestsProofs -------------------------
(***************************************************************************)
(* Proofs about ExpenseRequests: with a single worker it implements        *)
(* ExpenseLifecycle, for any users, rules, amounts, projects and expenses; *)
(* with any number of them every payment has been signed for; and what the *)
(* outbox delivers agrees with what its rows say, for any number of        *)
(* workers that send the mails the requests queued.                        *)
(***************************************************************************)
EXTENDS ExpenseRequests, EmailOutbox, FiniteSetTheorems, TLAPS

---------------------------------------------------------------------------
\* ExpenseLifecycle is instantiated with the constants of this module, so that its
\* copies of the row operators are the operators of this module.

LEMMA SameRoles ==
    /\ \A role, expected : L!RoleCanAct(role, expected) <=> RoleCanAct(role, expected)
    /\ \A role, chain : L!RoleCanReject(role, chain) <=> RoleCanReject(role, chain)
  BY DEF L!RoleCanAct, RoleCanAct, L!RoleCanReject, RoleCanReject, L!EffectiveRoles,
         EffectiveRoles, L!RolesIn, RolesIn

LEMMA SameGuards ==
    ASSUME NEW actor, NEW row
    PROVE  /\ L!CanUpdate(actor, row) <=> CanUpdate(actor, row)
           /\ L!CanSubmit(actor, row) <=> CanSubmit(actor, row)
           /\ L!CanVerify(actor, row) <=> CanVerify(actor, row)
           /\ L!CanApprove(actor, row) <=> CanApprove(actor, row)
           /\ L!CanPay(actor, row) <=> CanPay(actor, row)
           /\ L!CanLock(actor, row) <=> CanLock(actor, row)
           /\ L!CanReject(actor, row) <=> CanReject(actor, row)
           /\ L!CanDelete(actor, row) <=> CanDelete(actor, row)
  BY SameRoles
     DEF L!CanUpdate, CanUpdate, L!CanSubmit, CanSubmit, L!CanVerify, CanVerify,
         L!CanApprove, CanApprove, L!CanPay, CanPay, L!CanLock, CanLock,
         L!CanReject, CanReject, L!CanDelete, CanDelete, L!Owns, Owns, L!InFlight, InFlight

LEMMA SameEffects ==
    ASSUME NEW actor, NEW row
    PROVE  /\ \A amount, category : L!Edited(row, amount, category) = Edited(row, amount, category)
           /\ \A chain : L!Started(row, actor, chain) = Started(row, actor, chain)
           /\ L!Verified(row, actor) = Verified(row, actor)
           /\ L!VerifyAction(actor) = VerifyAction(actor)
           /\ L!Approved(row, actor) = Approved(row, actor)
           /\ L!Paid(row, actor) = Paid(row, actor)
           /\ L!Locked(row, actor) = Locked(row, actor)
           /\ L!Rejected(row, actor) = Rejected(row, actor)
<1>1. \A r, action, user : L!WithEvent(r, action, user) = WithEvent(r, action, user)
  BY DEF L!WithEvent, WithEvent
<1>2. \A r : L!Advanced(r) = Advanced(r)
  BY DEF L!Advanced, Advanced
<1>3. L!VerifyAction(actor) = VerifyAction(actor)
  BY DEF L!VerifyAction, VerifyAction
<1>4. \A amount, category : L!Edited(row, amount, category) = Edited(row, amount, category)
  BY DEF L!Edited, Edited
<1>5. \A chain : L!Started(row, actor, chain) = Started(row, actor, chain)
  BY <1>1 DEF L!Started, Started
<1>6. L!Verified(row, actor) = Verified(row, actor)
  BY <1>1, <1>2, <1>3 DEF L!Verified, Verified
<1>7. L!Approved(row, actor) = Approved(row, actor)
  BY <1>1, <1>2 DEF L!Approved, Approved
<1>8. /\ L!Paid(row, actor) = Paid(row, actor)
      /\ L!Locked(row, actor) = Locked(row, actor)
      /\ L!Rejected(row, actor) = Rejected(row, actor)
  BY <1>1 DEF L!Paid, Paid, L!Locked, Locked, L!Rejected, Rejected
<1> QED
  BY <1>3, <1>4, <1>5, <1>6, <1>7, <1>8

LEMMA SameChains ==
    ASSUME NEW active, NEW expense_type, NEW amount, NEW category
    PROVE  L!SubmissionChains(active, expense_type, amount, category)
           = SubmissionChains(active, expense_type, amount, category)
<1>1. L!MatrixChains(active, amount, category) = MatrixChains(active, amount, category)
  <2>1. L!MatchingRules(active, amount, category) = MatchingRules(active, amount, category)
    BY DEF L!MatchingRules, MatchingRules, L!Matches, Matches
  <2>2. \A matching, role, other :
            L!ReadNoLater(matching, role, other) <=> ReadNoLater(matching, role, other)
    BY DEF L!ReadNoLater, ReadNoLater
  <2> DEFINE Chains(matching) ==
                 LET required == {rule.required_role : rule \in matching}
                 IN  {chain \in [1 .. Cardinality(required) -> required] :
                         \A i, j \in 1 .. Cardinality(required) :
                             i < j => /\ chain[i] # chain[j]
                                      /\ ReadNoLater(matching, chain[i], chain[j])}
             LChains(matching) ==
                 LET required == {rule.required_role : rule \in matching}
                 IN  {chain \in [1 .. Cardinality(required) -> required] :
                         \A i, j \in 1 .. Cardinality(required) :
                             i < j => /\ chain[i] # chain[j]
                                      /\ L!ReadNoLater(matching, chain[i], chain[j])}
  <2>3. MatrixChains(active, amount, category) = Chains(MatchingRules(active, amount, category))
    BY DEF MatrixChains
  <2>4. L!MatrixChains(active, amount, category) = LChains(L!MatchingRules(active, amount, category))
    <3>1. \A S : L!Cardinality(S) = Cardinality(S)
      BY Zenon DEF L!Cardinality, Cardinality
    <3> QED
      BY <3>1 DEF L!MatrixChains
  <2>5. ASSUME NEW matching
        PROVE  LChains(matching) = Chains(matching)
    <3> DEFINE required == {rule.required_role : rule \in matching}
               n == Cardinality(required)
    <3>1. \A chain \in [1 .. n -> required] :
              (\A i, j \in 1 .. n : i < j => /\ chain[i] # chain[j]
                                            /\ L!ReadNoLater(matching, chain[i], chain[j]))
              <=> (\A i, j \in 1 .. n : i < j => /\ chain[i] # chain[j]
                                                 /\ ReadNoLater(matching, chain[i], chain[j]))
      BY <2>2
    <3> HIDE DEF n, required
    <3>2. {chain \in [1 .. n -> required] :
               \A i, j \in 1 .. n : i < j => /\ chain[i] # chain[j]
                                           /\ L!ReadNoLater(matching, chain[i], chain[j])}
          = {chain \in [1 .. n -> required] :
                 \A i, j \in 1 .. n : i < j => /\ chain[i] # chain[j]
                                             /\ ReadNoLater(matching, chain[i], chain[j])}
      BY <3>1
    <3> QED
      BY <3>2 DEF n, required
  <2> HIDE DEF Chains, LChains
  <2> QED
    BY <2>1, <2>3, <2>4, <2>5
<1>2. \A chain : L!RolesIn(chain) = RolesIn(chain)
  BY DEF L!RolesIn, RolesIn
<1> QED
  BY <1>1, <1>2 DEF L!SubmissionChains, SubmissionChains, L!ReimbursementChain, ReimbursementChain

---------------------------------------------------------------------------
\* A commit on a row nobody touched writes the row the handler built.

\* Rows are functions on their columns.
IsRow(row) == row = [column \in DOMAIN row |-> row[column]]

LEMMA MergedWithItself ==
    ASSUME NEW row, NEW new, IsRow(new), DOMAIN new = DOMAIN row
    PROVE  Merged(row, row, new) = new
<1>1. Merged(row, row, new) = [column \in DOMAIN new |-> new[column]]
  BY DEF Merged
<1> QED
  BY <1>1 DEF IsRow

LEMMA EffectsKeepColumns ==
    ASSUME NEW row, IsRow(row), NEW actor
    PROVE  /\ \A amount, category :
                  IsRow(Edited(row, amount, category))
                  /\ DOMAIN Edited(row, amount, category) = DOMAIN row
           /\ \A chain : IsRow(Started(row, actor, chain))
                         /\ DOMAIN Started(row, actor, chain) = DOMAIN row
           /\ IsRow(Verified(row, actor)) /\ DOMAIN Verified(row, actor) = DOMAIN row
           /\ IsRow(Approved(row, actor)) /\ DOMAIN Approved(row, actor) = DOMAIN row
           /\ IsRow(Paid(row, actor)) /\ DOMAIN Paid(row, actor) = DOMAIN row
           /\ IsRow(Locked(row, actor)) /\ DOMAIN Locked(row, actor) = DOMAIN row
           /\ IsRow(Rejected(row, actor)) /\ DOMAIN Rejected(row, actor) = DOMAIN row
<1>1. \A r, action, user : IsRow(WithEvent(r, action, user))
                           /\ DOMAIN WithEvent(r, action, user) = DOMAIN r
  BY DEF WithEvent, IsRow
<1>2. ASSUME NEW r
      PROVE  IsRow(Advanced(r)) /\ DOMAIN Advanced(r) = DOMAIN r
  <2> DEFINE step == r.approval_step + 1
             status == IF r.approval_chain[step] = "COST_CONTROL" THEN "verified" ELSE r.status
             approved == [r EXCEPT !.approval_step = step, !.status = "approved",
                                   !.current_approver_role = NULL]
             advanced == [r EXCEPT !.approval_step = step, !.status = status,
                                   !.current_approver_role = r.approval_chain[step + 1]]
  <2>1. Advanced(r) = IF step >= Len(r.approval_chain) THEN approved ELSE advanced
    BY DEF Advanced
  <2>2. IsRow(approved) /\ DOMAIN approved = DOMAIN r
    BY DEF IsRow
  <2>3. IsRow(advanced) /\ DOMAIN advanced = DOMAIN r
    <3> HIDE DEF status, step
    <3> QED
      BY DEF IsRow
  <2> QED
    BY <2>1, <2>2, <2>3
<1>3. \A amount, category :
          IsRow(Edited(row, amount, category))
          /\ DOMAIN Edited(row, amount, category) = DOMAIN row
  BY DEF Edited, IsRow
<1>4. \A chain : IsRow(Started(row, actor, chain)) /\ DOMAIN Started(row, actor, chain) = DOMAIN row
  <2> TAKE chain
  <2> DEFINE started == [row EXCEPT !.status = "submitted", !.submitted_by = actor,
                          !.approval_chain = chain, !.approval_step = 0,
                          !.current_approver_role = IF chain = <<>> THEN NULL ELSE chain[1],
                          !.rejection_reason = FALSE]
  <2>1. DOMAIN started = DOMAIN row
    OBVIOUS
  <2>2. Started(row, actor, chain) = WithEvent(started, "SUBMIT", actor)
    BY DEF Started
  <2> HIDE DEF started
  <2> QED
    BY <1>1, <2>1, <2>2
<1>5. IsRow(Verified(row, actor)) /\ DOMAIN Verified(row, actor) = DOMAIN row
  <2> DEFINE stamped == IF RoleOf[actor] \in {"GA", "HR"}
                        THEN [row EXCEPT !.receipt_reviewed_by = actor]
                        ELSE [row EXCEPT !.verified_by = actor]
  <2>1. DOMAIN stamped = DOMAIN row
    OBVIOUS
  <2>2. Verified(row, actor) = Advanced(WithEvent(stamped, VerifyAction(actor), actor))
    BY DEF Verified
  <2> HIDE DEF stamped
  <2> QED
    BY <1>1, <1>2, <2>1, <2>2
<1>6. IsRow(Approved(row, actor)) /\ DOMAIN Approved(row, actor) = DOMAIN row
  BY <1>1, <1>2 DEF Approved
<1>7. /\ IsRow(Paid(row, actor)) /\ DOMAIN Paid(row, actor) = DOMAIN row
      /\ IsRow(Locked(row, actor)) /\ DOMAIN Locked(row, actor) = DOMAIN row
      /\ IsRow(Rejected(row, actor)) /\ DOMAIN Rejected(row, actor) = DOMAIN row
  <2> DEFINE paid == [row EXCEPT !.status = "paid", !.paid_by = actor,
                                 !.current_approver_role = NULL]
             rejected == [row EXCEPT !.status = "rejected", !.rejection_reason = TRUE,
                                     !.current_approver_role = NULL]
  <2>1. DOMAIN paid = DOMAIN row /\ DOMAIN rejected = DOMAIN row
    OBVIOUS
  <2>2. /\ Paid(row, actor) = WithEvent(paid, "PAY", actor)
        /\ Rejected(row, actor) = WithEvent(rejected, "REJECT", actor)
    BY DEF Paid, Rejected
  <2>3. IsRow(Locked(row, actor)) /\ DOMAIN Locked(row, actor) = DOMAIN row
    BY <1>1 DEF Locked
  <2> HIDE DEF paid, rejected
  <2> QED
    BY <1>1, <2>1, <2>2, <2>3
<1> QED
  BY <1>3, <1>4, <1>5, <1>6, <1>7

---------------------------------------------------------------------------
\* What one worker relies on: nobody writes between its read and its commit, so the
\* row it loaded is the row, and the guard it checked still holds.

OneWorker == \A v, w \in Worker : v = w

\* The tables are keyed by id, and their rows by column.
TableShape ==
    /\ expense = [e \in Expenses |-> expense[e]]
    /\ \A e \in Expenses : expense[e] # NULL => IsRow(expense[e])

\* A handler at work holds the present row of its expense, and may act on it.
UpToDate(q) ==
    /\ q.op \in Operation /\ q.actor \in User /\ q.id \in Expenses
    /\ expense[q.id] # NULL /\ q.read = expense[q.id]
    /\ Permits(q.op, q.actor, q.read)

RequestShape ==
    /\ request = [w \in Worker |-> request[w]]
    /\ \A w \in Worker : request[w] # Idle => UpToDate(request[w])

SerialInv == TableShape /\ RequestShape

LEMMA NewRowShape ==
    ASSUME NEW expense_type, NEW p, NEW amount, NEW category, NEW actor
    PROVE  /\ IsRow(NewExpense(expense_type, p, amount, category, actor))
           /\ IsRow(PayrollExpense(amount, actor))
<1>1. IsRow(NewExpense(expense_type, p, amount, category, actor))
  BY DEF NewExpense, IsRow
<1>2. IsRow(PayrollExpense(amount, actor))
  <2> DEFINE row == NewExpense("regular", NULL, amount, "Personnel", actor)
  <2> HIDE DEF row
  <2>1. IsRow([row EXCEPT !.payroll = TRUE, !.status = "approved", !.approved_by = actor])
    BY DEF IsRow
  <2> QED
    BY <2>1 DEF PayrollExpense, row
<1> QED
  BY <1>1, <1>2

LEMMA SerialInit == Init => SerialInv
  BY DEF Init, L!Init, SerialInv, TableShape, RequestShape

\* Writing a row, or nothing, in the place of another keeps the shape of the table.
LEMMA WriteKeepsShape ==
    ASSUME TableShape, NEW e \in Expenses, NEW actor, NEW action, NEW row,
           row # NULL => IsRow(row), L!Write(e, actor, action, row)
    PROVE  TableShape'
<1>1. expense' = [expense EXCEPT ![e] = row]
  BY DEF L!Write
<1> QED
  BY <1>1 DEF TableShape, IsRow

\* The commit of the only worker writes what its handler made of the present row.
LEMMA CommitWrites ==
    ASSUME SerialInv, NEW w \in Worker, request[w] # Idle, NEW action, NEW new,
           IsRow(new), DOMAIN new = DOMAIN request[w].read, Commit(w, action, new)
    PROVE  /\ L!Write(request[w].id, request[w].actor, action, new)
           /\ request' = [request EXCEPT ![w] = Idle]
           /\ TableShape'
<1> DEFINE e == request[w].id
<1>1. /\ e \in Expenses /\ expense[e] # NULL /\ request[w].read = expense[e]
  BY DEF SerialInv, RequestShape, UpToDate
<1>2. Merged(expense[e], request[w].read, new) = new
  BY <1>1, MergedWithItself
<1>3. L!Write(e, request[w].actor, action, new)
  BY <1>1, <1>2 DEF Commit
<1>4. request' = [request EXCEPT ![w] = Idle]
  BY DEF Commit
<1>5. TableShape'
  BY <1>1, <1>3, WriteKeepsShape DEF SerialInv
<1> QED
  BY <1>3, <1>4, <1>5

\* Every step of the only worker is a step of ExpenseLifecycle or leaves the tables.
LEMMA SerialStep ==
    ASSUME OneWorker, SerialInv, [Next]_vars
    PROVE  [L!Next]_(L!vars) /\ SerialInv'
<1>1. CASE UNCHANGED vars
  BY <1>1 DEF vars, L!vars, SerialInv, TableShape, RequestShape, UpToDate, IsRow, Permits,
             CanUpdate, CanSubmit, CanVerify, CanApprove, CanPay, CanLock, CanReject, CanDelete
<1>2. ASSUME NEW w \in Worker, Insert(w)
      PROVE  [L!Next]_(L!vars) /\ SerialInv'
  <2>1. PICK e \in Expenses, actor \in User : L!Create(e, actor) \/ L!PostPayroll(e, actor)
    BY <1>2 DEF Insert
  <2>2. L!Next
    BY <2>1 DEF L!Next, L!Handler
  <2>3. TableShape'
    <3>1. CASE L!Create(e, actor)
      <4>1. PICK expense_type, p, amount, category :
                L!Write(e, actor, "CREATE", L!NewExpense(expense_type, p, amount, category, actor))
        BY <3>1 DEF L!Create
      <4>2. L!NewExpense(expense_type, p, amount, category, actor)
            = NewExpense(expense_type, p, amount, category, actor)
        BY DEF L!NewExpense, NewExpense
      <4> QED
        BY <4>1, <4>2, NewRowShape, WriteKeepsShape DEF SerialInv
    <3>2. CASE L!PostPayroll(e, actor)
      <4>1. PICK amount \in Amounts :
                expense' = [expense EXCEPT ![e] = L!PayrollExpense(amount, actor)]
        BY <3>2 DEF L!PostPayroll
      <4>2. L!PayrollExpense(amount, actor) = PayrollExpense(amount, actor)
        BY DEF L!PayrollExpense, PayrollExpense, L!NewExpense, NewExpense
      <4>3. IsRow(PayrollExpense(amount, actor))
        BY NewRowShape
      <4> QED
        BY <4>1, <4>2, <4>3 DEF SerialInv, TableShape, IsRow
    <3> QED
      BY <2>1, <3>1, <3>2
  <2>4. RequestShape'
    BY <1>2 DEF Insert, OneWorker, SerialInv, RequestShape
  <2> QED
    BY <2>2, <2>3, <2>4 DEF SerialInv
<1>3. ASSUME NEW w \in Worker, Administer(w)
      PROVE  [L!Next]_(L!vars) /\ SerialInv'
  <2>1. L!Next
    BY <1>3 DEF Administer, L!Next
  <2>2. \/ UNCHANGED expense
        \/ \E p \in Project : expense' = [e \in Expenses |->
               IF expense[e] # NULL /\ expense[e].project = p THEN NULL ELSE expense[e]]
    BY <1>3 DEF Administer, L!Administration, L!ToggleRule, L!ArchiveProject, L!DeleteProject
  <2>3. TableShape'
    BY <2>2 DEF SerialInv, TableShape, IsRow
  <2>4. RequestShape'
    BY <1>3 DEF Administer, OneWorker, SerialInv, RequestShape
  <2> QED
    BY <2>1, <2>3, <2>4 DEF SerialInv
<1>4. ASSUME NEW w \in Worker, Begin(w)
      PROVE  [L!Next]_(L!vars) /\ SerialInv'
  <2>1. UNCHANGED L!vars
    BY <1>4 DEF Begin, table, L!vars
  <2>2. TableShape'
    BY <1>4 DEF Begin, table, SerialInv, TableShape, IsRow
  <2>3. PICK op \in Operation, actor \in User, e \in Expenses :
            /\ expense[e] # NULL
            /\ Permits(op, actor, expense[e])
            /\ request' = [request EXCEPT ![w] =
                   [op |-> op, actor |-> actor, id |-> e, read |-> expense[e]]]
    BY <1>4 DEF Begin
  <2>4. PICK q : q = [op |-> op, actor |-> actor, id |-> e, read |-> expense[e]]
    OBVIOUS
  <2>5. request' = [request EXCEPT ![w] = q]
    BY <2>3, <2>4
  <2>6. expense' = expense
    BY <1>4 DEF Begin, table
  <2>7. UpToDate(q)'
    BY <2>3, <2>4, <2>6
       DEF UpToDate, Permits, CanUpdate, CanSubmit, CanVerify, CanApprove, CanPay, CanLock,
           CanReject, CanDelete
  <2>8. request'[w] = q /\ request' = [v \in Worker |-> request'[v]]
    BY <2>5 DEF SerialInv, RequestShape
  <2>9. RequestShape'
    BY <2>7, <2>8 DEF OneWorker, RequestShape
  <2> QED
    BY <2>1, <2>2, <2>9 DEF SerialInv
<1>5. ASSUME NEW w \in Worker, Abort(w)
      PROVE  [L!Next]_(L!vars) /\ SerialInv'
  <2>1. UNCHANGED L!vars
    BY <1>5 DEF Abort, table, L!vars
  <2>2. TableShape'
    BY <1>5 DEF Abort, table, SerialInv, TableShape, IsRow
  <2>3. RequestShape'
    BY <1>5 DEF Abort, OneWorker, SerialInv, RequestShape
  <2> QED
    BY <2>1, <2>2, <2>3 DEF SerialInv
<1>6. ASSUME NEW w \in Worker, Finish(w)
      PROVE  [L!Next]_(L!vars) /\ SerialInv'
  <2> DEFINE e == request[w].id
             actor == request[w].actor
             row == request[w].read
  <2>1. request[w] # Idle
    BY <1>6 DEF Finish
  <2>2. /\ e \in Expenses /\ actor \in User /\ expense[e] # NULL /\ row = expense[e]
        /\ IsRow(row)
        /\ Permits(request[w].op, actor, row)
    BY <2>1 DEF SerialInv, RequestShape, TableShape, UpToDate
  <2>3. L!Exists(e)
    BY <2>2 DEF L!Exists
  <2>4. ASSUME request' = [request EXCEPT ![w] = Idle]
        PROVE  RequestShape'
    BY <2>4 DEF OneWorker, SerialInv, RequestShape
  <2>5. ASSUME L!Handler(e, actor)
        PROVE  L!Next
    BY <2>2, <2>5 DEF L!Next
  <2>6. CASE FinishUpdate(w)
    <3>1. PICK amount \in Amounts, category \in Categories :
              Commit(w, "UPDATE", Edited(row, amount, category))
      BY <2>6 DEF FinishUpdate
    <3>2. /\ L!Write(e, actor, "UPDATE", Edited(row, amount, category))
          /\ request' = [request EXCEPT ![w] = Idle] /\ TableShape'
      BY <2>1, <2>2, <3>1, EffectsKeepColumns, CommitWrites
    <3>3. L!CanUpdate(actor, row)
      BY <2>2, <2>6, SameGuards DEF FinishUpdate, Permits
    <3>4. L!Update(e, actor)
      BY <2>2, <2>3, <3>2, <3>3, SameEffects DEF L!Update
    <3> QED
      BY <2>4, <2>5, <3>2, <3>4 DEF L!Handler, SerialInv
  <2>7. CASE FinishSubmit(w)
    <3>1. PICK chain \in SubmissionChains(rules, row.expense_type, row.amount, row.category) :
              Commit(w, "SUBMIT", Started(row, actor, chain))
      BY <2>7 DEF FinishSubmit
    <3>2. /\ L!Write(e, actor, "SUBMIT", Started(row, actor, chain))
          /\ request' = [request EXCEPT ![w] = Idle] /\ TableShape'
      BY <2>1, <2>2, <3>1, EffectsKeepColumns, CommitWrites
    <3>3. L!CanSubmit(actor, row)
      BY <2>2, <2>7, SameGuards DEF FinishSubmit, Permits
    <3>4. chain \in L!SubmissionChains(rules, row.expense_type, row.amount, row.category)
      BY <3>1, SameChains
    <3>5. L!Submit(e, actor)
      BY <2>2, <2>3, <3>2, <3>3, <3>4, SameEffects DEF L!Submit
    <3> QED
      BY <2>4, <2>5, <3>2, <3>5 DEF L!Handler, SerialInv
  <2>8. CASE FinishVerify(w)
    <3>1. Commit(w, VerifyAction(actor), Verified(row, actor))
      BY <2>8 DEF FinishVerify
    <3>2. /\ L!Write(e, actor, VerifyAction(actor), Verified(row, actor))
          /\ request' = [request EXCEPT ![w] = Idle] /\ TableShape'
      BY <2>1, <2>2, <3>1, EffectsKeepColumns, CommitWrites
    <3>3. L!CanVerify(actor, row)
      BY <2>2, <2>8, SameGuards DEF FinishVerify, Permits
    <3>4. L!Verify(e, actor)
      BY <2>2, <2>3, <3>2, <3>3, SameEffects DEF L!Verify
    <3> QED
      BY <2>4, <2>5, <3>2, <3>4 DEF L!Handler, SerialInv
  <2>9. CASE FinishApprove(w)
    <3>1. Commit(w, "APPROVE", Approved(row, actor))
      BY <2>9 DEF FinishApprove
    <3>2. /\ L!Write(e, actor, "APPROVE", Approved(row, actor))
          /\ request' = [request EXCEPT ![w] = Idle] /\ TableShape'
      BY <2>1, <2>2, <3>1, EffectsKeepColumns, CommitWrites
    <3>3. L!CanApprove(actor, row)
      BY <2>2, <2>9, SameGuards DEF FinishApprove, Permits
    <3>4. L!Approve(e, actor)
      BY <2>2, <2>3, <3>2, <3>3, SameEffects DEF L!Approve
    <3> QED
      BY <2>4, <2>5, <3>2, <3>4 DEF L!Handler, SerialInv
  <2>10. CASE FinishPay(w)
    <3>1. Commit(w, "PAY", Paid(row, actor))
      BY <2>10 DEF FinishPay
    <3>2. /\ L!Write(e, actor, "PAY", Paid(row, actor))
          /\ request' = [request EXCEPT ![w] = Idle] /\ TableShape'
      BY <2>1, <2>2, <3>1, EffectsKeepColumns, CommitWrites
    <3>3. L!CanPay(actor, row)
      BY <2>2, <2>10, SameGuards DEF FinishPay, Permits
    <3>4. L!Pay(e, actor)
      BY <2>2, <2>3, <3>2, <3>3, SameEffects DEF L!Pay
    <3> QED
      BY <2>4, <2>5, <3>2, <3>4 DEF L!Handler, SerialInv
  <2>11. CASE FinishLock(w)
    <3>1. Commit(w, "HARD_LOCK", Locked(row, actor))
      BY <2>11 DEF FinishLock
    <3>2. /\ L!Write(e, actor, "HARD_LOCK", Locked(row, actor))
          /\ request' = [request EXCEPT ![w] = Idle] /\ TableShape'
      BY <2>1, <2>2, <3>1, EffectsKeepColumns, CommitWrites
    <3>3. L!CanLock(actor, row)
      BY <2>2, <2>11, SameGuards DEF FinishLock, Permits
    <3>4. L!Lock(e, actor)
      BY <2>2, <2>3, <3>2, <3>3, SameEffects DEF L!Lock
    <3> QED
      BY <2>4, <2>5, <3>2, <3>4 DEF L!Handler, SerialInv
  <2>12. CASE FinishReject(w)
    <3>1. Commit(w, "REJECT", Rejected(row, actor))
      BY <2>12 DEF FinishReject
    <3>2. /\ L!Write(e, actor, "REJECT", Rejected(row, actor))
          /\ request' = [request EXCEPT ![w] = Idle] /\ TableShape'
      BY <2>1, <2>2, <3>1, EffectsKeepColumns, CommitWrites
    <3>3. L!CanReject(actor, row)
      BY <2>2, <2>12, SameGuards DEF FinishReject, Permits
    <3>4. L!Reject(e, actor)
      BY <2>2, <2>3, <3>2, <3>3, SameEffects DEF L!Reject
    <3> QED
      BY <2>4, <2>5, <3>2, <3>4 DEF L!Handler, SerialInv
  <2>13. CASE FinishDelete(w)
    <3>1. /\ L!Write(e, actor, "DELETE", NULL)
          /\ request' = [request EXCEPT ![w] = Idle]
      BY <2>13 DEF FinishDelete
    <3>2. TableShape'
      BY <2>2, <3>1, WriteKeepsShape DEF SerialInv
    <3>3. L!CanDelete(actor, row)
      BY <2>2, <2>13, SameGuards DEF FinishDelete, Permits
    <3>4. L!Delete(e, actor)
      BY <2>2, <2>3, <3>1, <3>3 DEF L!Delete
    <3> QED
      BY <2>4, <2>5, <3>1, <3>2, <3>4 DEF L!Handler, SerialInv
  <2> QED
    BY <1>6, <2>6, <2>7, <2>8, <2>9, <2>10, <2>11, <2>12, <2>13 DEF Finish
<1> QED
  BY <1>1, <1>2, <1>3, <1>4, <1>5, <1>6 DEF Next

\* With one worker the handlers, split into read and commit, aborts included, do
\* nothing ExpenseLifecycle does not: whatever is proved of whole handlers holds of
\* the split ones (get_db opens one session per request, and nobody else writes).
THEOREM SerialRefines == ASSUME OneWorker PROVE Spec => SerialSpec
<1>1. Init => L!Init
  BY DEF Init
<1> QED
  BY <1>1, SerialInit, SerialStep, PTL DEF Spec, SerialSpec, L!Spec
---------------------------------------------------------------------------
\* What any number of workers keep: the money stays accounted for.

\* The types of ExpenseLifecycle are the types of this module.
LEMMA SameTypes ==
    /\ L!Expense = Expense
    /\ L!Role = Role
<1>1. L!Role = Role
  BY DEF L!Role, Role
<1>2. L!HistoryEvent = HistoryEvent
  BY <1>1 DEF L!HistoryEvent, HistoryEvent
<1>3. L!ExpenseStatus = ExpenseStatus /\ L!Category = Category
  BY DEF L!ExpenseStatus, ExpenseStatus, L!Category, Category
<1>4. L!Expense = Expense
  BY <1>1, <1>2, <1>3 DEF L!Expense, Expense
<1> QED
  BY <1>1, <1>4

Trail == Seq(L!AuditEntry)

\* Someone signed for an expense after it was submitted.
Signed(trail) ==
    \E k \in At(trail, {"SUBMIT"}), j \in At(trail, L!SignOff) : k < j

\* What the audit trail of an expense tells of any version of its row, be it the
\* present one or one a handler loaded some time ago.
Told(row, trail) ==
    /\ row.status \in InFlight => At(trail, {"SUBMIT"}) # {}
    /\ row.status \in {"approved"} \cup Settled => row.payroll \/ Signed(trail)
    /\ row.status \in Settled => At(trail, {"PAY"}) # {}
    /\ row.paid_by # NULL => At(trail, {"PAY"}) # {}
    /\ row.payroll => row.project = NULL
    /\ row.payroll \/ trail # <<>>

RowsTold == \A e \in Expenses : expense[e] # NULL => Told(expense[e], audit[e])

\* What a handler at work holds was there once, and it was permitted what it does; a
\* payroll row is still there, for nothing deletes one.
Held(q) ==
    /\ Permits(q.op, q.actor, q.read)
    /\ Told(q.read, audit[q.id])
    /\ q.read.payroll => expense[q.id] # NULL
    /\ expense[q.id] # NULL => expense[q.id].payroll = q.read.payroll

ReadsHeld == \A w \in Worker : request[w] # Idle => Held(request[w])

Tables == TypeOK /\ RowsTold /\ ReadsHeld

IInv == Tables /\ PaymentSigned /\ PayerRecorded

\* A trail only grows.
LEMMA TrailGrows ==
    ASSUME NEW trail \in Trail, NEW entry
    PROVE  LET longer == Append(trail, entry)
               last == Len(trail) + 1
           IN  /\ longer # <<>>
               /\ \A actions : At(trail, actions) \subseteq At(longer, actions)
               /\ \A actions : \A i \in At(longer, actions) :
                      i \in At(trail, actions) \/ i = last
               /\ \A actions : last \in At(longer, actions) <=> entry.action \in actions
               /\ \A i \in 1 .. Len(trail) : longer[i] = trail[i]
               /\ longer[last] = entry
               /\ \A actions : \A i \in At(trail, actions) : i \in Nat /\ i < last
               /\ last \in Nat
<1> DEFINE longer == Append(trail, entry)
           last == Len(trail) + 1
<1>1. /\ Len(trail) \in Nat
      /\ Len(longer) = last
      /\ \A i \in 1 .. Len(trail) : longer[i] = trail[i]
      /\ longer[last] = entry
  BY DEF Trail
<1>2. last \in Nat /\ \A i : i \in 1 .. last <=> (i \in 1 .. Len(trail) \/ i = last)
  BY <1>1
<1>3. \A i \in 1 .. Len(trail) : i \in Nat /\ i < last
  BY <1>1
<1>4. longer # <<>>
  BY <1>1
<1> HIDE DEF longer, last
<1>5. \A actions, i : i \in At(trail, actions) <=>
          i \in 1 .. Len(trail) /\ trail[i].action \in actions
  BY DEF At
<1>6. \A actions, i : i \in At(longer, actions) <=>
          i \in 1 .. last /\ longer[i].action \in actions
  BY <1>1 DEF At
<1>7. last \in 1 .. last
  BY <1>2
<1>8. \A actions : \A i \in At(longer, actions) : i \in At(trail, actions) \/ i = last
  BY <1>1, <1>2, <1>5, <1>6, Zenon
<1>9. \A actions : At(trail, actions) \subseteq At(longer, actions)
  BY <1>1, <1>2, <1>5, <1>6, Zenon
<1>10. \A actions : last \in At(longer, actions) <=> entry.action \in actions
  BY <1>1, <1>6, <1>7, Zenon
<1>11. \A actions : \A i \in At(trail, actions) : i \in Nat /\ i < last
  BY <1>3, <1>5, Zenon
<1> QED
  BY <1>1, <1>2, <1>4, <1>8, <1>9, <1>10, <1>11, Zenon DEF longer, last

\* What a trail tells of a row it tells for ever.
LEMMA StillTold ==
    ASSUME NEW trail \in Trail, NEW entry, NEW row, Told(row, trail)
    PROVE  /\ Told(row, Append(trail, entry))
           /\ Signed(trail) => Signed(Append(trail, entry))
<1> DEFINE longer == Append(trail, entry)
<1>1. /\ longer # <<>>
      /\ \A actions : At(trail, actions) \subseteq At(longer, actions)
  BY TrailGrows
<1> HIDE DEF longer
<1>2. Signed(trail) => Signed(longer)
  BY <1>1 DEF Signed
<1>3. \A actions : At(trail, actions) # {} => At(longer, actions) # {}
  BY <1>1
<1>4. Told(row, longer)
  BY <1>1, <1>2, <1>3 DEF Told
<1> QED
  BY <1>2, <1>4 DEF longer

\* A sign-off after a submission is a signature for it.
LEMMA SignOffSigns ==
    ASSUME NEW trail \in Trail, At(trail, {"SUBMIT"}) # {}, NEW entry, entry.action \in L!SignOff
    PROVE  Signed(Append(trail, entry))
<1> DEFINE longer == Append(trail, entry)
           last == Len(trail) + 1
<1>1. PICK k : k \in At(trail, {"SUBMIT"})
  OBVIOUS
<1>2. k \in At(longer, {"SUBMIT"}) /\ last \in At(longer, L!SignOff) /\ k < last
  BY <1>1, TrailGrows
<1> HIDE DEF longer, last
<1>3. Signed(longer)
  BY <1>2 DEF Signed
<1> QED
  BY <1>3 DEF longer

---------------------------------------------------------------------------
\* A commit mixes two versions of a row.

\* Each column of the mix comes from one of the two.
LEMMA MergedColumns ==
    ASSUME NEW current \in Expense, NEW read \in Expense, NEW new \in Expense
    PROVE  LET mix == Merged(current, read, new)
           IN  /\ mix \in Expense
               /\ mix.status \in {current.status, new.status}
               /\ mix.payroll = IF new.payroll # read.payroll THEN new.payroll
                                ELSE current.payroll
               /\ mix.project = IF new.project # read.project THEN new.project
                                ELSE current.project
               /\ mix.paid_by = IF new.paid_by # read.paid_by THEN new.paid_by
                                ELSE current.paid_by
<1> DEFINE Columns == {"expense_type", "project", "amount", "category", "payroll", "status",
                       "submitted_by", "receipt_reviewed_by", "verified_by", "approved_by",
                       "paid_by", "current_approver_role", "approval_chain", "approval_step",
                       "approval_history", "rejection_reason"}
           mix == Merged(current, read, new)
<1>1. DOMAIN current = Columns
  BY DEF Expense
<1>2. mix = [column \in Columns |->
                IF new[column] # read[column] THEN new[column] ELSE current[column]]
  BY <1>1 DEF Merged
<1>3. \A column \in Columns :
          mix[column] = IF new[column] # read[column] THEN new[column] ELSE current[column]
  BY <1>2
<1>4. mix = [expense_type |-> mix.expense_type, project |-> mix.project,
             amount |-> mix.amount, category |-> mix.category, payroll |-> mix.payroll,
             status |-> mix.status, submitted_by |-> mix.submitted_by,
             receipt_reviewed_by |-> mix.receipt_reviewed_by,
             verified_by |-> mix.verified_by, approved_by |-> mix.approved_by,
             paid_by |-> mix.paid_by, current_approver_role |-> mix.current_approver_role,
             approval_chain |-> mix.approval_chain, approval_step |-> mix.approval_step,
             approval_history |-> mix.approval_history,
             rejection_reason |-> mix.rejection_reason]
  BY <1>2
<1> HIDE DEF mix
<1>5. /\ mix.expense_type \in {new.expense_type, current.expense_type}
      /\ mix.project \in {new.project, current.project}
      /\ mix.amount \in {new.amount, current.amount}
      /\ mix.category \in {new.category, current.category}
      /\ mix.payroll \in {new.payroll, current.payroll}
      /\ mix.status \in {new.status, current.status}
      /\ mix.submitted_by \in {new.submitted_by, current.submitted_by}
      /\ mix.receipt_reviewed_by \in {new.receipt_reviewed_by, current.receipt_reviewed_by}
  BY <1>3
<1>6. /\ mix.verified_by \in {new.verified_by, current.verified_by}
      /\ mix.approved_by \in {new.approved_by, current.approved_by}
      /\ mix.paid_by \in {new.paid_by, current.paid_by}
      /\ mix.current_approver_role \in
             {new.current_approver_role, current.current_approver_role}
      /\ mix.approval_chain \in {new.approval_chain, current.approval_chain}
      /\ mix.approval_step \in {new.approval_step, current.approval_step}
      /\ mix.approval_history \in {new.approval_history, current.approval_history}
      /\ mix.rejection_reason \in {new.rejection_reason, current.rejection_reason}
  BY <1>3
<1>7. mix \in Expense
  <2>1. /\ mix.expense_type \in {"regular", "reimbursement"}
        /\ mix.project \in Project \cup {NULL}
        /\ mix.amount \in Amounts /\ mix.category \in Category
        /\ mix.payroll \in BOOLEAN /\ mix.status \in ExpenseStatus
        /\ mix.submitted_by \in User /\ mix.receipt_reviewed_by \in User \cup {NULL}
    BY <1>5 DEF Expense
  <2>2. /\ mix.verified_by \in User \cup {NULL} /\ mix.approved_by \in User \cup {NULL}
        /\ mix.paid_by \in User \cup {NULL}
        /\ mix.current_approver_role \in Role \cup {NULL}
        /\ mix.approval_chain \in Seq(Role) /\ mix.approval_step \in Nat
        /\ mix.approval_history \in Seq(HistoryEvent)
        /\ mix.rejection_reason \in BOOLEAN
    BY <1>6 DEF Expense
  <2> QED
    BY <1>4, <2>1, <2>2, Zenon DEF Expense
<1>8. /\ mix.status \in {current.status, new.status}
      /\ mix.payroll = IF new.payroll # read.payroll THEN new.payroll ELSE current.payroll
      /\ mix.project = IF new.project # read.project THEN new.project ELSE current.project
      /\ mix.paid_by = IF new.paid_by # read.paid_by THEN new.paid_by ELSE current.paid_by
  BY <1>3, <1>5
<1> QED
  BY <1>7, <1>8 DEF mix

---------------------------------------------------------------------------
\* What the handlers make of the row they loaded, whatever its columns hold.

\* The columns no handler writes.
Keeps(row, new) == new \in Expense /\ new.payroll = row.payroll /\ new.project = row.project

LEMMA EventKeeps ==
    ASSUME NEW row \in Expense, NEW actor \in User,
           NEW action \in {"SUBMIT", "RECEIPT_REVIEW", "VERIFY", "APPROVE", "PAY", "HARD_LOCK",
                           "REJECT"}
    PROVE  LET new == WithEvent(row, action, actor)
           IN  Keeps(row, new) /\ new.status = row.status /\ new.paid_by = row.paid_by
<1> DEFINE event == [action |-> action, role |-> row.current_approver_role, user |-> actor]
           history == Append(row.approval_history, event)
           new == WithEvent(row, action, actor)
<1>1. event \in HistoryEvent
  BY DEF HistoryEvent, Expense
<1>2. history \in Seq(HistoryEvent)
  BY <1>1 DEF Expense
<1>3. new = [row EXCEPT !.approval_history = history]
  BY DEF WithEvent
<1> HIDE DEF history, new
<1>4. new \in Expense /\ new.payroll = row.payroll /\ new.project = row.project
      /\ new.status = row.status /\ new.paid_by = row.paid_by
  BY <1>2, <1>3 DEF Expense
<1> QED
  BY <1>4 DEF Keeps, new

LEMMA AdvanceKeeps ==
    ASSUME NEW row \in Expense
    PROVE  LET new == Advanced(row)
           IN  /\ Keeps(row, new) /\ new.paid_by = row.paid_by
               /\ new.status \in {row.status, "verified", "approved"}
<1> DEFINE step == row.approval_step + 1
           last == step >= Len(row.approval_chain)
           status == IF last THEN "approved"
                     ELSE IF row.approval_chain[step] = "COST_CONTROL"
                          THEN "verified" ELSE row.status
           role == IF last THEN NULL ELSE row.approval_chain[step + 1]
           new == Advanced(row)
<1>1. step \in Nat \ {0} /\ row.approval_chain \in Seq(Role)
  BY DEF Expense
<1>2. new = [row EXCEPT !.approval_step = step, !.status = status,
                        !.current_approver_role = role]
  <2>1. CASE last
    BY <1>1, <2>1 DEF Advanced
  <2>2. CASE ~ last
    BY <1>1, <2>2 DEF Advanced
  <2> QED
    BY <2>1, <2>2
<1>3. /\ status \in ExpenseStatus /\ status \in {row.status, "verified", "approved"}
      /\ role \in Role \cup {NULL}
  BY <1>1 DEF Expense, ExpenseStatus
<1> HIDE DEF last, status, role, new
<1>4. step \in Nat
  BY <1>1
<1> HIDE DEF step
<1>5. /\ new \in Expense /\ new.payroll = row.payroll /\ new.project = row.project
      /\ new.paid_by = row.paid_by /\ new.status = status
  BY <1>2, <1>3, <1>4 DEF Expense
<1> QED
  BY <1>3, <1>5 DEF Keeps, new

\* What became of the columns the audit trail vouches for.
LEMMA Effects ==
    ASSUME NEW row \in Expense, NEW actor \in User
    PROVE  /\ \A amount \in Amounts, category \in Categories :
                  LET new == Edited(row, amount, category)
                  IN  Keeps(row, new) /\ new.status = row.status /\ new.paid_by = row.paid_by
           /\ \A chain \in Seq(Role) :
                  LET new == Started(row, actor, chain)
                  IN  Keeps(row, new) /\ new.status = "submitted" /\ new.paid_by = row.paid_by
           /\ LET new == Verified(row, actor)
              IN  /\ Keeps(row, new) /\ new.paid_by = row.paid_by
                  /\ new.status \in {row.status, "verified", "approved"}
           /\ LET new == Approved(row, actor)
              IN  /\ Keeps(row, new) /\ new.paid_by = row.paid_by
                  /\ new.status \in {row.status, "verified", "approved"}
           /\ LET new == Paid(row, actor)
              IN  Keeps(row, new) /\ new.status = "paid" /\ new.paid_by = actor
           /\ LET new == Locked(row, actor)
              IN  Keeps(row, new) /\ new.status = "hard_locked" /\ new.paid_by = row.paid_by
           /\ LET new == Rejected(row, actor)
              IN  Keeps(row, new) /\ new.status = "rejected" /\ new.paid_by = row.paid_by
<1>1. ASSUME NEW stamped \in Expense,
             NEW action \in {"SUBMIT", "RECEIPT_REVIEW", "VERIFY", "APPROVE", "PAY",
                             "HARD_LOCK", "REJECT"},
             stamped.payroll = row.payroll, stamped.project = row.project
      PROVE  LET noted == WithEvent(stamped, action, actor)
                 after == Advanced(noted)
             IN  /\ Keeps(row, noted) /\ noted.status = stamped.status
                 /\ noted.paid_by = stamped.paid_by
                 /\ Keeps(row, after) /\ after.paid_by = stamped.paid_by
                 /\ after.status \in {stamped.status, "verified", "approved"}
  <2> DEFINE noted == WithEvent(stamped, action, actor)
             after == Advanced(noted)
  <2>1. Keeps(stamped, noted) /\ noted.status = stamped.status
        /\ noted.paid_by = stamped.paid_by
    BY <1>1, EventKeeps
  <2> HIDE DEF noted
  <2>2. noted \in Expense
    BY <2>1 DEF Keeps
  <2>3. /\ Keeps(noted, after) /\ after.paid_by = noted.paid_by
        /\ after.status \in {noted.status, "verified", "approved"}
    BY <2>2, AdvanceKeeps
  <2> HIDE DEF after
  <2>4. Keeps(row, noted) /\ Keeps(row, after)
    BY <1>1, <2>1, <2>3 DEF Keeps
  <2> QED
    BY <2>1, <2>3, <2>4 DEF noted, after
<1>2. ASSUME NEW amount \in Amounts, NEW category \in Categories
      PROVE  LET new == Edited(row, amount, category)
             IN  Keeps(row, new) /\ new.status = row.status /\ new.paid_by = row.paid_by
  BY AmountAssumption DEF Edited, Expense, Keeps
<1>3. ASSUME NEW chain \in Seq(Role)
      PROVE  LET new == Started(row, actor, chain)
             IN  Keeps(row, new) /\ new.status = "submitted" /\ new.paid_by = row.paid_by
  <2> DEFINE first == IF chain = <<>> THEN NULL ELSE chain[1]
             stamped == [row EXCEPT !.status = "submitted", !.submitted_by = actor,
                                    !.approval_chain = chain, !.approval_step = 0,
                                    !.current_approver_role = first,
                                    !.rejection_reason = FALSE]
  <2>1. first \in Role \cup {NULL}
    OBVIOUS
  <2>2. Started(row, actor, chain) = WithEvent(stamped, "SUBMIT", actor)
    BY DEF Started
  <2> HIDE DEF first
  <2>3. stamped \in Expense
    BY <2>1 DEF Expense, ExpenseStatus
  <2>4. /\ stamped.payroll = row.payroll /\ stamped.project = row.project
        /\ stamped.status = "submitted" /\ stamped.paid_by = row.paid_by
    BY DEF Expense
  <2> HIDE DEF stamped
  <2> QED
    BY <1>1, <2>2, <2>3, <2>4
<1>4. LET new == Verified(row, actor)
      IN  /\ Keeps(row, new) /\ new.paid_by = row.paid_by
          /\ new.status \in {row.status, "verified", "approved"}
  <2> DEFINE stamped == IF RoleOf[actor] \in {"GA", "HR"}
                        THEN [row EXCEPT !.receipt_reviewed_by = actor]
                        ELSE [row EXCEPT !.verified_by = actor]
  <2>1. /\ stamped \in Expense
        /\ stamped.payroll = row.payroll /\ stamped.project = row.project
        /\ stamped.status = row.status /\ stamped.paid_by = row.paid_by
    BY DEF Expense
  <2>2. Verified(row, actor) = Advanced(WithEvent(stamped, VerifyAction(actor), actor))
    BY DEF Verified
  <2>3. VerifyAction(actor) \in {"RECEIPT_REVIEW", "VERIFY"}
    BY DEF VerifyAction
  <2> HIDE DEF stamped
  <2> QED
    BY <1>1, <2>1, <2>2, <2>3
<1>5. LET new == Approved(row, actor)
      IN  /\ Keeps(row, new) /\ new.paid_by = row.paid_by
          /\ new.status \in {row.status, "verified", "approved"}
  <2> DEFINE stamped == [row EXCEPT !.approved_by = actor]
  <2>1. /\ stamped \in Expense
        /\ stamped.payroll = row.payroll /\ stamped.project = row.project
        /\ stamped.status = row.status /\ stamped.paid_by = row.paid_by
    BY DEF Expense
  <2>2. Approved(row, actor) = Advanced(WithEvent(stamped, "APPROVE", actor))
    BY DEF Approved
  <2> HIDE DEF stamped
  <2> QED
    BY <1>1, <2>1, <2>2
<1>6. LET new == Paid(row, actor)
      IN  Keeps(row, new) /\ new.status = "paid" /\ new.paid_by = actor
  <2> DEFINE stamped == [row EXCEPT !.status = "paid", !.paid_by = actor,
                                    !.current_approver_role = NULL]
  <2>1. /\ stamped \in Expense
        /\ stamped.payroll = row.payroll /\ stamped.project = row.project
        /\ stamped.status = "paid" /\ stamped.paid_by = actor
    BY DEF Expense, ExpenseStatus
  <2>2. Paid(row, actor) = WithEvent(stamped, "PAY", actor)
    BY DEF Paid
  <2> HIDE DEF stamped
  <2> QED
    BY <1>1, <2>1, <2>2
<1>7. LET new == Locked(row, actor)
      IN  Keeps(row, new) /\ new.status = "hard_locked" /\ new.paid_by = row.paid_by
  <2> DEFINE stamped == [row EXCEPT !.status = "hard_locked"]
  <2>1. /\ stamped \in Expense
        /\ stamped.payroll = row.payroll /\ stamped.project = row.project
        /\ stamped.status = "hard_locked" /\ stamped.paid_by = row.paid_by
    BY DEF Expense, ExpenseStatus
  <2>2. Locked(row, actor) = WithEvent(stamped, "HARD_LOCK", actor)
    BY DEF Locked
  <2> HIDE DEF stamped
  <2> QED
    BY <1>1, <2>1, <2>2
<1>8. LET new == Rejected(row, actor)
      IN  Keeps(row, new) /\ new.status = "rejected" /\ new.paid_by = row.paid_by
  <2> DEFINE stamped == [row EXCEPT !.status = "rejected", !.rejection_reason = TRUE,
                                    !.current_approver_role = NULL]
  <2>1. /\ stamped \in Expense
        /\ stamped.payroll = row.payroll /\ stamped.project = row.project
        /\ stamped.status = "rejected" /\ stamped.paid_by = row.paid_by
    BY DEF Expense, ExpenseStatus
  <2>2. Rejected(row, actor) = WithEvent(stamped, "REJECT", actor)
    BY DEF Rejected
  <2> HIDE DEF stamped
  <2> QED
    BY <1>1, <2>1, <2>2
<1> QED
  BY <1>2, <1>3, <1>4, <1>5, <1>6, <1>7, <1>8

\* A submission is given a sequence of roles: there are finitely many of them.
LEMMA ChainType ==
    ASSUME NEW active \in SUBSET RulePool, NEW expense_type, NEW amount, NEW category,
           NEW chain \in SubmissionChains(active, expense_type, amount, category)
    PROVE  chain \in Seq(Role)
<1>1. CASE expense_type = "reimbursement"
  <2>1. chain = <<"GA", "COST_CONTROL", "FINANCE">>
    BY <1>1 DEF SubmissionChains, ReimbursementChain
  <2> QED
    BY <2>1 DEF Role
<1>2. CASE expense_type # "reimbursement"
  <2> DEFINE required == {rule.required_role : rule \in MatchingRules(active, amount, category)}
             n == Cardinality(required)
  <2>1. PICK matrix \in MatrixChains(active, amount, category) :
            chain = IF "COST_CONTROL" \in RolesIn(matrix) THEN matrix
                    ELSE <<"COST_CONTROL">> \o matrix
    BY <1>2 DEF SubmissionChains
  <2>2. required \subseteq Role
    BY RequestAssumption DEF MatchingRules, ApprovalRule
  <2>3. IsFiniteSet(Role)
    <3>1. \A S, x : IsFiniteSet(S) => IsFiniteSet(S \cup {x})
      BY FS_AddElement
    <3>2. IsFiniteSet({"SUPER_ADMIN"} \cup {"MD"} \cup {"PM"} \cup {"PROJECT_CONTROL"}
                      \cup {"COST_CONTROL"})
      BY <3>1, FS_Singleton
    <3>3. IsFiniteSet({"SUPER_ADMIN"} \cup {"MD"} \cup {"PM"} \cup {"PROJECT_CONTROL"}
                      \cup {"COST_CONTROL"} \cup {"FINANCE"} \cup {"GA"} \cup {"HR"}
                      \cup {"STAFF"} \cup {"WORKER"})
      BY <3>1, <3>2
    <3>4. Role = {"SUPER_ADMIN"} \cup {"MD"} \cup {"PM"} \cup {"PROJECT_CONTROL"}
                 \cup {"COST_CONTROL"} \cup {"FINANCE"} \cup {"GA"} \cup {"HR"}
                 \cup {"STAFF"} \cup {"WORKER"}
      BY DEF Role
    <3> QED
      BY <3>3, <3>4
  <2>4. n \in Nat
    BY <2>2, <2>3, FS_Subset, FS_CardinalityType
  <2>5. matrix \in [1 .. n -> required]
    BY <2>1 DEF MatrixChains
  <2> HIDE DEF n, required
  <2>6. matrix \in Seq(Role)
    BY <2>2, <2>4, <2>5
  <2>7. <<"COST_CONTROL">> \o matrix \in Seq(Role)
    BY <2>6 DEF Role
  <2> QED
    BY <2>1, <2>6, <2>7
<1> QED
  BY <1>1, <1>2

---------------------------------------------------------------------------
\* One write at a time keeps the invariant.

\* PaymentSigned and PayerRecorded, of one expense.
PaymentsSigned(row, trail) ==
    /\ \A i \in At(trail, {"PAY"}) :
           \/ row # NULL /\ row.payroll
           \/ \E j \in At(trail, L!SignOff), k \in At(trail, {"SUBMIT"}) : k < j /\ j < i
    /\ \A i \in At(trail, {"HARD_LOCK"}) : \E j \in At(trail, {"PAY"}) : j < i

PayerKnown(row, trail) ==
    IF row.paid_by = NULL THEN At(trail, {"PAY"}) = {}
    ELSE \E i \in At(trail, {"PAY"}) : trail[i].user = row.paid_by

\* A trail goes on: its payments stay signed, if the next one is.
LEMMA PaymentsStaySigned ==
    ASSUME NEW trail \in Trail, NEW entry, NEW before, NEW row, PaymentsSigned(before, trail),
           before # NULL /\ before.payroll => row # NULL /\ row.payroll,
           entry.action = "PAY" => (row # NULL /\ row.payroll) \/ Signed(trail),
           entry.action = "HARD_LOCK" => At(trail, {"PAY"}) # {}
    PROVE  PaymentsSigned(row, Append(trail, entry))
<1> DEFINE longer == Append(trail, entry)
           last == Len(trail) + 1
<1>1. /\ \A actions : At(trail, actions) \subseteq At(longer, actions)
      /\ \A actions : \A i \in At(longer, actions) : i \in At(trail, actions) \/ i = last
      /\ \A actions : last \in At(longer, actions) <=> entry.action \in actions
      /\ \A actions : \A i \in At(trail, actions) : i \in Nat /\ i < last
  BY TrailGrows
<1> HIDE DEF longer, last
<1>2. ASSUME NEW i \in At(longer, {"PAY"}), ~ (row # NULL /\ row.payroll)
      PROVE  \E j \in At(longer, L!SignOff), k \in At(longer, {"SUBMIT"}) : k < j /\ j < i
  <2>1. CASE i \in At(trail, {"PAY"})
    <3>1. PICK j \in At(trail, L!SignOff), k \in At(trail, {"SUBMIT"}) : k < j /\ j < i
      BY <1>2, <2>1 DEF PaymentsSigned
    <3> QED
      BY <1>1, <3>1
  <2>2. CASE i = last
    <3>1. entry.action = "PAY"
      BY <1>1, <2>2
    <3>2. PICK k \in At(trail, {"SUBMIT"}), j \in At(trail, L!SignOff) : k < j
      BY <1>2, <3>1 DEF Signed
    <3> QED
      BY <1>1, <2>2, <3>2
  <2> QED
    BY <1>1, <2>1, <2>2
<1>3. ASSUME NEW i \in At(longer, {"HARD_LOCK"})
      PROVE  \E j \in At(longer, {"PAY"}) : j < i
  <2>1. CASE i \in At(trail, {"HARD_LOCK"})
    BY <1>1, <2>1 DEF PaymentsSigned
  <2>2. CASE i = last
    <3>1. entry.action = "HARD_LOCK"
      BY <1>1, <2>2
    <3>2. PICK j : j \in At(trail, {"PAY"})
      BY <3>1
    <3> QED
      BY <1>1, <2>2, <3>2
  <2> QED
    BY <1>1, <2>1, <2>2
<1>4. PaymentsSigned(row, longer)
  BY <1>2, <1>3 DEF PaymentsSigned
<1> QED
  BY <1>4 DEF longer

AuditAction == {"CREATE", "UPDATE", "DELETE", "SUBMIT", "RECEIPT_REVIEW", "VERIFY",
                "APPROVE", "PAY", "HARD_LOCK", "REJECT"}

\* A row, or none, is written in the place of another, with its audit record.
LEMMA WriteAccounted ==
    ASSUME IInv, NEW e \in Expenses, NEW actor \in User, NEW action \in AuditAction,
           NEW row \in Expense \cup {NULL}, L!Write(e, actor, action, row),
           request' \in [Worker -> Request \cup {Idle}],
           \A w \in Worker : request'[w] # Idle => request'[w] = request[w],
           row # NULL =>
               LET longer == Append(audit[e], [action |-> action, user |-> actor])
               IN  Told(row, longer) /\ PayerKnown(row, longer),
           expense[e] = NULL => row = NULL \/ audit[e] = <<>>,
           expense[e] # NULL /\ row # NULL => row.payroll = expense[e].payroll,
           expense[e] # NULL /\ row = NULL => ~ expense[e].payroll,
           action = "PAY" => (row # NULL /\ row.payroll) \/ Signed(audit[e]),
           action = "HARD_LOCK" => At(audit[e], {"PAY"}) # {}
    PROVE  IInv'
<1> DEFINE entry == [action |-> action, user |-> actor]
           trail == audit[e]
           longer == Append(trail, entry)
<1>1. /\ expense \in [Expenses -> Expense \cup {NULL}] /\ audit \in [Expenses -> Trail]
      /\ rules \subseteq RulePool /\ project \in [Project -> {"active", "archived", "deleted"}]
  BY SameTypes DEF IInv, Tables, TypeOK, L!TypeOK, Trail
<1>2. /\ expense' = [expense EXCEPT ![e] = row]
      /\ audit' = [audit EXCEPT ![e] = longer]
      /\ UNCHANGED <<rules, project>>
  BY DEF L!Write
<1>3. trail \in Trail /\ entry \in L!AuditEntry /\ entry.action = action
  BY <1>1 DEF L!AuditEntry, AuditAction
<1>4. longer \in Trail
  BY <1>3 DEF Trail
<1> HIDE DEF longer
<1>5. /\ expense' \in [Expenses -> Expense \cup {NULL}] /\ audit' \in [Expenses -> Trail]
      /\ expense'[e] = row /\ audit'[e] = longer
      /\ \A f \in Expenses \ {e} : expense'[f] = expense[f] /\ audit'[f] = audit[f]
  BY <1>1, <1>2, <1>4
<1>6. TypeOK'
  BY <1>1, <1>2, <1>5, SameTypes DEF TypeOK, L!TypeOK, Trail
<1>7. RowsTold'
  <2>1. ASSUME NEW f \in Expenses, expense'[f] # NULL
        PROVE  Told(expense'[f], audit'[f])
    BY <1>5, <2>1 DEF IInv, Tables, RowsTold, longer
  <2> QED
    BY <2>1 DEF RowsTold
<1>8. ASSUME NEW w \in Worker, request'[w] # Idle
      PROVE  Held(request[w])'
  <2> DEFINE q == request[w]
  <2>1. /\ request'[w] = q /\ q # Idle
        /\ Permits(q.op, q.actor, q.read)
        /\ Told(q.read, audit[q.id])
        /\ q.read.payroll => expense[q.id] # NULL
        /\ expense[q.id] # NULL => expense[q.id].payroll = q.read.payroll
    BY <1>8 DEF IInv, Tables, ReadsHeld, Held
  <2>2. q \in Request
    BY <2>1 DEF IInv, Tables, TypeOK
  <2>3. q.id \in Expenses /\ q.read \in Expense
    BY <2>2 DEF Request
  <2> HIDE DEF q
  <2>4. Permits(q.op, q.actor, q.read)'
    BY <2>1 DEF q, Permits, CanUpdate, CanSubmit, CanVerify, CanApprove, CanPay, CanLock,
               CanReject, CanDelete
  <2>5. CASE q.id = e
    <3>1. Told(q.read, longer)
      BY <1>3, <2>1, <2>5, StillTold DEF longer
    <3>2. q.read.payroll \/ trail # <<>>
      BY <2>1, <2>5 DEF Told
    <3>3. q.read.payroll => row # NULL
      BY <2>1, <2>5
    <3>4. row # NULL => row.payroll = q.read.payroll
      BY <2>1, <2>5, <3>2
    <3>5. Permits(request'[w].op, request'[w].actor, request'[w].read)
      BY <2>1
    <3> QED
      BY <1>5, <2>1, <2>5, <3>1, <3>3, <3>4, <3>5 DEF Held
  <2>6. CASE q.id # e
    <3>1. expense'[q.id] = expense[q.id] /\ audit'[q.id] = audit[q.id]
      BY <1>5, <2>3, <2>6
    <3>2. Permits(request'[w].op, request'[w].actor, request'[w].read)
      BY <2>1
    <3> QED
      BY <2>1, <3>1, <3>2 DEF Held
  <2> QED
    BY <2>5, <2>6
<1>9. ASSUME NEW f \in Expenses
      PROVE  PaymentsSigned(expense'[f], audit'[f])
  <2>1. PaymentsSigned(expense[f], audit[f])
    BY DEF IInv, PaymentSigned, PaymentsSigned
  <2>2. CASE f = e
    <3>1. PaymentsSigned(expense[e], trail)
      BY <2>1, <2>2
    <3>2. expense[e] # NULL /\ expense[e].payroll => row # NULL /\ row.payroll
      OBVIOUS
    <3>3. /\ entry.action = "PAY" => (row # NULL /\ row.payroll) \/ Signed(trail)
          /\ entry.action = "HARD_LOCK" => At(trail, {"PAY"}) # {}
      BY <1>3
    <3>4. trail \in Trail
      BY <1>3
    <3> HIDE DEF entry, trail
    <3>5. PaymentsSigned(row, Append(trail, entry))
      BY <3>1, <3>2, <3>3, <3>4, PaymentsStaySigned
    <3> QED
      BY <1>5, <2>2, <3>5 DEF longer
  <2>3. CASE f # e
    BY <1>5, <2>1, <2>3
  <2> QED
    BY <2>2, <2>3
<1>10. ASSUME NEW f \in Expenses, expense'[f] # NULL
       PROVE  PayerKnown(expense'[f], audit'[f])
  <2>1. CASE f = e
    BY <1>5, <1>10, <2>1 DEF longer
  <2>2. CASE f # e
    <3>1. PayerKnown(expense[f], audit[f])
      BY <1>5, <1>10, <2>2 DEF IInv, PayerRecorded, PayerKnown
    <3> QED
      BY <1>5, <2>2, <3>1
  <2> QED
    BY <2>1, <2>2
<1>11. PaymentSigned'
  BY <1>9 DEF PaymentSigned, PaymentsSigned
<1>12. PayerRecorded'
  BY <1>10 DEF PayerRecorded, PayerKnown
<1> QED
  BY <1>6, <1>7, <1>8, <1>11, <1>12 DEF IInv, Tables, ReadsHeld

\* The commit of a handler, on a row that others may have written since it was loaded.
LEMMA CommitAccounted ==
    ASSUME IInv, NEW w \in Worker, request[w] # Idle, NEW action \in AuditAction, NEW new,
           Commit(w, action, new), Keeps(request[w].read, new),
           Told(new, Append(audit[request[w].id],
                            [action |-> action, user |-> request[w].actor])),
           IF action = "PAY" THEN /\ new.paid_by = request[w].actor
                                  /\ request[w].read.status = "approved"
                                  /\ new.status = "paid"
           ELSE new.paid_by = request[w].read.paid_by,
           action = "HARD_LOCK" => request[w].read.status = "paid"
    PROVE  IInv'
<1> DEFINE q == request[w]
           e == q.id
           read == q.read
           current == expense[e]
           trail == audit[e]
           entry == [action |-> action, user |-> q.actor]
           longer == Append(trail, entry)
           last == Len(trail) + 1
           row == IF current = NULL THEN NULL ELSE Merged(current, read, new)
<1>1. q \in Request
  BY DEF IInv, Tables, TypeOK
<1>2. /\ q.actor \in User /\ e \in Expenses /\ read \in Expense /\ q.actor # NULL
  BY <1>1, UserAssumption DEF Request
<1>3. current \in Expense \cup {NULL} /\ trail \in Trail
  BY <1>2, SameTypes DEF IInv, Tables, TypeOK, L!TypeOK, Trail
<1>4. /\ Told(read, trail)
      /\ current # NULL => current.payroll = read.payroll
  BY DEF IInv, Tables, ReadsHeld, Held
<1>5. current # NULL => Told(current, trail) /\ PayerKnown(current, trail)
  BY <1>2 DEF IInv, Tables, RowsTold, PayerRecorded, PayerKnown
<1>6. L!Write(e, q.actor, action, row) /\ request' = [request EXCEPT ![w] = Idle]
      /\ (current = NULL => new = read)
  BY DEF Commit
<1>7. /\ request' \in [Worker -> Request \cup {Idle}]
      /\ \A v \in Worker : request'[v] # Idle => request'[v] = request[v]
  BY <1>6 DEF IInv, Tables, TypeOK
<1>8. new \in Expense /\ new.payroll = read.payroll /\ new.project = read.project
      /\ Told(new, longer)
  BY DEF Keeps
<1>9. action = "PAY" => /\ new.paid_by = q.actor /\ read.status = "approved"
                        /\ new.status = "paid"
  OBVIOUS
<1>10. action # "PAY" => new.paid_by = read.paid_by
  OBVIOUS
<1>11. action = "HARD_LOCK" => read.status = "paid"
  OBVIOUS
<1>12. /\ \A i \in At(longer, {"PAY"}) : i \in At(trail, {"PAY"}) \/ i = last
       /\ last \in At(longer, {"PAY"}) <=> action = "PAY"
       /\ \A i \in At(trail, {"PAY"}) : i \in At(longer, {"PAY"}) /\ longer[i] = trail[i]
       /\ longer[last].user = q.actor
  <2>1. /\ \A actions : At(trail, actions) \subseteq At(longer, actions)
        /\ \A actions : \A i \in At(longer, actions) : i \in At(trail, actions) \/ i = last
        /\ \A actions : last \in At(longer, actions) <=> entry.action \in actions
        /\ \A i \in 1 .. Len(trail) : longer[i] = trail[i]
        /\ longer[last] = entry
    BY <1>3, TrailGrows
  <2>2. \A i \in At(trail, {"PAY"}) : i \in 1 .. Len(trail)
    BY DEF At
  <2> HIDE DEF longer, last
  <2> QED
    BY <2>1, <2>2
<1> HIDE DEF q, e, read, current, trail, longer, last
<1>13. ASSUME current # NULL
       PROVE  /\ row \in Expense /\ row.payroll = current.payroll
              /\ Told(row, longer) /\ PayerKnown(row, longer)
  <2> DEFINE mix == Merged(current, read, new)
  <2>1. current \in Expense
    BY <1>3, <1>13
  <2>2. /\ mix \in Expense
        /\ mix.status \in {current.status, new.status}
        /\ mix.payroll = IF new.payroll # read.payroll THEN new.payroll ELSE current.payroll
        /\ mix.project = IF new.project # read.project THEN new.project ELSE current.project
        /\ mix.paid_by = IF new.paid_by # read.paid_by THEN new.paid_by ELSE current.paid_by
    BY <1>2, <1>8, <2>1, MergedColumns
  <2> HIDE DEF mix
  <2>3. /\ mix.payroll = current.payroll /\ mix.project = current.project
        /\ new.payroll = current.payroll
    BY <1>4, <1>8, <1>13, <2>2
  <2>4. Told(current, longer)
    BY <1>3, <1>5, <1>13, StillTold DEF longer
  <2>5. mix.paid_by \in {new.paid_by, current.paid_by}
    BY <2>2
  <2>6. Told(mix, longer)
    BY <1>8, <2>2, <2>3, <2>4, <2>5 DEF Told
  <2>7. PayerKnown(mix, longer)
    <3>1. PayerKnown(current, trail)
      BY <1>5, <1>13
    <3>2. CASE action # "PAY"
      <4>1. mix.paid_by = current.paid_by
        BY <1>10, <2>2, <3>2
      <4> QED
        BY <1>12, <3>1, <3>2, <4>1 DEF PayerKnown
    <3>3. CASE action = "PAY"
      <4>1. CASE read.paid_by # q.actor
        BY <1>2, <1>9, <1>12, <2>2, <3>3, <4>1 DEF PayerKnown
      <4>2. CASE read.paid_by = q.actor
        <5>1. At(trail, {"PAY"}) # {}
          BY <1>2, <1>4, <4>2 DEF Told
        <5>2. mix.paid_by = current.paid_by
          BY <1>9, <2>2, <3>3, <4>2
        <5> QED
          BY <1>12, <3>1, <5>1, <5>2 DEF PayerKnown
      <4> QED
        BY <4>1, <4>2
    <3> QED
      BY <3>2, <3>3
  <2>8. row = mix
    BY <1>13 DEF mix
  <2> QED
    BY <2>2, <2>3, <2>6, <2>7, <2>8
<1>14. row = NULL <=> current = NULL
  <2>1. NULL \notin Expense
    BY RowAssumption
  <2> QED
    BY <1>13, <2>1
<1> HIDE DEF row
<1>15. action = "PAY" => (row # NULL /\ row.payroll) \/ Signed(trail)
  <2>1. ASSUME action = "PAY"
        PROVE  (row # NULL /\ row.payroll) \/ Signed(trail)
    <3>1. read.status = "approved" /\ new.status = "paid"
      BY <1>9, <2>1
    <3>2. current # NULL
      BY <1>6, <3>1 DEF current
    <3>3. read.payroll \/ Signed(trail)
      BY <1>4, <3>1 DEF Told
    <3> QED
      BY <1>4, <1>13, <1>14, <3>2, <3>3
  <2> QED
    BY <2>1
<1>16. action = "HARD_LOCK" => At(trail, {"PAY"}) # {}
  BY <1>4, <1>11 DEF Told, Settled
<1>17. row \in Expense \cup {NULL}
  BY <1>13, <1>14
<1>18. L!Write(e, q.actor, action, row)
  BY <1>6
<1> QED
  BY <1>2, <1>7, <1>13, <1>14, <1>15, <1>16, <1>17, <1>18, WriteAccounted
     DEF longer, trail, current

\* A step that writes no audit record leaves a row alone, removes one that is not of a
\* payroll, or inserts one under an id that was never used.
LEMMA QuietAccounted ==
    ASSUME IInv, L!TypeOK', audit' = audit,
           request' \in [Worker -> Request \cup {Idle}],
           \A w \in Worker : request'[w] # Idle => request'[w] = request[w],
           \A e \in Expenses :
               \/ expense'[e] = expense[e]
               \/ expense[e] # NULL /\ ~ expense[e].payroll /\ expense'[e] = NULL
               \/ /\ expense[e] = NULL /\ audit[e] = <<>>
                  /\ Told(expense'[e], <<>>) /\ PayerKnown(expense'[e], <<>>)
    PROVE  IInv'
<1>1. TypeOK'
  BY DEF TypeOK
<1>2. \A actions : At(<<>>, actions) = {}
  BY DEF At
<1>3. ASSUME NEW e \in Expenses, expense'[e] # NULL
      PROVE  Told(expense'[e], audit[e]) /\ PayerKnown(expense'[e], audit[e])
  <2>1. CASE expense'[e] = expense[e]
    <3>1. Told(expense[e], audit[e])
      BY <1>3, <2>1 DEF IInv, Tables, RowsTold
    <3>2. PayerKnown(expense[e], audit[e])
      BY <1>3, <2>1 DEF IInv, PayerRecorded, PayerKnown
    <3> QED
      BY <2>1, <3>1, <3>2
  <2> QED
    BY <1>3, <2>1
<1>4. ASSUME NEW e \in Expenses
      PROVE  PaymentsSigned(expense'[e], audit[e])
  <2>1. PaymentsSigned(expense[e], audit[e])
    BY DEF IInv, PaymentSigned, PaymentsSigned
  <2>2. CASE expense'[e] = expense[e]
    BY <2>1, <2>2
  <2>3. CASE expense[e] # NULL /\ ~ expense[e].payroll
    BY <2>1, <2>3 DEF PaymentsSigned
  <2>4. CASE audit[e] = <<>>
    BY <1>2, <2>4 DEF PaymentsSigned
  <2> QED
    BY <2>2, <2>3, <2>4
<1>5. ASSUME NEW w \in Worker, request'[w] # Idle
      PROVE  Held(request[w])'
  <2> DEFINE q == request[w]
  <2>1. /\ request'[w] = q /\ q # Idle
        /\ Permits(q.op, q.actor, q.read)
        /\ Told(q.read, audit[q.id])
        /\ q.read.payroll => expense[q.id] # NULL
        /\ expense[q.id] # NULL => expense[q.id].payroll = q.read.payroll
    BY <1>5 DEF IInv, Tables, ReadsHeld, Held
  <2>2. q.id \in Expenses
    BY <2>1 DEF IInv, Tables, TypeOK, Request
  <2> HIDE DEF q
  <2>3. q.read.payroll \/ audit[q.id] # <<>>
    BY <2>1 DEF Told
  <2>4. /\ q.read.payroll => expense'[q.id] # NULL
        /\ expense'[q.id] # NULL => expense'[q.id].payroll = q.read.payroll
    BY <2>1, <2>2, <2>3
  <2> QED
    BY <2>1, <2>4 DEF Held
<1>6. RowsTold' /\ PayerRecorded'
  BY <1>3 DEF RowsTold, PayerRecorded, PayerKnown
<1>7. PaymentSigned'
  BY <1>4 DEF PaymentSigned, PaymentsSigned
<1>8. ReadsHeld'
  BY <1>5 DEF ReadsHeld
<1> QED
  BY <1>1, <1>6, <1>7, <1>8 DEF IInv, Tables

LEMMA InsertAccounted ==
    ASSUME IInv, NEW w \in Worker, Insert(w)
    PROVE  IInv'
<1>1. PICK e \in Expenses, actor \in User : L!Create(e, actor) \/ L!PostPayroll(e, actor)
  BY DEF Insert
<1>2. /\ request' \in [Worker -> Request \cup {Idle}]
      /\ \A v \in Worker : request'[v] # Idle => request'[v] = request[v]
  BY DEF Insert, IInv, Tables, TypeOK
<1>3. CASE L!Create(e, actor)
  <2>1. PICK expense_type \in {"regular", "reimbursement"}, p \in Project \cup {NULL},
             amount \in Amounts, category \in Categories :
            L!Write(e, actor, "CREATE", L!NewExpense(expense_type, p, amount, category, actor))
    BY <1>3 DEF L!Create
  <2> DEFINE row == NewExpense(expense_type, p, amount, category, actor)
             entry == [action |-> "CREATE", user |-> actor]
             longer == Append(audit[e], entry)
  <2>2. L!Write(e, actor, "CREATE", row)
    BY <2>1 DEF L!NewExpense, NewExpense
  <2>3. /\ row.status = "draft" /\ row.paid_by = NULL /\ ~ row.payroll
        /\ row \in Expense
    <3>1. category \in Category /\ <<>> \in Seq(Role) /\ <<>> \in Seq(HistoryEvent)
      BY AmountAssumption
    <3> QED
      BY <3>1 DEF NewExpense, Expense, ExpenseStatus
  <2>4. expense[e] = NULL /\ audit[e] = <<>>
    BY <1>3 DEF L!Create, L!Fresh
  <2>5. longer # <<>> /\ At(longer, {"PAY"}) = {}
    <3>1. longer = <<entry>>
      BY <2>4
    <3> HIDE DEF longer
    <3> QED
      BY <3>1 DEF At
  <2> HIDE DEF row, longer
  <2>6. Told(row, longer) /\ PayerKnown(row, longer)
    BY <2>3, <2>5 DEF Told, PayerKnown, InFlight, Settled
  <2>7. "CREATE" \in AuditAction
    BY DEF AuditAction
  <2> QED
    BY <1>2, <2>2, <2>3, <2>4, <2>6, <2>7, WriteAccounted DEF longer
<1>4. CASE L!PostPayroll(e, actor)
  <2>1. PICK amount \in Amounts : expense' = [expense EXCEPT ![e] = L!PayrollExpense(amount, actor)]
    BY <1>4 DEF L!PostPayroll
  <2> DEFINE row == PayrollExpense(amount, actor)
  <2>2. expense' = [expense EXCEPT ![e] = row]
    BY <2>1 DEF L!PayrollExpense, PayrollExpense, L!NewExpense, NewExpense
  <2>3. /\ row \in Expense /\ row.status = "approved" /\ row.payroll
        /\ row.paid_by = NULL /\ row.project = NULL
    <3> DEFINE draft == NewExpense("regular", NULL, amount, "Personnel", actor)
    <3>1. draft \in Expense /\ draft.paid_by = NULL /\ draft.project = NULL
      <4>1. <<>> \in Seq(Role) /\ <<>> \in Seq(HistoryEvent)
        OBVIOUS
      <4> QED
        BY <4>1 DEF NewExpense, Expense, ExpenseStatus, Category
    <3>2. row = [draft EXCEPT !.payroll = TRUE, !.status = "approved", !.approved_by = actor]
      BY DEF PayrollExpense
    <3> HIDE DEF draft, row
    <3> QED
      BY <3>1, <3>2 DEF Expense, ExpenseStatus
  <2> HIDE DEF row
  <2>4. Told(row, <<>>) /\ PayerKnown(row, <<>>)
    BY <2>3 DEF Told, PayerKnown, At, InFlight, Settled
  <2>5. /\ expense[e] = NULL /\ audit[e] = <<>> /\ UNCHANGED <<audit, rules, project>>
    BY <1>4 DEF L!PostPayroll, L!Fresh
  <2>6. expense \in [Expenses -> Expense \cup {NULL}]
    BY SameTypes DEF IInv, Tables, TypeOK, L!TypeOK
  <2>7. L!TypeOK'
    BY <2>2, <2>3, <2>5, <2>6, SameTypes DEF IInv, Tables, TypeOK, L!TypeOK
  <2>8. \A f \in Expenses : expense'[f] = IF f = e THEN row ELSE expense[f]
    BY <2>2, <2>6
  <2> QED
    BY <1>2, <2>4, <2>5, <2>7, <2>8, QuietAccounted
<1> QED
  BY <1>1, <1>3, <1>4

LEMMA AdministerAccounted ==
    ASSUME IInv, NEW w \in Worker, Administer(w)
    PROVE  IInv'
<1>1. /\ request' \in [Worker -> Request \cup {Idle}]
      /\ \A v \in Worker : request'[v] # Idle => request'[v] = request[v]
  BY DEF Administer, IInv, Tables, TypeOK
<1>2. L!TypeOK
  BY DEF IInv, Tables, TypeOK
<1>3. CASE \E rule \in RulePool : L!ToggleRule(rule)
  <2>1. L!TypeOK' /\ audit' = audit /\ expense' = expense
    BY <1>2, <1>3 DEF L!TypeOK, L!ToggleRule
  <2> QED
    BY <1>1, <2>1, QuietAccounted
<1>4. ASSUME NEW p \in Project, L!ArchiveProject(p)
      PROVE  IInv'
  <2>1. L!TypeOK' /\ audit' = audit /\ expense' = expense
    BY <1>2, <1>4 DEF L!TypeOK, L!ArchiveProject
  <2> QED
    BY <1>1, <2>1, QuietAccounted
<1>5. ASSUME NEW p \in Project, L!DeleteProject(p)
      PROVE  IInv'
  <2>1. L!TypeOK' /\ audit' = audit
    BY <1>2, <1>5 DEF L!TypeOK, L!DeleteProject
  <2>2. ASSUME NEW e \in Expenses, expense'[e] # expense[e]
        PROVE  expense[e] # NULL /\ ~ expense[e].payroll /\ expense'[e] = NULL
    <3>1. expense[e] # NULL /\ expense[e].project = p /\ expense'[e] = NULL
      BY <1>5, <2>2 DEF L!DeleteProject
    <3>2. Told(expense[e], audit[e])
      BY <3>1 DEF IInv, Tables, RowsTold
    <3>3. expense[e].payroll \in BOOLEAN
      BY <1>2, <3>1, SameTypes DEF L!TypeOK, Expense
    <3> QED
      BY <3>1, <3>2, <3>3, ProjectAssumption DEF Told
  <2> QED
    BY <1>1, <2>1, <2>2, QuietAccounted
<1> QED
  BY <1>3, <1>4, <1>5 DEF Administer, L!Administration

LEMMA BeginAccounted ==
    ASSUME IInv, NEW w \in Worker, Begin(w)
    PROVE  IInv'
<1>1. PICK op \in Operation, actor \in User, e \in Expenses :
          /\ expense[e] # NULL
          /\ Permits(op, actor, expense[e])
          /\ request' = [request EXCEPT ![w] =
                 [op |-> op, actor |-> actor, id |-> e, read |-> expense[e]]]
  BY DEF Begin
<1> DEFINE q == [op |-> op, actor |-> actor, id |-> e, read |-> expense[e]]
<1>2. UNCHANGED <<expense, audit, rules, project>>
  BY DEF Begin, table
<1>3. expense[e] \in Expense
  BY <1>1, SameTypes DEF IInv, Tables, TypeOK, L!TypeOK
<1>4. /\ q \in Request /\ q.op = op /\ q.actor = actor /\ q.id = e /\ q.read = expense[e]
  BY <1>3 DEF Request
<1>5. request' = [request EXCEPT ![w] = q]
  BY <1>1
<1> HIDE DEF q
<1>6. /\ request' \in [Worker -> Request \cup {Idle}]
      /\ \A v \in Worker : request'[v] = IF v = w THEN q ELSE request[v]
  BY <1>4, <1>5 DEF IInv, Tables, TypeOK
<1>7. TypeOK' /\ RowsTold' /\ PaymentSigned' /\ PayerRecorded'
  <2>1. TypeOK'
    BY <1>2, <1>6 DEF IInv, Tables, TypeOK, L!TypeOK
  <2>2. RowsTold'
    BY <1>2 DEF IInv, Tables, RowsTold
  <2>3. PaymentSigned' /\ PayerRecorded'
    BY <1>2 DEF IInv, PaymentSigned, PayerRecorded
  <2> QED
    BY <2>1, <2>2, <2>3
<1>8. Held(q)
  BY <1>1, <1>4 DEF Held, IInv, Tables, RowsTold
<1>9. ASSUME NEW v \in Worker, request'[v] # Idle
      PROVE  Held(request[v])'
  <2>1. Held(request'[v])
    BY <1>6, <1>8, <1>9 DEF IInv, Tables, ReadsHeld
  <2> QED
    BY <1>2, <2>1 DEF Held
<1> QED
  BY <1>7, <1>9 DEF IInv, Tables, ReadsHeld

\* What the trail, with its next record, tells of the row a permitted handler builds.
LEMMA ToldNext ==
    ASSUME NEW read \in Expense, NEW trail \in Trail, Told(read, trail), NEW entry,
           NEW new, Keeps(read, new),
           new.paid_by = read.paid_by \/ entry.action = "PAY",
           \/ new.status = read.status \/ new.status = "rejected"
           \/ new.status = "submitted" /\ entry.action = "SUBMIT"
           \/ /\ new.status \in {"verified", "approved"} /\ entry.action \in L!SignOff
              /\ read.status \in InFlight
           \/ new.status = "paid" /\ entry.action = "PAY" /\ read.status = "approved"
           \/ new.status = "hard_locked" /\ read.status = "paid"
    PROVE  Told(new, Append(trail, entry))
<1> DEFINE longer == Append(trail, entry)
           last == Len(trail) + 1
<1>1. /\ Told(read, longer)
      /\ Signed(trail) => Signed(longer)
  BY StillTold
<1>2. /\ \A actions : At(trail, actions) \subseteq At(longer, actions)
      /\ \A actions : last \in At(longer, actions) <=> entry.action \in actions
      /\ longer # <<>>
  BY TrailGrows
<1>3. ASSUME At(trail, {"SUBMIT"}) # {}, entry.action \in L!SignOff
      PROVE  Signed(longer)
  BY <1>3, SignOffSigns
<1> HIDE DEF longer, last
<1>4. entry.action = "SUBMIT" => At(longer, {"SUBMIT"}) # {}
  BY <1>2
<1>5. entry.action = "PAY" => At(longer, {"PAY"}) # {}
  BY <1>2
<1>6. new.payroll = read.payroll /\ new.project = read.project
  BY DEF Keeps
<1>7. new.paid_by # NULL => At(longer, {"PAY"}) # {}
  BY <1>1, <1>5 DEF Told
<1>8. new.status \in InFlight => At(longer, {"SUBMIT"}) # {}
  <2>1. At(trail, {"SUBMIT"}) # {} => At(longer, {"SUBMIT"}) # {}
    BY <1>2
  <2> QED
    BY <1>1, <1>4, <2>1 DEF Told, InFlight
<1>9. new.status \in {"approved"} \cup Settled => new.payroll \/ Signed(longer)
  BY <1>1, <1>3, <1>6 DEF Told, InFlight, Settled
<1>10. new.status \in Settled => At(longer, {"PAY"}) # {}
  BY <1>1, <1>5 DEF Told, InFlight, Settled
<1>11. Told(new, longer)
  BY <1>1, <1>2, <1>6, <1>7, <1>8, <1>9, <1>10 DEF Told
<1> QED
  BY <1>11 DEF longer

LEMMA FinishAccounted ==
    ASSUME IInv, NEW w \in Worker, Finish(w)
    PROVE  IInv'
<1> DEFINE q == request[w]
           e == q.id
           actor == q.actor
           read == q.read
           entry(action) == [action |-> action, user |-> actor]
<1>1. q # Idle
  BY DEF Finish
<1>2. q \in Request
  BY <1>1 DEF IInv, Tables, TypeOK
<1>3. actor \in User /\ e \in Expenses /\ read \in Expense
  BY <1>2 DEF Request
<1>4. Permits(q.op, actor, read) /\ Told(read, audit[e])
  BY <1>1 DEF IInv, Tables, ReadsHeld, Held
<1>5. audit[e] \in Trail
  BY <1>3 DEF IInv, Tables, TypeOK, L!TypeOK, Trail
<1>6. ASSUME NEW action \in AuditAction, NEW new, Commit(w, action, new), Keeps(read, new),
             IF action = "PAY" THEN /\ new.paid_by = actor /\ read.status = "approved"
                                    /\ new.status = "paid"
             ELSE new.paid_by = read.paid_by,
             \/ new.status = read.status \/ new.status = "rejected"
             \/ new.status = "submitted" /\ action = "SUBMIT"
             \/ /\ new.status \in {"verified", "approved"} /\ action \in L!SignOff
                /\ read.status \in InFlight
             \/ new.status = "paid" /\ action = "PAY" /\ read.status = "approved"
             \/ new.status = "hard_locked" /\ read.status = "paid",
             action = "HARD_LOCK" => read.status = "paid"
      PROVE  IInv'
  <2>1. entry(action).action = action
    OBVIOUS
  <2>2. new.paid_by = read.paid_by \/ action = "PAY"
    BY <1>6
  <2> HIDE DEF entry
  <2>3. Told(new, Append(audit[e], entry(action)))
    BY <1>3, <1>4, <1>5, <1>6, <2>1, <2>2, ToldNext
  <2> QED
    BY <1>1, <1>6, <2>3, CommitAccounted DEF entry
<1>7. {"UPDATE", "DELETE", "SUBMIT", "RECEIPT_REVIEW", "VERIFY", "APPROVE", "PAY", "HARD_LOCK",
       "REJECT"} \subseteq AuditAction
  BY DEF AuditAction
<1> HIDE DEF q
<1>8. CASE FinishUpdate(w)
  <2>1. PICK amount \in Amounts, category \in Categories :
            Commit(w, "UPDATE", Edited(read, amount, category))
    BY <1>8 DEF FinishUpdate, q
  <2> DEFINE new == Edited(read, amount, category)
  <2>2. Keeps(read, new) /\ new.status = read.status /\ new.paid_by = read.paid_by
    BY <1>3, Effects
  <2> HIDE DEF new
  <2>3. Commit(w, "UPDATE", new)
    BY <2>1 DEF new
  <2> QED
    BY <1>6, <1>7, <2>2, <2>3
<1>9. CASE FinishSubmit(w)
  <2>1. PICK chain \in SubmissionChains(rules, read.expense_type, read.amount, read.category) :
            Commit(w, "SUBMIT", Started(read, actor, chain))
    BY <1>9 DEF FinishSubmit, q
  <2> DEFINE new == Started(read, actor, chain)
  <2>2. chain \in Seq(Role)
    BY <2>1, ChainType DEF IInv, Tables, TypeOK, L!TypeOK
  <2>3. Keeps(read, new) /\ new.status = "submitted" /\ new.paid_by = read.paid_by
    BY <1>3, <2>2, Effects
  <2> HIDE DEF new
  <2>4. Commit(w, "SUBMIT", new)
    BY <2>1 DEF new
  <2> QED
    BY <1>6, <1>7, <2>3, <2>4
<1>10. CASE FinishVerify(w)
  <2> DEFINE new == Verified(read, actor)
  <2>1. Commit(w, VerifyAction(actor), new)
    BY <1>10 DEF FinishVerify, q
  <2>2. /\ Keeps(read, new) /\ new.paid_by = read.paid_by
        /\ new.status \in {read.status, "verified", "approved"}
    BY <1>3, Effects
  <2>3. read.status \in InFlight
    BY <1>4, <1>10 DEF FinishVerify, Permits, CanVerify, InFlight, q
  <2>4. VerifyAction(actor) \in {"RECEIPT_REVIEW", "VERIFY"}
    BY DEF VerifyAction
  <2>5. VerifyAction(actor) \in L!SignOff
    BY <2>4 DEF L!SignOff
  <2> HIDE DEF new
  <2> QED
    BY <1>6, <1>7, <2>1, <2>2, <2>3, <2>4, <2>5
<1>11. CASE FinishApprove(w)
  <2> DEFINE new == Approved(read, actor)
  <2>1. Commit(w, "APPROVE", new)
    BY <1>11 DEF FinishApprove, q
  <2>2. /\ Keeps(read, new) /\ new.paid_by = read.paid_by
        /\ new.status \in {read.status, "verified", "approved"}
    BY <1>3, Effects
  <2>3. read.status \in InFlight
    BY <1>4, <1>11 DEF FinishApprove, Permits, CanApprove, q
  <2>4. "APPROVE" \in L!SignOff
    BY DEF L!SignOff
  <2> HIDE DEF new
  <2> QED
    BY <1>6, <1>7, <2>1, <2>2, <2>3, <2>4
<1>12. CASE FinishPay(w)
  <2> DEFINE new == Paid(read, actor)
  <2>1. Commit(w, "PAY", new)
    BY <1>12 DEF FinishPay, q
  <2>2. Keeps(read, new) /\ new.status = "paid" /\ new.paid_by = actor
    BY <1>3, Effects
  <2>3. read.status = "approved"
    BY <1>4, <1>12 DEF FinishPay, Permits, CanPay, q
  <2> HIDE DEF new
  <2> QED
    BY <1>6, <1>7, <2>1, <2>2, <2>3
<1>13. CASE FinishLock(w)
  <2> DEFINE new == Locked(read, actor)
  <2>1. Commit(w, "HARD_LOCK", new)
    BY <1>13 DEF FinishLock, q
  <2>2. Keeps(read, new) /\ new.status = "hard_locked" /\ new.paid_by = read.paid_by
    BY <1>3, Effects
  <2>3. read.status = "paid"
    BY <1>4, <1>13 DEF FinishLock, Permits, CanLock, q
  <2> HIDE DEF new
  <2> QED
    BY <1>6, <1>7, <2>1, <2>2, <2>3
<1>14. CASE FinishReject(w)
  <2> DEFINE new == Rejected(read, actor)
  <2>1. Commit(w, "REJECT", new)
    BY <1>14 DEF FinishReject, q
  <2>2. Keeps(read, new) /\ new.status = "rejected" /\ new.paid_by = read.paid_by
    BY <1>3, Effects
  <2> HIDE DEF new
  <2> QED
    BY <1>6, <1>7, <2>1, <2>2
<1>15. CASE FinishDelete(w)
  <2>1. /\ L!Write(e, actor, "DELETE", NULL)
        /\ request' = [request EXCEPT ![w] = Idle]
    BY <1>15 DEF FinishDelete, q
  <2>2. /\ request' \in [Worker -> Request \cup {Idle}]
        /\ \A v \in Worker : request'[v] # Idle => request'[v] = request[v]
    BY <2>1 DEF IInv, Tables, TypeOK
  <2>3. ~ read.payroll
    BY <1>4, <1>15 DEF FinishDelete, Permits, CanDelete, q
  <2>4. expense[e] # NULL => expense[e].payroll = read.payroll
    BY <1>1 DEF IInv, Tables, ReadsHeld, Held, q
  <2> QED
    BY <1>3, <1>7, <2>1, <2>2, <2>3, <2>4, WriteAccounted
<1> QED
  BY <1>8, <1>9, <1>10, <1>11, <1>12, <1>13, <1>14, <1>15 DEF Finish

LEMMA AccountedInit == Init => IInv
<1> SUFFICES ASSUME Init
             PROVE  IInv
  OBVIOUS
<1>1. /\ \A e \in Expenses : expense[e] = NULL /\ audit[e] = <<>>
      /\ \A w \in Worker : request[w] = Idle
  BY DEF Init, L!Init
<1>2. TypeOK
  BY DEF Init, L!Init, TypeOK, L!TypeOK
<1>3. RowsTold /\ ReadsHeld
  BY <1>1 DEF RowsTold, ReadsHeld
<1>4. PaymentSigned /\ PayerRecorded
  BY <1>1 DEF PaymentSigned, PayerRecorded, At
<1> QED
  BY <1>2, <1>3, <1>4 DEF IInv, Tables

LEMMA AccountedNext == IInv /\ [Next]_vars => IInv'
<1> SUFFICES ASSUME IInv, [Next]_vars
             PROVE  IInv'
  OBVIOUS
<1>1. CASE UNCHANGED vars
  <2>1. L!TypeOK' /\ audit' = audit /\ expense' = expense /\ request' = request
    BY <1>1 DEF IInv, Tables, TypeOK, L!TypeOK, vars
  <2>2. request' \in [Worker -> Request \cup {Idle}]
    BY <2>1 DEF IInv, Tables, TypeOK
  <2> QED
    BY <2>1, <2>2, QuietAccounted
<1>2. ASSUME NEW w \in Worker, Abort(w)
      PROVE  IInv'
  <2>1. L!TypeOK' /\ audit' = audit /\ expense' = expense
    BY <1>2 DEF Abort, table, IInv, Tables, TypeOK, L!TypeOK
  <2>2. /\ request' \in [Worker -> Request \cup {Idle}]
        /\ \A v \in Worker : request'[v] # Idle => request'[v] = request[v]
    BY <1>2 DEF Abort, IInv, Tables, TypeOK
  <2> QED
    BY <2>1, <2>2, QuietAccounted
<1> QED
  BY <1>1, <1>2, InsertAccounted, AdministerAccounted, BeginAccounted, FinishAccounted DEF Next

\* However many workers there are and however their requests overlap, a payment is
\* always submitted, signed for and made by the payer the row names (the handlers of
\* app/routers/expenses.py, each with a session of its own at READ COMMITTED).
\* IInv adds what the trail tells of the rows that handlers at work still hold.
THEOREM PaymentsAccountedHolds == Spec => []PaymentsAccounted
<1>1. IInv => PaymentsAccounted
  BY DEF IInv, Tables, PaymentsAccounted
<1> QED
  BY <1>1, AccountedInit, AccountedNext, PTL DEF Spec
---------------------------------------------------------------------------
\* The email outbox, where the handlers queue what they report: its workers poll one
\* table, any number of them, with batches of any size.

\* What the assumptions say of its constants.
LEMMA OutboxConstants ==
    /\ Mail \subseteq Nat
    /\ Limit \in Nat \ {0} /\ MaxAttempts \in Nat \ {0} /\ MaxRollbacks \in Nat
    /\ NoRow \notin Row
  BY MailAssumption, LimitAssumption, RollbackAssumption, NoRowAssumption

\* A row says of its message what happened, but for the acceptances nobody was told of.
Truthful(row, times, lost) ==
    IF row.status = "sent" THEN times = lost + 1
    ELSE times = lost /\ (row.status = "failed" => row.attempts = MaxAttempts)

\* Workers hold different rows, which are due; what they tried is true in their session.
BatchesHeld ==
    /\ \A w \in Process : todo[w] \subseteq batch[w]
    /\ \A w, v \in Process : w # v => batch[w] \cap batch[v] = {}
    /\ \A w \in Process : \A m \in batch[w] :
           /\ Due(m)
           /\ m \in todo[w] => session[w][m] = outbox[m]
           /\ m \notin todo[w] => /\ session[w][m] \in Row
                                  /\ Truthful(session[w][m], accepted[m], doubt[m])

\* What the table says is true, except of rows a worker has tried and not committed.
MailTruthful ==
    \A m \in Mail :
        /\ outbox[m] = NoRow => accepted[m] = 0 /\ doubt[m] = 0
        /\ outbox[m] # NoRow /\ (\A w \in Process : m \notin batch[w] \ todo[w])
           => Truthful(outbox[m], accepted[m], doubt[m])

OutboxIInv == OutboxTypeOK /\ BatchesHeld /\ MailTruthful

LEMMA OutboxStarts ==
    ASSUME OutboxInit
    PROVE  OutboxIInv
<1>1. OutboxTypeOK
  BY OutboxConstants DEF OutboxInit, OutboxTypeOK, Closed
<1>2. BatchesHeld /\ MailTruthful
  BY DEF OutboxInit, BatchesHeld, MailTruthful
<1> QED
  BY <1>1, <1>2 DEF OutboxIInv

LEMMA PushKept ==
    ASSUME OutboxIInv, NEW m \in Mail, Push(m)
    PROVE  OutboxIInv'
<1> DEFINE new == [status |-> "pending", attempts |-> 0]
<1>1. /\ outbox[m] = NoRow
      /\ outbox' = [outbox EXCEPT ![m] = new]
      /\ UNCHANGED <<batch, todo, session, accepted, doubt, rollbacks>>
  BY DEF Push
<1>2. new \in Row
  BY OutboxConstants DEF Row
<1>3. new.status = "pending"
  OBVIOUS
<1> HIDE DEF new
<1>4. OutboxTypeOK'
  BY <1>1, <1>2 DEF OutboxIInv, OutboxTypeOK
<1>5. /\ outbox'[m] = new /\ new # NoRow
      /\ \A k \in Mail : k # m => outbox'[k] = outbox[k]
  BY <1>1, <1>2, OutboxConstants DEF OutboxIInv, OutboxTypeOK
<1>6. \A w \in Process : m \notin batch[w]
  BY <1>1 DEF OutboxIInv, BatchesHeld, Due
<1>7. \A w \in Process : \A k \in batch[w] : k \in Mail
  BY DEF OutboxIInv, OutboxTypeOK
<1>8. BatchesHeld'
  BY <1>1, <1>5, <1>6, <1>7 DEF OutboxIInv, BatchesHeld, Due
<1>9. MailTruthful'
  BY <1>1, <1>3, <1>5 DEF OutboxIInv, MailTruthful, Truthful
<1> QED
  BY <1>4, <1>8, <1>9 DEF OutboxIInv

LEMMA FetchKept ==
    ASSUME OutboxIInv, NEW w \in Process, Fetch(w)
    PROVE  OutboxIInv'
<1> DEFINE rows == [m \in Mail |-> IF m \in NextBatch THEN outbox[m] ELSE NoRow]
<1>1. /\ batch[w] = {}
      /\ batch' = [batch EXCEPT ![w] = NextBatch]
      /\ todo' = [todo EXCEPT ![w] = NextBatch]
      /\ session' = [session EXCEPT ![w] = rows]
      /\ UNCHANGED <<outbox, accepted, doubt, rollbacks>>
  BY DEF Fetch
<1>2. \A m \in NextBatch : /\ m \in Mail /\ Due(m)
                             /\ \A v \in Process : m \notin batch[v]
  BY DEF NextBatch, LockedRows
<1>3. rows \in [Mail -> Row \cup {NoRow}] /\ \A m \in NextBatch : rows[m] = outbox[m]
  BY <1>2 DEF OutboxIInv, OutboxTypeOK
<1> HIDE DEF rows
<1>4. /\ batch \in [Process -> SUBSET Mail] /\ todo \in [Process -> SUBSET Mail]
      /\ session \in [Process -> [Mail -> Row \cup {NoRow}]]
  BY DEF OutboxIInv, OutboxTypeOK
<1>5. OutboxTypeOK'
  BY <1>1, <1>2, <1>3, <1>4 DEF OutboxIInv, OutboxTypeOK
<1>6. /\ batch'[w] = NextBatch /\ todo'[w] = NextBatch /\ session'[w] = rows
      /\ \A v \in Process : v # w => /\ batch'[v] = batch[v] /\ todo'[v] = todo[v]
                                     /\ session'[v] = session[v]
  BY <1>1, <1>4
<1>7. \A m \in Mail : Due(m)' <=> Due(m)
  BY <1>1 DEF Due
<1>8. BatchesHeld'
  <2>1. \A v \in Process : todo'[v] \subseteq batch'[v]
    BY <1>6 DEF OutboxIInv, BatchesHeld
  <2>2. \A u, v \in Process : u # v => batch'[u] \cap batch'[v] = {}
    BY <1>2, <1>6 DEF OutboxIInv, BatchesHeld
  <2>3. ASSUME NEW v \in Process, NEW m \in batch'[v]
        PROVE  /\ Due(m)'
               /\ m \in todo'[v] => session'[v][m] = outbox'[m]
               /\ m \notin todo'[v] => /\ session'[v][m] \in Row
                                       /\ Truthful(session'[v][m], accepted'[m], doubt'[m])
    <3>1. CASE v = w
      BY <1>1, <1>2, <1>3, <1>6, <1>7, <2>3, <3>1
    <3>2. CASE v # w
      <4>1. m \in batch[v] /\ m \in Mail
        BY <1>4, <1>6, <2>3, <3>2
      <4> QED
        BY <1>1, <1>6, <1>7, <3>2, <4>1 DEF OutboxIInv, BatchesHeld
    <3> QED
      BY <3>1, <3>2
  <2> QED
    BY <2>1, <2>2, <2>3 DEF BatchesHeld
<1>9. MailTruthful'
  <2>1. \A v \in Process : batch'[v] \ todo'[v] = batch[v] \ todo[v]
    BY <1>1, <1>6
  <2> QED
    BY <1>1, <2>1 DEF OutboxIInv, MailTruthful
<1> QED
  BY <1>5, <1>8, <1>9 DEF OutboxIInv

\* A worker tries a row: it and its message change together, in the session.
Tried(w, m, row, times, lost) ==
    /\ Try(w, m, row)
    /\ accepted' = [accepted EXCEPT ![m] = times]
    /\ doubt' = [doubt EXCEPT ![m] = lost]

LEMMA TriedKept ==
    ASSUME OutboxIInv, NEW w \in Process, NEW m \in Mail, NEW row \in Row,
           NEW times \in Nat, NEW lost \in Nat, Tried(w, m, row, times, lost),
           Truthful(row, times, lost)
    PROVE  OutboxIInv'
<1>1. /\ m \in todo[w]
      /\ todo' = [todo EXCEPT ![w] = @ \ {m}]
      /\ session' = [session EXCEPT ![w][m] = row]
      /\ UNCHANGED <<outbox, batch, rollbacks>>
      /\ accepted' = [accepted EXCEPT ![m] = times]
      /\ doubt' = [doubt EXCEPT ![m] = lost]
  BY DEF Tried, Try
<1>2. /\ batch \in [Process -> SUBSET Mail] /\ todo \in [Process -> SUBSET Mail]
      /\ session \in [Process -> [Mail -> Row \cup {NoRow}]]
      /\ accepted \in [Mail -> Nat] /\ doubt \in [Mail -> Nat]
  BY DEF OutboxIInv, OutboxTypeOK
<1>3. /\ todo'[w] = todo[w] \ {m} /\ session'[w][m] = row
      /\ \A k \in Mail : k # m => session'[w][k] = session[w][k]
      /\ \A v \in Process : v # w => todo'[v] = todo[v] /\ session'[v] = session[v]
      /\ accepted'[m] = times /\ doubt'[m] = lost
      /\ \A k \in Mail : k # m => accepted'[k] = accepted[k] /\ doubt'[k] = doubt[k]
  BY <1>1, <1>2
<1>4. session' \in [Process -> [Mail -> Row \cup {NoRow}]]
  <2>1. session' = [session EXCEPT ![w] = [session[w] EXCEPT ![m] = row]]
    BY <1>1
  <2>2. [session[w] EXCEPT ![m] = row] \in [Mail -> Row \cup {NoRow}]
    BY <1>2
  <2> QED
    BY <1>2, <2>1, <2>2
<1>5. OutboxTypeOK'
  BY <1>1, <1>2, <1>4 DEF OutboxIInv, OutboxTypeOK
<1>6. m \in batch[w] /\ Due(m) /\ \A v \in Process : v # w => m \notin batch[v]
  BY <1>1 DEF OutboxIInv, BatchesHeld
<1>7. \A k : Due(k)' <=> Due(k)
  BY <1>1 DEF Due
<1>8. BatchesHeld'
  <2>1. \A v \in Process : todo'[v] \subseteq batch'[v]
    BY <1>1, <1>3 DEF OutboxIInv, BatchesHeld
  <2>2. ASSUME NEW v \in Process, NEW k \in batch[v]
        PROVE  /\ Due(k)'
               /\ k \in todo'[v] => session'[v][k] = outbox'[k]
               /\ k \notin todo'[v] => /\ session'[v][k] \in Row
                                       /\ Truthful(session'[v][k], accepted'[k], doubt'[k])
    <3>1. k \in Mail
      BY <1>2
    <3>2. CASE k = m
      BY <1>3, <1>6, <1>7, <2>2, <3>2
    <3>3. CASE k # m
      BY <1>1, <1>3, <1>7, <2>2, <3>1, <3>3 DEF OutboxIInv, BatchesHeld
    <3> QED
      BY <3>2, <3>3
  <2> QED
    BY <1>1, <2>1, <2>2 DEF OutboxIInv, BatchesHeld
<1>9. MailTruthful'
  <2> SUFFICES ASSUME NEW k \in Mail
               PROVE  /\ outbox[k] = NoRow => accepted'[k] = 0 /\ doubt'[k] = 0
                      /\ outbox[k] # NoRow /\ (\A v \in Process : k \notin batch[v] \ todo'[v])
                         => Truthful(outbox[k], accepted'[k], doubt'[k])
    BY <1>1 DEF MailTruthful
  <2>1. CASE k = m
    BY <1>3, <1>6, <2>1 DEF Due
  <2>2. CASE k # m
    <3>1. \A v \in Process : k \in batch[v] \ todo'[v] <=> k \in batch[v] \ todo[v]
      BY <1>3, <2>2
    <3> QED
      BY <1>3, <2>2, <3>1 DEF OutboxIInv, MailTruthful
  <2> QED
    BY <2>1, <2>2
<1> QED
  BY <1>5, <1>8, <1>9 DEF OutboxIInv

LEMMA SendKept ==
    ASSUME OutboxIInv, NEW w \in Process, Send(w)
    PROVE  OutboxIInv'
<1>1. ASSUME NEW m \in todo[w]
      PROVE  /\ m \in Mail /\ accepted[m] \in Nat /\ doubt[m] = accepted[m]
             /\ Attempts(w, m) \in 1..MaxAttempts
  <2>1. m \in Mail /\ m \in batch[w] /\ accepted[m] \in Nat /\ doubt[m] \in Nat
        /\ outbox[m] \in Row \cup {NoRow}
    BY DEF OutboxIInv, OutboxTypeOK, BatchesHeld
  <2>2. Due(m) /\ session[w][m] = outbox[m]
    BY <2>1 DEF OutboxIInv, BatchesHeld
  <2>3. \A v \in Process : m \notin batch[v] \ todo[v]
    BY <2>1 DEF OutboxIInv, BatchesHeld
  <2>4. Truthful(outbox[m], accepted[m], doubt[m]) /\ outbox[m].status = "pending"
    BY <2>1, <2>2, <2>3 DEF OutboxIInv, MailTruthful, Due
  <2>5. outbox[m].attempts \in Nat /\ outbox[m].attempts < MaxAttempts
    BY <2>1, <2>2 DEF Due, Row
  <2>6. Attempts(w, m) = outbox[m].attempts + 1
    BY <2>2 DEF Attempts
  <2> QED
    BY <2>1, <2>4, <2>5, <2>6, OutboxConstants DEF Truthful
<1>2. ASSUME NEW m \in todo[w]
      PROVE  /\ [status |-> "sent", attempts |-> Attempts(w, m)] \in Row
             /\ Retried(Attempts(w, m)) \in Row
             /\ Truthful([status |-> "sent", attempts |-> Attempts(w, m)], accepted[m] + 1, doubt[m])
             /\ Truthful(Retried(Attempts(w, m)), accepted[m], doubt[m])
             /\ Truthful(Retried(Attempts(w, m)), accepted[m] + 1, doubt[m] + 1)
  <2>1. PICK attempts \in 1..MaxAttempts : attempts = Attempts(w, m)
    BY <1>1
  <2>2. /\ [status |-> "sent", attempts |-> attempts] \in Row
        /\ Retried(attempts) \in Row
        /\ Retried(attempts).status # "sent"
        /\ Retried(attempts).status = "failed" => Retried(attempts).attempts = MaxAttempts
    BY OutboxConstants DEF Row, Retried
  <2> QED
    BY <1>1, <2>1, <2>2 DEF Truthful
<1>3. CASE Delivered(w)
  <2>1. PICK m \in todo[w] :
            /\ Try(w, m, [status |-> "sent", attempts |-> Attempts(w, m)])
            /\ accepted' = [accepted EXCEPT ![m] = @ + 1]
            /\ UNCHANGED doubt
    BY <1>3 DEF Delivered
  <2>2. PICK row \in Row : row = [status |-> "sent", attempts |-> Attempts(w, m)]
    BY <1>2
  <2>3. PICK times \in Nat, lost \in Nat : times = accepted[m] + 1 /\ lost = doubt[m]
    BY <1>1
  <2>4. doubt' = [doubt EXCEPT ![m] = lost]
    BY <1>1, <2>1, <2>3 DEF OutboxIInv, OutboxTypeOK
  <2>5. Tried(w, m, row, times, lost) /\ Truthful(row, times, lost)
    BY <1>2, <2>1, <2>2, <2>3, <2>4 DEF Tried
  <2> QED
    BY <1>1, <2>5, TriedKept
<1>4. CASE Refused(w)
  <2>1. PICK m \in todo[w] :
            /\ Try(w, m, Retried(Attempts(w, m)))
            /\ UNCHANGED <<accepted, doubt>>
    BY <1>4 DEF Refused
  <2>2. PICK row \in Row, times \in Nat, lost \in Nat :
            /\ row = Retried(Attempts(w, m))
            /\ times = accepted[m] /\ lost = doubt[m]
    BY <1>1, <1>2
  <2>3. doubt' = [doubt EXCEPT ![m] = lost] /\ accepted' = [accepted EXCEPT ![m] = times]
    BY <1>1, <2>1, <2>2 DEF OutboxIInv, OutboxTypeOK
  <2>4. Tried(w, m, row, times, lost) /\ Truthful(row, times, lost)
    BY <1>2, <2>1, <2>2, <2>3 DEF Tried
  <2> QED
    BY <1>1, <2>4, TriedKept
<1>5. CASE Unconfirmed(w)
  <2>1. PICK m \in todo[w] :
            /\ Try(w, m, Retried(Attempts(w, m)))
            /\ accepted' = [accepted EXCEPT ![m] = @ + 1]
            /\ doubt' = [doubt EXCEPT ![m] = @ + 1]
    BY <1>5 DEF Unconfirmed
  <2>2. PICK row \in Row : row = Retried(Attempts(w, m))
    BY <1>2
  <2>3. PICK times \in Nat, lost \in Nat : times = accepted[m] + 1 /\ lost = doubt[m] + 1
    BY <1>1
  <2>4. Tried(w, m, row, times, lost) /\ Truthful(row, times, lost)
    BY <1>2, <2>1, <2>2, <2>3 DEF Tried
  <2> QED
    BY <1>1, <2>4, TriedKept
<1> QED
  BY <1>3, <1>4, <1>5 DEF Send

LEMMA OutboxCommitKept ==
    ASSUME OutboxIInv, NEW w \in Process, CommitBatch(w)
    PROVE  OutboxIInv'
<1>1. /\ todo[w] = {}
      /\ outbox' = [m \in Mail |-> IF m \in batch[w] THEN session[w][m] ELSE outbox[m]]
      /\ batch' = [batch EXCEPT ![w] = {}]
      /\ session' = [session EXCEPT ![w] = Closed]
      /\ UNCHANGED <<todo, accepted, doubt, rollbacks>>
  BY DEF CommitBatch
<1>2. /\ batch \in [Process -> SUBSET Mail] /\ todo \in [Process -> SUBSET Mail]
      /\ session \in [Process -> [Mail -> Row \cup {NoRow}]]
      /\ outbox \in [Mail -> Row \cup {NoRow}]
  BY DEF OutboxIInv, OutboxTypeOK
<1>3. OutboxTypeOK'
  BY <1>1, <1>2 DEF OutboxIInv, OutboxTypeOK, Closed
<1>4. /\ batch'[w] = {}
      /\ \A v \in Process : v # w => batch'[v] = batch[v] /\ session'[v] = session[v]
  BY <1>1, <1>2
<1>5. \A m \in batch[w] : /\ outbox'[m] = session[w][m] /\ session[w][m] \in Row
                          /\ Truthful(session[w][m], accepted[m], doubt[m])
                          /\ \A v \in Process : v # w => m \notin batch[v]
  BY <1>1, <1>2 DEF OutboxIInv, BatchesHeld
<1>6. \A m \in Mail : m \notin batch[w] => outbox'[m] = outbox[m]
  BY <1>1
<1>7. BatchesHeld'
  <2>1. \A v \in Process : todo'[v] \subseteq batch'[v]
    BY <1>1, <1>4 DEF OutboxIInv, BatchesHeld
  <2>2. \A u, v \in Process : u # v => batch'[u] \cap batch'[v] = {}
    BY <1>4 DEF OutboxIInv, BatchesHeld
  <2>3. ASSUME NEW v \in Process, NEW m \in batch'[v]
        PROVE  /\ Due(m)'
               /\ m \in todo'[v] => session'[v][m] = outbox'[m]
               /\ m \notin todo'[v] => /\ session'[v][m] \in Row
                                       /\ Truthful(session'[v][m], accepted'[m], doubt'[m])
    <3>1. v # w /\ m \in batch[v] /\ m \in Mail
      BY <1>2, <1>4, <2>3
    <3>2. m \notin batch[w]
      BY <1>5, <3>1
    <3>3. outbox'[m] = outbox[m]
      BY <1>6, <3>1, <3>2
    <3> QED
      BY <1>1, <1>4, <3>1, <3>3 DEF OutboxIInv, BatchesHeld, Due
  <2> QED
    BY <2>1, <2>2, <2>3 DEF BatchesHeld
<1>8. MailTruthful'
  <2> SUFFICES ASSUME NEW m \in Mail
               PROVE  /\ outbox'[m] = NoRow => accepted[m] = 0 /\ doubt[m] = 0
                      /\ outbox'[m] # NoRow /\ (\A v \in Process : m \notin batch'[v] \ todo[v])
                         => Truthful(outbox'[m], accepted[m], doubt[m])
    BY <1>1 DEF MailTruthful
  <2>1. CASE m \in batch[w]
    BY <1>5, <2>1, OutboxConstants
  <2>2. CASE m \notin batch[w]
    <3>1. \A v \in Process : m \in batch'[v] <=> m \in batch[v]
      BY <1>4, <2>2
    <3> QED
      BY <1>6, <2>2, <3>1 DEF OutboxIInv, MailTruthful
  <2> QED
    BY <2>1, <2>2
<1> QED
  BY <1>3, <1>7, <1>8 DEF OutboxIInv

LEMMA OutboxRollbackKept ==
    ASSUME OutboxIInv, NEW w \in Process, Rollback(w)
    PROVE  OutboxIInv'
<1> DEFINE gone == {m \in batch[w] \ todo[w] : session[w][m].status = "sent"}
<1>1. /\ rollbacks < MaxRollbacks
      /\ doubt' = [m \in Mail |-> IF m \in gone THEN doubt[m] + 1 ELSE doubt[m]]
      /\ batch' = [batch EXCEPT ![w] = {}]
      /\ todo' = [todo EXCEPT ![w] = {}]
      /\ session' = [session EXCEPT ![w] = Closed]
      /\ rollbacks' = rollbacks + 1
      /\ UNCHANGED <<outbox, accepted>>
  BY DEF Rollback
<1>2. /\ batch \in [Process -> SUBSET Mail] /\ todo \in [Process -> SUBSET Mail]
      /\ session \in [Process -> [Mail -> Row \cup {NoRow}]]
      /\ doubt \in [Mail -> Nat] /\ accepted \in [Mail -> Nat]
      /\ rollbacks \in 0..MaxRollbacks
  BY DEF OutboxIInv, OutboxTypeOK
<1>3. gone \subseteq batch[w]
  OBVIOUS
<1>4. \A m \in batch[w] \ todo[w] : m \notin gone => session[w][m].status # "sent"
  OBVIOUS
<1>5. \A m \in gone : m \in batch[w] \ todo[w] /\ session[w][m].status = "sent"
  OBVIOUS
<1> HIDE DEF gone
<1>6. OutboxTypeOK'
  <2>1. rollbacks' \in 0..MaxRollbacks
    BY <1>1, <1>2, OutboxConstants
  <2>2. doubt' \in [Mail -> Nat]
    BY <1>1, <1>2
  <2> QED
    BY <1>1, <1>2, <2>1, <2>2 DEF OutboxIInv, OutboxTypeOK, Closed
<1>7. /\ batch'[w] = {} /\ todo'[w] = {}
      /\ \A v \in Process : v # w => /\ batch'[v] = batch[v] /\ todo'[v] = todo[v]
                                     /\ session'[v] = session[v]
  BY <1>1, <1>2
<1>8. \A m \in Mail : m \notin batch[w] => doubt'[m] = doubt[m]
  BY <1>1, <1>3
<1>9. BatchesHeld'
  <2>1. \A v \in Process : todo'[v] \subseteq batch'[v]
    BY <1>7 DEF OutboxIInv, BatchesHeld
  <2>2. \A u, v \in Process : u # v => batch'[u] \cap batch'[v] = {}
    BY <1>7 DEF OutboxIInv, BatchesHeld
  <2>3. ASSUME NEW v \in Process, NEW m \in batch'[v]
        PROVE  /\ Due(m)'
               /\ m \in todo'[v] => session'[v][m] = outbox'[m]
               /\ m \notin todo'[v] => /\ session'[v][m] \in Row
                                       /\ Truthful(session'[v][m], accepted'[m], doubt'[m])
    <3>1. v # w /\ m \in batch[v] /\ m \in Mail
      BY <1>2, <1>7, <2>3
    <3>2. m \notin batch[w]
      BY <3>1 DEF OutboxIInv, BatchesHeld
    <3>3. doubt'[m] = doubt[m]
      BY <1>8, <3>1, <3>2
    <3> QED
      BY <1>1, <1>7, <3>1, <3>3 DEF OutboxIInv, BatchesHeld, Due
  <2> QED
    BY <2>1, <2>2, <2>3 DEF BatchesHeld
<1>10. MailTruthful'
  <2> SUFFICES ASSUME NEW m \in Mail
               PROVE  /\ outbox[m] = NoRow => accepted[m] = 0 /\ doubt'[m] = 0
                      /\ outbox[m] # NoRow /\ (\A v \in Process : m \notin batch'[v] \ todo'[v])
                         => Truthful(outbox[m], accepted[m], doubt'[m])
    BY <1>1 DEF MailTruthful
  <2>1. CASE m \in batch[w] \ todo[w]
    <3>1. /\ outbox[m] # NoRow /\ outbox[m].status = "pending"
          /\ Truthful(session[w][m], accepted[m], doubt[m])
      BY <2>1 DEF OutboxIInv, BatchesHeld, Due
    <3>2. accepted[m] = doubt'[m]
      <4>1. CASE m \in gone
        BY <1>1, <1>5, <3>1, <4>1 DEF Truthful
      <4>2. CASE m \notin gone
        BY <1>1, <1>4, <2>1, <3>1, <4>2 DEF Truthful
      <4> QED
        BY <4>1, <4>2
    <3> QED
      BY <3>1, <3>2 DEF Truthful
  <2>2. CASE m \notin batch[w] \ todo[w]
    <3>1. \A v \in Process : m \in batch'[v] \ todo'[v] <=> m \in batch[v] \ todo[v]
      BY <1>7, <2>2
    <3>2. doubt'[m] = doubt[m]
      BY <1>1, <1>5, <2>2
    <3> QED
      BY <3>1, <3>2 DEF OutboxIInv, MailTruthful
  <2> QED
    BY <2>1, <2>2
<1> QED
  BY <1>6, <1>9, <1>10 DEF OutboxIInv

LEMMA OutboxNextKeeps ==
    ASSUME OutboxIInv, [OutboxNext]_outboxVars
    PROVE  OutboxIInv'
<1>1. ASSUME NEW m \in Mail, Push(m)
      PROVE  OutboxIInv'
  BY <1>1, PushKept
<1>2. ASSUME NEW w \in Process, Fetch(w) \/ Send(w) \/ CommitBatch(w) \/ Rollback(w)
      PROVE  OutboxIInv'
  BY <1>2, FetchKept, SendKept, OutboxCommitKept, OutboxRollbackKept
<1>3. CASE UNCHANGED outboxVars
  <2>1. UNCHANGED <<outbox, batch, todo, session, accepted, doubt, rollbacks>>
    BY <1>3 DEF outboxVars
  <2> QED
    BY <2>1 DEF OutboxIInv, OutboxTypeOK, BatchesHeld, MailTruthful, Due
<1> QED
  BY <1>1, <1>2, <1>3 DEF OutboxNext

\* However many workers poll the outbox, whatever is refused, unconfirmed or lost: no
\* message goes out twice without a lost answer or commit, and rows say what happened.
THEOREM DeliveriesAgreeHolds == OutboxSpec => []DeliveriesAgree
<1>1. OutboxInit => OutboxIInv
  BY OutboxStarts
<1>2. OutboxIInv /\ [OutboxNext]_outboxVars => OutboxIInv'
  BY OutboxNextKeeps
<1>3. OutboxIInv => DeliveriesAgree
  <2> SUFFICES ASSUME OutboxIInv
               PROVE  DeliveriesAgree
    OBVIOUS
  <2>1. ASSUME NEW m \in Mail
        PROVE  /\ accepted[m] <= 1 + doubt[m]
               /\ outbox[m] = NoRow => accepted[m] = 0
               /\ outbox[m] # NoRow =>
                      /\ outbox[m].status = "sent" => accepted[m] >= 1
                      /\ outbox[m].status = "failed" =>
                             outbox[m].attempts = MaxAttempts /\ accepted[m] = doubt[m]
    <3>1. accepted[m] \in Nat /\ doubt[m] \in Nat
      BY DEF OutboxIInv, OutboxTypeOK
    <3>2. CASE outbox[m] = NoRow
      BY <3>1, <3>2 DEF OutboxIInv, MailTruthful
    <3>3. CASE outbox[m] # NoRow /\ \A w \in Process : m \notin batch[w] \ todo[w]
      <4>1. Truthful(outbox[m], accepted[m], doubt[m])
        BY <3>3 DEF OutboxIInv, MailTruthful
      <4> QED
        BY <3>1, <3>3, <4>1 DEF Truthful
    <3>4. CASE \E w \in Process : m \in batch[w] \ todo[w]
      <4>1. PICK w \in Process : m \in batch[w] \ todo[w]
        BY <3>4
      <4>2. Due(m) /\ Truthful(session[w][m], accepted[m], doubt[m])
        BY <4>1 DEF OutboxIInv, BatchesHeld
      <4> QED
        BY <3>1, <4>2 DEF Due, Truthful
    <3> QED
      BY <3>2, <3>3, <3>4
  <2> QED
    BY <2>1 DEF OutboxIInv, DeliveriesAgree, NoNeedlessDuplicate, OutcomeTrue
<1> QED
  BY <1>1, <1>2, <1>3, PTL DEF OutboxSpec

\* Every acceptance of a message is an attempt its row tells of, or was in a lost batch.
TriesCounted ==
    \A m \in Mail :
        /\ outbox[m] # NoRow /\ (\A w \in Process : m \notin batch[w] \ todo[w])
           => accepted[m] <= outbox[m].attempts + rollbacks
        /\ \A w \in Process : m \in batch[w] \ todo[w] =>
               /\ session[w][m].attempts = outbox[m].attempts + 1
               /\ accepted[m] <= session[w][m].attempts + rollbacks

LEMMA TriesCountedByTry ==
    ASSUME OutboxIInv, TriesCounted, NEW w \in Process, NEW m \in todo[w], NEW row \in Row,
           row.attempts = Attempts(w, m), Try(w, m, row),
           UNCHANGED accepted \/ accepted' = [accepted EXCEPT ![m] = @ + 1]
    PROVE  TriesCounted'
<1>1. /\ todo' = [todo EXCEPT ![w] = @ \ {m}]
      /\ session' = [session EXCEPT ![w][m] = row]
      /\ UNCHANGED <<outbox, batch, rollbacks>>
  BY DEF Try
<1>2. /\ batch \in [Process -> SUBSET Mail] /\ todo \in [Process -> SUBSET Mail]
      /\ session \in [Process -> [Mail -> Row \cup {NoRow}]]
      /\ outbox \in [Mail -> Row \cup {NoRow}]
      /\ accepted \in [Mail -> Nat] /\ rollbacks \in Nat
  BY OutboxConstants DEF OutboxIInv, OutboxTypeOK
<1>3. /\ m \in Mail /\ m \in batch[w] /\ \A v \in Process : v # w => m \notin batch[v]
      /\ outbox[m] # NoRow /\ session[w][m] = outbox[m]
  BY <1>2 DEF OutboxIInv, BatchesHeld, Due
<1>4. /\ todo'[w] = todo[w] \ {m} /\ session'[w][m] = row
      /\ \A k \in Mail : k # m => session'[w][k] = session[w][k] /\ accepted'[k] = accepted[k]
      /\ \A v \in Process : v # w => todo'[v] = todo[v] /\ session'[v] = session[v]
      /\ accepted'[m] \in Nat /\ accepted'[m] <= accepted[m] + 1
  BY <1>1, <1>2, <1>3
<1>5. outbox[m].attempts \in Nat /\ row.attempts = outbox[m].attempts + 1
  BY <1>2, <1>3, OutboxConstants DEF Attempts, Row
<1>6. accepted[m] <= outbox[m].attempts + rollbacks
  <2>1. \A v \in Process : m \notin batch[v] \ todo[v]
    BY <1>3
  <2> QED
    BY <1>3, <2>1 DEF TriesCounted
<1>7. accepted'[m] <= row.attempts + rollbacks
  BY <1>2, <1>3, <1>4, <1>5, <1>6
<1> SUFFICES ASSUME NEW k \in Mail
             PROVE  /\ outbox[k] # NoRow /\ (\A v \in Process : k \notin batch[v] \ todo'[v])
                       => accepted'[k] <= outbox[k].attempts + rollbacks
                    /\ \A v \in Process : k \in batch[v] \ todo'[v] =>
                           /\ session'[v][k].attempts = outbox[k].attempts + 1
                           /\ accepted'[k] <= session'[v][k].attempts + rollbacks
  BY <1>1 DEF TriesCounted
<1>8. CASE k = m
  BY <1>3, <1>4, <1>5, <1>7, <1>8
<1>9. CASE k # m
  <2>1. \A v \in Process : /\ k \in batch[v] \ todo'[v] <=> k \in batch[v] \ todo[v]
                           /\ session'[v][k] = session[v][k]
    BY <1>4, <1>9
  <2> QED
    BY <1>4, <1>9, <2>1 DEF TriesCounted
<1> QED
  BY <1>8, <1>9

LEMMA TriesCountedKept ==
    ASSUME OutboxIInv, TriesCounted, [OutboxNext]_outboxVars
    PROVE  TriesCounted'
<1>1. /\ batch \in [Process -> SUBSET Mail] /\ todo \in [Process -> SUBSET Mail]
      /\ session \in [Process -> [Mail -> Row \cup {NoRow}]]
      /\ outbox \in [Mail -> Row \cup {NoRow}]
      /\ accepted \in [Mail -> Nat] /\ rollbacks \in Nat
  BY OutboxConstants DEF OutboxIInv, OutboxTypeOK
<1>2. ASSUME NEW m \in Mail, Push(m)
      PROVE  TriesCounted'
  <2>1. /\ outbox[m] = NoRow
        /\ outbox' = [outbox EXCEPT ![m] = [status |-> "pending", attempts |-> 0]]
        /\ UNCHANGED <<batch, todo, session, accepted, rollbacks>>
    BY <1>2 DEF Push
  <2>2. accepted[m] = 0 /\ \A w \in Process : m \notin batch[w]
    BY <2>1 DEF OutboxIInv, MailTruthful, BatchesHeld, Due
  <2>3. outbox'[m].attempts = 0 /\ \A k \in Mail : k # m => outbox'[k] = outbox[k]
    BY <1>1, <2>1
  <2> QED
    BY <1>1, <2>1, <2>2, <2>3 DEF TriesCounted
<1>3. ASSUME NEW w \in Process, Fetch(w)
      PROVE  TriesCounted'
  <2>1. /\ batch[w] = {} /\ batch' = [batch EXCEPT ![w] = NextBatch]
        /\ todo' = [todo EXCEPT ![w] = NextBatch]
        /\ session' = [session EXCEPT ![w] =
                           [m \in Mail |-> IF m \in NextBatch THEN outbox[m] ELSE NoRow]]
        /\ UNCHANGED <<outbox, accepted, rollbacks>>
    BY <1>3 DEF Fetch
  <2>2. \A v \in Process : /\ batch'[v] \ todo'[v] = batch[v] \ todo[v]
                           /\ v # w => session'[v] = session[v]
    BY <1>1, <2>1
  <2>3. \A v \in Process : \A m : m \in batch'[v] \ todo'[v] <=> m \in batch[v] \ todo[v]
    BY <2>2
  <2>4. \A v \in Process : \A m : m \in batch[v] \ todo[v] => session'[v][m] = session[v][m]
    BY <2>1, <2>2
  <2> QED
    BY <2>1, <2>3, <2>4 DEF TriesCounted
<1>4. ASSUME NEW w \in Process, Send(w)
      PROVE  TriesCounted'
  <2>1. ASSUME NEW m \in todo[w]
        PROVE  Attempts(w, m) \in 1..MaxAttempts
    <3>1. m \in Mail /\ Due(m) /\ session[w][m] = outbox[m]
      BY <1>1 DEF OutboxIInv, BatchesHeld
    <3> QED
      BY <1>1, <3>1, OutboxConstants DEF Attempts, Due, Row
  <2>a. PICK m \in todo[w] :
            /\ \/ Try(w, m, [status |-> "sent", attempts |-> Attempts(w, m)])
               \/ Try(w, m, Retried(Attempts(w, m)))
            /\ UNCHANGED accepted \/ accepted' = [accepted EXCEPT ![m] = @ + 1]
    BY <1>4 DEF Send, Delivered, Refused, Unconfirmed
  <2>2. PICK row :
            /\ Try(w, m, row)
            /\ \/ row = [status |-> "sent", attempts |-> Attempts(w, m)]
               \/ row = Retried(Attempts(w, m))
            /\ UNCHANGED accepted \/ accepted' = [accepted EXCEPT ![m] = @ + 1]
    BY <2>a
  <2>3. row \in Row /\ row.attempts = Attempts(w, m)
    BY <2>1, <2>2 DEF Row, Retried
  <2> QED
    BY <2>2, <2>3, TriesCountedByTry
<1>5. ASSUME NEW w \in Process, CommitBatch(w)
      PROVE  TriesCounted'
  <2>1. /\ todo[w] = {}
        /\ outbox' = [m \in Mail |-> IF m \in batch[w] THEN session[w][m] ELSE outbox[m]]
        /\ batch' = [batch EXCEPT ![w] = {}] /\ session' = [session EXCEPT ![w] = Closed]
        /\ UNCHANGED <<todo, accepted, rollbacks>>
    BY <1>5 DEF CommitBatch
  <2>2. /\ batch'[w] = {}
        /\ \A v \in Process : v # w => batch'[v] = batch[v] /\ session'[v] = session[v]
    BY <1>1, <2>1
  <2> SUFFICES ASSUME NEW m \in Mail
               PROVE  /\ outbox'[m] # NoRow /\ (\A v \in Process : m \notin batch'[v] \ todo[v])
                         => accepted[m] <= outbox'[m].attempts + rollbacks
                      /\ \A v \in Process : m \in batch'[v] \ todo[v] =>
                             /\ session'[v][m].attempts = outbox'[m].attempts + 1
                             /\ accepted[m] <= session'[v][m].attempts + rollbacks
    BY <2>1 DEF TriesCounted
  <2>3. CASE m \in batch[w]
    <3>1. outbox'[m] = session[w][m] /\ \A v \in Process : m \notin batch'[v]
      BY <2>1, <2>2, <2>3 DEF OutboxIInv, BatchesHeld
    <3> QED
      BY <2>1, <2>3, <3>1 DEF TriesCounted
  <2>4. CASE m \notin batch[w]
    <3>1. /\ outbox'[m] = outbox[m]
          /\ \A v \in Process : m \in batch'[v] <=> m \in batch[v]
      BY <2>1, <2>2, <2>4
    <3> QED
      BY <2>2, <2>4, <3>1 DEF TriesCounted
  <2> QED
    BY <2>3, <2>4
<1>6. ASSUME NEW w \in Process, Rollback(w)
      PROVE  TriesCounted'
  <2>1. /\ batch' = [batch EXCEPT ![w] = {}] /\ todo' = [todo EXCEPT ![w] = {}]
        /\ session' = [session EXCEPT ![w] = Closed]
        /\ rollbacks' = rollbacks + 1
        /\ UNCHANGED <<outbox, accepted>>
    BY <1>6 DEF Rollback
  <2>2. /\ batch'[w] = {}
        /\ \A v \in Process : v # w => /\ batch'[v] = batch[v] /\ todo'[v] = todo[v]
                                       /\ session'[v] = session[v]
    BY <1>1, <2>1
  <2> SUFFICES ASSUME NEW m \in Mail
               PROVE  /\ outbox[m] # NoRow /\ (\A v \in Process : m \notin batch'[v] \ todo'[v])
                         => accepted[m] <= outbox[m].attempts + rollbacks'
                      /\ \A v \in Process : m \in batch'[v] \ todo'[v] =>
                             /\ session'[v][m].attempts = outbox[m].attempts + 1
                             /\ accepted[m] <= session'[v][m].attempts + rollbacks'
    BY <2>1 DEF TriesCounted
  <2>3. accepted[m] \in Nat /\ (outbox[m] # NoRow => outbox[m].attempts \in Nat)
    BY <1>1, OutboxConstants DEF Row
  <2>4. CASE m \in batch[w] \ todo[w]
    <3>1. /\ session[w][m].attempts = outbox[m].attempts + 1
          /\ accepted[m] <= session[w][m].attempts + rollbacks
      BY <2>4 DEF TriesCounted
    <3>2. \A v \in Process : m \notin batch'[v]
      BY <2>2, <2>4 DEF OutboxIInv, BatchesHeld
    <3> QED
      BY <1>1, <2>1, <2>3, <3>1, <3>2
  <2>5. CASE m \notin batch[w] \ todo[w]
    <3>1. \A v \in Process : m \in batch'[v] \ todo'[v] <=> m \in batch[v] \ todo[v]
      BY <2>2, <2>5
    <3>2. ASSUME NEW v \in Process, m \in batch[v] \ todo[v]
          PROVE  /\ v # w /\ session'[v][m] = session[v][m]
                 /\ session[v][m].attempts = outbox[m].attempts + 1
                 /\ accepted[m] <= session[v][m].attempts + rollbacks
                 /\ session[v][m].attempts \in Nat
      BY <2>2, <2>3, <2>5, <3>2 DEF TriesCounted, OutboxIInv, BatchesHeld, Due
    <3>3. outbox[m] # NoRow /\ (\A v \in Process : m \notin batch[v] \ todo[v])
          => accepted[m] <= outbox[m].attempts + rollbacks
      BY DEF TriesCounted
    <3> QED
      BY <1>1, <2>1, <2>3, <3>1, <3>2, <3>3
  <2> QED
    BY <2>4, <2>5
<1>7. CASE UNCHANGED outboxVars
  <2>1. UNCHANGED <<outbox, batch, todo, session, accepted, doubt, rollbacks>>
    BY <1>7 DEF outboxVars
  <2> QED
    BY <2>1 DEF TriesCounted
<1> QED
  BY <1>2, <1>3, <1>4, <1>5, <1>6, <1>7 DEF OutboxNext

\* A message reaches the server at most as often as it may be tried, and once more for
\* every batch that was lost (attempts are committed with their outcome).
THEOREM AcceptancesBounded ==
    OutboxSpec => [](\A m \in Mail : accepted[m] <= MaxAttempts + rollbacks)
<1>1. OutboxInit => OutboxIInv /\ TriesCounted
  BY OutboxStarts DEF OutboxInit, TriesCounted
<1>2. (OutboxIInv /\ TriesCounted) /\ [OutboxNext]_outboxVars => (OutboxIInv /\ TriesCounted)'
  BY OutboxNextKeeps, TriesCountedKept
<1>3. OutboxIInv /\ TriesCounted => \A m \in Mail : accepted[m] <= MaxAttempts + rollbacks
  <2> SUFFICES ASSUME OutboxIInv, TriesCounted, NEW m \in Mail
               PROVE  accepted[m] <= MaxAttempts + rollbacks
    OBVIOUS
  <2>1. /\ outbox[m] \in Row \cup {NoRow} /\ accepted[m] \in Nat /\ rollbacks \in Nat
        /\ MaxAttempts \in Nat
    BY OutboxConstants DEF OutboxIInv, OutboxTypeOK
  <2>2. CASE outbox[m] = NoRow
    <3>1. accepted[m] = 0
      BY <2>2 DEF OutboxIInv, MailTruthful
    <3> QED
      BY <2>1, <3>1
  <2>3. CASE outbox[m] # NoRow /\ \A w \in Process : m \notin batch[w] \ todo[w]
    <3>1. outbox[m].attempts \in 0..MaxAttempts
      BY <2>1, <2>3 DEF Row
    <3> QED
      BY <2>1, <2>3, <3>1 DEF TriesCounted
  <2>4. ASSUME NEW w \in Process, m \in batch[w] \ todo[w]
        PROVE  accepted[m] <= MaxAttempts + rollbacks
    <3>1. session[w][m].attempts \in 0..MaxAttempts
      BY <2>4 DEF OutboxIInv, BatchesHeld, Row
    <3> QED
      BY <2>1, <2>4, <3>1 DEF TriesCounted
  <2> QED
    BY <2>2, <2>3, <2>4
<1> QED
  BY <1>1, <1>2, <1>3, PTL DEF OutboxSpec

\* What was sent or given up stays so: no worker picks it up again, and none that held
\* it before writes an older outcome over it.
THEOREM OutcomesFinal ==
    OutboxSpec => [][\A m \in Mail : outbox[m] # NoRow /\ outbox[m].status # "pending"
                                     => outbox'[m] = outbox[m]]_outboxVars
<1>1. OutboxInit => OutboxIInv
  BY OutboxStarts
<1>2. OutboxIInv /\ [OutboxNext]_outboxVars => OutboxIInv'
  BY OutboxNextKeeps
<1>3. OutboxIInv /\ [OutboxNext]_outboxVars
      => [\A m \in Mail : outbox[m] # NoRow /\ outbox[m].status # "pending"
                          => outbox'[m] = outbox[m]]_outboxVars
  <2> SUFFICES ASSUME OutboxIInv, OutboxNext, NEW m \in Mail,
                      outbox[m] # NoRow, outbox[m].status # "pending"
               PROVE  outbox'[m] = outbox[m]
    OBVIOUS
  <2>1. \A w \in Process : m \notin batch[w]
    BY DEF OutboxIInv, BatchesHeld, Due
  <2>2. outbox \in [Mail -> Row \cup {NoRow}]
    BY DEF OutboxIInv, OutboxTypeOK
  <2>3. ASSUME NEW k \in Mail, Push(k)
        PROVE  outbox'[m] = outbox[m]
    BY <2>2, <2>3 DEF Push
  <2>4. ASSUME NEW w \in Process, CommitBatch(w)
        PROVE  outbox'[m] = outbox[m]
    BY <2>1, <2>4 DEF CommitBatch
  <2>5. ASSUME NEW w \in Process, Fetch(w) \/ Send(w) \/ Rollback(w)
        PROVE  outbox'[m] = outbox[m]
    BY <2>5 DEF Fetch, Send, Delivered, Refused, Unconfirmed, Try, Rollback
  <2> QED
    BY <2>3, <2>4, <2>5 DEF OutboxNext
<1> QED
  BY <1>1, <1>2, <1>3, PTL DEF OutboxSpec
===============================================================================
